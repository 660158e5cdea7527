------------------------------ MODULE Registry ------------------------------
(***************************************************************************)
(* The connection plane of one gateway process: the sharded registry       *)
(* (connection.Manager and connection.Shard), the close state of every     *)
(* connection.Client, the read and write pumps each client runs, and the   *)
(* background sweep of inactive clients.                                   *)
(*                                                                         *)
(* Every shard operation runs under its shard's lock and is one step; the  *)
(* steps between two lock regions (the counter update, Close, the hooks)   *)
(* are separate steps, so the goroutines of several clients, the accept    *)
(* handlers and the sweeper interleave the way the Go scheduler may run    *)
(* them.  Payloads are abstracted away: a queue is the number of frames    *)
(* waiting in Client.Send.                                                 *)
(***************************************************************************)
EXTENDS Naturals, FiniteSets, FiniteSetsExt, Bitwise

CONSTANTS
  Clients,      \* client ids (uuid.New() in AddConnection), one connection each
  ShardCount,   \* cfg.Sharding.ShardCount
  Users,        \* user ids carried by auth tokens
  Devices,      \* device ids carried by auth tokens
  MaxConns,     \* cfg.RateLimit.GlobalConnections
  QueueCap,     \* capacity of Client.Send (256 in NewClient)
  NoClient,     \* an empty slot of the user index
  NoUser        \* Client.UserID before authentication ("")

(* validateConfig (config.go:154-172), on the keys this module reads: the *)
(* shard count and the global connection limit must be positive.           *)
ValidateConfig(shardCount, globalConnections) ==
  /\ shardCount > 0
  /\ globalConnections > 0

ASSUME ShardCount \in Nat /\ MaxConns \in Nat
ASSUME ValidateConfig(ShardCount, MaxConns)
ASSUME QueueCap \in Nat \ {0}
ASSUME NoClient \notin Clients /\ NoUser \notin Users

(* nextPowerOfTwo (manager.go:255-264) on uint32: decrement, smear the     *)
(* highest set bit into every lower one, increment.  Its two wrap-arounds  *)
(* (n = 0, which NewManager replaces by 64 first, and n > 2^31) lie beyond *)
(* TLC's integers, so n stays below 2^31 here.                             *)
RECURSIVE Smear(_, _)
Smear(x, shift) ==
  IF shift > 16 THEN x ELSE Smear(x | shiftR(x, shift), 2 * shift)

NextPowerOfTwoNoDecrement(n) == Smear(n, 1) + 1

NextPowerOfTwo(n) == Smear(n - 1, 1) + 1

(* NewManager (manager.go:46-54): 64 shards when unset, else the next      *)
(* power of two, and the mask getShardID applies to the fnv32a hash.       *)
NumShards == NextPowerOfTwo(IF ShardCount = 0 THEN 64 ELSE ShardCount)

ShardMask == NumShards - 1

ShardIndex(hash) == hash & ShardMask

Shards == 0 .. NumShards - 1

VARIABLES
  shardOf,      \* Client.ShardID: fnv32a(id) & mask, fixed when the id is minted
  shardClients, \* Shard.clients: the client ids of each shard
  userIdx,      \* Shard.userClients: shard -> user -> device -> client
  globalConns,  \* Manager.globalConns
  accept,       \* where ServeHTTP / AddConnection is for each client
  conn,         \* the websocket: "open" or "closed" (by the peer or Conn.Close)
  closing,      \* Client.closing; set together with ctx cancel
  sendClosed,   \* close(c.Send) has run
  queue,        \* len(c.Send)
  crashed,      \* a Go runtime panic (send on / close of a closed channel)
  rp,           \* program counter of the client's ReadPump goroutine
  wp,           \* program counter of the client's WritePump goroutine
  authed,       \* Client.authenticated
  user,         \* Client.UserID
  device,       \* Client.DeviceID
  stale,        \* now - LastActivity > 2 * PongWait
  sendTo,       \* SendToUser in progress on the read pump: the target user
  sendShard,    \* the next shard SendToUser visits
  sendTargets,  \* clients BroadcastToUser copied out of the shard, not yet written
  sweepPending, \* ids CleanupInactive returned, not yet processed by the manager
  sweepShard,   \* the shard those ids were removed from
  disconnects   \* how many times onDisconnect has run

regVars   == <<shardOf, shardClients, userIdx, globalConns>>
chanVars  == <<conn, closing, sendClosed, queue, crashed>>
authVars  == <<authed, user, device>>
sendVars  == <<sendTo, sendShard, sendTargets>>
sweepVars == <<sweepPending, sweepShard>>
vars == <<regVars, chanVars, authVars, sendVars, sweepVars, disconnects,
          accept, rp, wp, stale>>

\* Every client id in some shard's primary map.
Registered == UNION {shardClients[s] : s \in Shards}

-----------------------------------------------------------------------------
(* Client methods that change the close state; each runs under Client.mu.  *)

\* The body shared by Close and cleanup once closing was false: cancel the
\* context, close(c.Send), c.Conn.Close(). Closing a closed channel panics.
CloseState(c) ==
  /\ closing'    = [closing EXCEPT ![c] = TRUE]
  /\ sendClosed' = [sendClosed EXCEPT ![c] = TRUE]
  /\ crashed'    = (crashed \/ sendClosed[c])
  /\ conn'       = [conn EXCEPT ![c] = "closed"]

\* Client.Close(reason): idempotent through the closing flag.
Close(c) ==
  IF closing[c] THEN UNCHANGED <<closing, sendClosed, crashed, conn>>
                ELSE CloseState(c)

\* Mutant: cleanup() without the closing check, closing c.Send again.
CleanupNoGuard(c) == CloseState(c)

\* Client.cleanup(), deferred by both pumps.
Cleanup(c) ==
  IF closing[c] THEN UNCHANGED <<closing, sendClosed, crashed, conn>>
                ELSE CloseState(c)

\* Client.WriteMessage: refuse a closing client, otherwise a non-blocking
\* send on c.Send that drops the frame when the buffer is full. A send on a
\* closed channel panics.
WriteMessage(t) ==
  IF closing[t] THEN UNCHANGED <<queue, crashed>>
  ELSE IF sendClosed[t] THEN /\ crashed' = TRUE
                             /\ UNCHANGED queue
  ELSE IF queue[t] < QueueCap THEN /\ queue' = [queue EXCEPT ![t] = @ + 1]
                                   /\ UNCHANGED crashed
  ELSE UNCHANGED <<queue, crashed>>

\* Shard.RemoveClient / CleanupInactive: delete(devices, client.DeviceID) for
\* each removed client whose UserID is set, whichever client that slot holds.
DropUserEntries(s, removed) ==
  [userIdx EXCEPT ![s] =
     [u \in Users |-> [d \in Devices |->
        IF \E c \in removed : user[c] = u /\ device[c] = d
        THEN NoClient ELSE userIdx[s][u][d]]]]

\* Shard.AddClient under the shard lock: clients[client.ID] = client.
ShardAddClient(s, c) == [shardClients EXCEPT ![s] = @ \cup {c}]

\* Client.SetAuthenticated under the client lock.
SetAuthenticated(c, u, d) ==
  /\ authed' = [authed EXCEPT ![c] = TRUE]
  /\ user'   = [user EXCEPT ![c] = u]
  /\ device' = [device EXCEPT ![c] = d]

\* Shard.RegisterAuthenticatedClient under the shard lock: SetAuthenticated,
\* then userClients[u][d] = client, whatever the slot held before.
RegisterAuthenticatedClient(s, c, u, d) ==
  /\ SetAuthenticated(c, u, d)
  /\ userIdx' = [userIdx EXCEPT ![s][u][d] = c]

-----------------------------------------------------------------------------
(* ServeHTTP and Manager.AddConnection, run by the accept goroutine.       *)

\* The global limit check and the IP limiter: a connection is admitted while
\* the counter read is below the limit; it is refused when the read is at the
\* limit, or at any time by the IP limiter or a failed upgrade.
Admit(c) ==
  /\ accept[c] = "idle"
  /\ \/ /\ globalConns < MaxConns
        /\ accept' = [accept EXCEPT ![c] = "admitted"]
     \/ /\ globalConns >= MaxConns
        /\ accept' = [accept EXCEPT ![c] = "rejected"]
     \/ accept' = [accept EXCEPT ![c] = "rejected"]
  /\ UNCHANGED <<regVars, chanVars, authVars, sendVars, sweepVars, disconnects,
                 rp, wp, stale>>

\* shard.AddClient(client) under the shard lock.
AddToShard(c) ==
  /\ accept[c] = "admitted"
  /\ shardClients' = ShardAddClient(shardOf[c], c)
  /\ accept' = [accept EXCEPT ![c] = "added"]
  /\ UNCHANGED <<shardOf, userIdx, globalConns, chanVars, authVars, sendVars,
                 sweepVars, disconnects, rp, wp, stale>>

\* atomic.AddInt64(&m.globalConns, 1), then both pumps are started and
\* m.onConnect runs (it only records a metric).
CountAndSpawn(c) ==
  /\ accept[c] = "added"
  /\ globalConns' = globalConns + 1
  /\ rp' = [rp EXCEPT ![c] = "reading"]
  /\ wp' = [wp EXCEPT ![c] = "running"]
  /\ accept' = [accept EXCEPT ![c] = "done"]
  /\ UNCHANGED <<shardOf, shardClients, userIdx, chanVars, authVars, sendVars,
                 sweepVars, disconnects, stale>>

-----------------------------------------------------------------------------
(* ReadPump: one step per frame read, then the router's handling of it.   *)

\* A frame answered on the client's own queue with an error frame: the
\* per-client rate limiter refused it (RATE_LIMIT_EXCEEDED).
ReadRefused(c) ==
  /\ rp[c] = "reading"
  /\ conn[c] = "open"
  /\ stale' = [stale EXCEPT ![c] = FALSE]
  /\ WriteMessage(c)
  /\ UNCHANGED <<regVars, conn, closing, sendClosed, authVars, sendVars,
                 sweepVars, disconnects, accept, rp, wp>>

\* An auth frame from an unauthenticated client reaches
\* Manager.AuthenticateClient: GetClient (not found: error), then
\* userLimiter.Allow (refused: error), then
\* Shard.RegisterAuthenticatedClient, which overwrites the (user, device) slot.
\* The lookup and the registration take the shard lock separately, but one
\* step suffices: only this pump and the sweeper remove c, and the sweeper
\* only after 2 x PongWait without a frame, while this frame has just set
\* LastActivity.
ReadAuth(c, u, d) ==
  LET s == shardOf[c] IN
  /\ rp[c] = "reading"
  /\ conn[c] = "open"
  /\ ~authed[c]
  /\ stale' = [stale EXCEPT ![c] = FALSE]
  /\ \/ /\ c \notin shardClients[s]
        /\ UNCHANGED <<authVars, userIdx>>
     \/ /\ c \in shardClients[s]
        /\ UNCHANGED <<authVars, userIdx>>
     \/ /\ c \in shardClients[s]
        /\ RegisterAuthenticatedClient(s, c, u, d)
  /\ UNCHANGED <<shardOf, shardClients, globalConns, chanVars, sendVars,
                 sweepVars, disconnects, accept, rp, wp>>

\* A direct message from an authenticated client: the router calls
\* Manager.SendToUser(u), which visits the shards in order.
ReadDirect(c, u) ==
  /\ rp[c] = "reading"
  /\ conn[c] = "open"
  /\ authed[c]
  /\ stale' = [stale EXCEPT ![c] = FALSE]
  /\ rp' = [rp EXCEPT ![c] = "sending"]
  /\ sendTo' = [sendTo EXCEPT ![c] = u]
  /\ sendShard' = [sendShard EXCEPT ![c] = 0]
  /\ sendTargets' = [sendTargets EXCEPT ![c] = {}]
  /\ UNCHANGED <<regVars, chanVars, authVars, sweepVars, disconnects, accept, wp>>

\* A frame the router answers with Manager.SendToClient(t): GetClient(t)
\* under the read lock of t's shard; a client found there is written to
\* after the lock is released, like a single BroadcastToUser target.
SendToClient(c, t) ==
  /\ rp[c] = "reading"
  /\ conn[c] = "open"
  /\ authed[c]
  /\ stale' = [stale EXCEPT ![c] = FALSE]
  /\ rp' = [rp EXCEPT ![c] = "sending"]
  /\ sendShard' = [sendShard EXCEPT ![c] = NumShards]
  /\ sendTargets' = [sendTargets EXCEPT ![c] = shardClients[shardOf[t]] \cap {t}]
  /\ UNCHANGED <<regVars, chanVars, authVars, sweepVars, disconnects,
                 sendTo, accept, wp>>

\* Shard.BroadcastToUser, first half: copy the user's clients out of the
\* shard under its read lock.
SnapshotShard(c) ==
  LET s == sendShard[c] IN
  /\ rp[c] = "sending"
  /\ sendTargets[c] = {}
  /\ s < NumShards
  /\ sendTargets' = [sendTargets EXCEPT ![c] =
                       {userIdx[s][sendTo[c]][d] : d \in Devices} \ {NoClient}]
  /\ sendShard' = [sendShard EXCEPT ![c] = s + 1]
  /\ UNCHANGED <<regVars, chanVars, authVars, sweepVars, disconnects, sendTo,
                 accept, rp, wp, stale>>

\* Shard.BroadcastToUser, second half: WriteMessage to each copied client,
\* after the shard lock is released.
Deliver(c, t) ==
  /\ rp[c] = "sending"
  /\ t \in sendTargets[c]
  /\ WriteMessage(t)
  /\ sendTargets' = [sendTargets EXCEPT ![c] = @ \ {t}]
  /\ UNCHANGED <<regVars, conn, closing, sendClosed, authVars, sweepVars,
                 disconnects, sendTo, sendShard, accept, rp, wp, stale>>

\* SendToUser has visited every shard, or SendToClient has written its
\* target; the read loop continues.
SendDone(c) ==
  /\ rp[c] = "sending"
  /\ sendTargets[c] = {}
  /\ sendShard[c] = NumShards
  /\ rp' = [rp EXCEPT ![c] = "reading"]
  /\ UNCHANGED <<regVars, chanVars, authVars, sendVars, sweepVars, disconnects,
                 accept, wp, stale>>

\* ReadMessage fails (the socket is closed by the peer, by Conn.Close, or the
\* read deadline passed) or ctx is done: the deferred closeHandler runs.
ReadError(c) ==
  /\ rp[c] = "reading"
  /\ conn[c] = "closed"
  /\ rp' = [rp EXCEPT ![c] = "remove"]
  /\ UNCHANGED <<regVars, chanVars, authVars, sendVars, sweepVars, disconnects,
                 accept, wp, stale>>

\* Mutant: Manager.RemoveClient without the nil check on the shard's answer:
\* it decrements and closes even when the client was already gone.
RemoveUnchecked(c) ==
  LET s == shardOf[c] IN
  /\ rp[c] = "remove"
  /\ shardClients' = [shardClients EXCEPT ![s] = @ \ {c}]
  /\ userIdx' = DropUserEntries(s, {c})
  /\ rp' = [rp EXCEPT ![c] = "release"]
  /\ UNCHANGED <<shardOf, globalConns, chanVars, authVars, sendVars, sweepVars,
                 disconnects, accept, wp, stale>>

\* Manager.RemoveClient, first half: Shard.RemoveClient under the shard lock.
\* A client still in the shard is deleted from both maps and returned. For a
\* client that is gone already it returns nil: RemoveClient does nothing
\* more and the pump's deferred cleanup() runs.
Remove(c) ==
  LET s == shardOf[c] IN
  /\ rp[c] = "remove"
  /\ \/ /\ c \in shardClients[s]
        /\ shardClients' = [shardClients EXCEPT ![s] = @ \ {c}]
        /\ userIdx' = DropUserEntries(s, {c})
        /\ rp' = [rp EXCEPT ![c] = "release"]
        /\ UNCHANGED <<closing, sendClosed, crashed, conn>>
     \/ /\ c \notin shardClients[s]
        /\ Cleanup(c)
        /\ rp' = [rp EXCEPT ![c] = "done"]
        /\ UNCHANGED <<shardClients, userIdx>>
  /\ UNCHANGED <<shardOf, globalConns, queue, authVars, sendVars, sweepVars,
                 disconnects, accept, wp, stale>>

\* Manager.RemoveClient, second half for a returned client: decrement the
\* global counter, client.Close(reason), m.onDisconnect; the deferred
\* cleanup() that follows finds closing set and does nothing.
Release(c) ==
  /\ rp[c] = "release"
  /\ globalConns' = globalConns - 1
  /\ Close(c)
  /\ disconnects' = [disconnects EXCEPT ![c] = @ + 1]
  /\ rp' = [rp EXCEPT ![c] = "done"]
  /\ UNCHANGED <<shardOf, shardClients, userIdx, queue, authVars, sendVars,
                 sweepVars, accept, wp, stale>>

-----------------------------------------------------------------------------
(* WritePump.                                                              *)

\* A receive from c.Send followed by the drain of len(c.Send) more frames
\* into one writer, written successfully.
WriteFlush(c) ==
  /\ wp[c] = "running"
  /\ queue[c] > 0
  /\ conn[c] = "open"
  /\ queue' = [queue EXCEPT ![c] = 0]
  /\ UNCHANGED <<regVars, conn, closing, sendClosed, crashed, authVars,
                 sendVars, sweepVars, disconnects, accept, rp, wp, stale>>

\* The pump returns and its deferred cleanup() runs: NextWriter, w.Close or
\* the ping write failed (write deadline on a slow peer, broken socket), or
\* ctx.Done() is ready, or c.Send is closed and drained.
WriteFail(c) ==
  /\ wp[c] = "running"
  /\ Cleanup(c)
  /\ wp' = [wp EXCEPT ![c] = "done"]
  /\ UNCHANGED <<regVars, queue, authVars, sendVars, sweepVars, disconnects,
                 accept, rp, stale>>

WriteStop(c) ==
  /\ wp[c] = "running"
  /\ \/ closing[c]
     \/ sendClosed[c] /\ queue[c] = 0
  /\ Cleanup(c)
  /\ wp' = [wp EXCEPT ![c] = "done"]
  /\ UNCHANGED <<regVars, queue, authVars, sendVars, sweepVars, disconnects,
                 accept, rp, stale>>

-----------------------------------------------------------------------------
(* The cleanup goroutine: cleanupInactiveConnections on every tick.         *)

\* Mutant: CleanupInactive that forgets the user mapping of removed clients.
SweepKeepIndex(s) ==
  LET removed == {c \in shardClients[s] : stale[c]} IN
  /\ sweepPending = {}
  /\ removed # {}
  /\ shardClients' = [shardClients EXCEPT ![s] = @ \ removed]
  /\ sweepPending' = removed
  /\ sweepShard' = s
  /\ UNCHANGED <<shardOf, userIdx, globalConns, chanVars, authVars, sendVars,
                 disconnects, accept, rp, wp, stale>>

\* Shard.CleanupInactive under the shard lock: delete every client inactive
\* for longer than 2 * PongWait from both maps and return their ids. The
\* clients themselves are not closed.
Sweep(s) ==
  LET removed == {c \in shardClients[s] : stale[c]} IN
  /\ sweepPending = {}
  /\ removed # {}
  /\ shardClients' = [shardClients EXCEPT ![s] = @ \ removed]
  /\ userIdx' = DropUserEntries(s, removed)
  /\ sweepPending' = removed
  /\ sweepShard' = s
  /\ UNCHANGED <<shardOf, globalConns, chanVars, authVars, sendVars,
                 disconnects, accept, rp, wp, stale>>

\* For each returned id: decrement the counter, and fire onDisconnect if
\* shard.GetClient(id) still finds the client.
SweepDecrement(c) ==
  /\ c \in sweepPending
  /\ globalConns' = globalConns - 1
  /\ disconnects' = IF c \in shardClients[sweepShard]
                    THEN [disconnects EXCEPT ![c] = @ + 1]
                    ELSE disconnects
  /\ sweepPending' = sweepPending \ {c}
  /\ UNCHANGED <<shardOf, shardClients, userIdx, chanVars, authVars, sendVars,
                 sweepShard, accept, rp, wp, stale>>

-----------------------------------------------------------------------------
(* The environment: the peer and the clock.                                *)

\* The peer disconnects or the network drops the socket.
PeerClose(c) ==
  /\ accept[c] \in {"admitted", "added", "done"}
  /\ conn[c] = "open"
  /\ conn' = [conn EXCEPT ![c] = "closed"]
  /\ UNCHANGED <<regVars, closing, sendClosed, queue, crashed, authVars,
                 sendVars, sweepVars, disconnects, accept, rp, wp, stale>>

\* More than 2 * PongWait pass without a data frame while the read pump of a
\* registered client waits in ReadMessage on a live socket: pongs keep the
\* read deadline alive but do not touch LastActivity. (Only the sweeper
\* reads LastActivity, so it is tracked for registered clients only.)
BecomeStale(c) ==
  /\ c \in Registered
  /\ rp[c] = "reading"
  /\ conn[c] = "open"
  /\ ~stale[c]
  /\ stale' = [stale EXCEPT ![c] = TRUE]
  /\ UNCHANGED <<regVars, chanVars, authVars, sendVars, sweepVars, disconnects,
                 accept, rp, wp>>

-----------------------------------------------------------------------------

Init ==
  /\ shardOf \in [Clients -> {ShardIndex(h) : h \in 0 .. 2 * NumShards - 1}]
  /\ shardClients = [s \in Shards |-> {}]
  /\ userIdx = [s \in Shards |-> [u \in Users |-> [d \in Devices |-> NoClient]]]
  /\ globalConns = 0
  /\ accept = [c \in Clients |-> "idle"]
  /\ conn = [c \in Clients |-> "open"]
  /\ closing = [c \in Clients |-> FALSE]
  /\ sendClosed = [c \in Clients |-> FALSE]
  /\ queue = [c \in Clients |-> 0]
  /\ crashed = FALSE
  /\ rp = [c \in Clients |-> "none"]
  /\ wp = [c \in Clients |-> "none"]
  /\ authed = [c \in Clients |-> FALSE]
  /\ user = [c \in Clients |-> NoUser]
  /\ device = [c \in Clients |-> NoUser]
  /\ stale = [c \in Clients |-> FALSE]
  /\ sendTo = [c \in Clients |-> NoUser]
  /\ sendShard = [c \in Clients |-> 0]
  /\ sendTargets = [c \in Clients |-> {}]
  /\ sweepPending = {}
  /\ sweepShard = 0
  /\ disconnects = [c \in Clients |-> 0]

Next ==
  \/ \E c \in Clients :
       \/ Admit(c) \/ AddToShard(c) \/ CountAndSpawn(c)
       \/ ReadRefused(c) \/ ReadError(c) \/ SnapshotShard(c) \/ SendDone(c)
       \/ Remove(c) \/ Release(c)
       \/ WriteFlush(c) \/ WriteFail(c) \/ WriteStop(c)
       \/ SweepDecrement(c) \/ PeerClose(c) \/ BecomeStale(c)
       \/ \E t \in Clients : Deliver(c, t) \/ SendToClient(c, t)
       \/ \E u \in Users : ReadDirect(c, u)
       \/ \E u \in Users, d \in Devices : ReadAuth(c, u, d)
  \/ \E s \in Shards : Sweep(s)

Spec == Init /\ [][Next]_vars

-----------------------------------------------------------------------------
(* Properties.                                                             *)

TypeOK ==
  /\ shardOf \in [Clients -> {ShardIndex(h) : h \in 0 .. 2 * NumShards - 1}]
  /\ shardClients \in [Shards -> SUBSET Clients]
  /\ userIdx \in [Shards -> [Users -> [Devices -> Clients \cup {NoClient}]]]
  /\ globalConns \in 0 .. Cardinality(Clients)
  /\ accept \in [Clients -> {"idle", "admitted", "added", "done", "rejected"}]
  /\ conn \in [Clients -> {"open", "closed"}]
  /\ closing \in [Clients -> BOOLEAN] /\ sendClosed \in [Clients -> BOOLEAN]
  /\ queue \in [Clients -> 0 .. QueueCap]
  /\ crashed \in BOOLEAN
  /\ rp \in [Clients -> {"none", "reading", "sending", "remove", "release",
                         "done"}]
  /\ wp \in [Clients -> {"none", "running", "done"}]
  /\ authed \in [Clients -> BOOLEAN]
  /\ user \in [Clients -> Users \cup {NoUser}]
  /\ device \in [Clients -> Devices \cup {NoUser}]
  /\ stale \in [Clients -> BOOLEAN]
  /\ sendTo \in [Clients -> Users \cup {NoUser}]
  /\ sendShard \in [Clients -> 0 .. NumShards]
  /\ sendTargets \in [Clients -> SUBSET Clients]
  /\ sweepPending \in SUBSET Clients /\ sweepShard \in Shards
  /\ disconnects \in [Clients -> Nat]

\* Spec section 8: every client in a shard's user index is in that shard's
\* primary map, under the user and device it authenticated with. Shard
\* RemoveClient, CleanupInactive and RegisterAuthenticatedClient must keep
\* the two maps of a shard in step across every interleaving of readers,
\* accept handlers and the sweeper.
SecondaryInPrimary ==
  \A s \in Shards, u \in Users, d \in Devices :
    LET c == userIdx[s][u][d] IN
    c # NoClient => /\ c \in shardClients[s]
                    /\ user[c] = u /\ device[c] = d

\* Manager.globalConns counts the registered clients, up to the steps in
\* flight between a shard update and the matching atomic add: clients added
\* to a shard but not yet counted, clients RemoveClient took out but has not
\* yet decremented, and ids the sweeper removed but has not yet decremented.
\* It is the guard of AddConnection, so drift in either direction leaks or
\* refuses capacity for good.
CounterMatchesRegistry ==
  globalConns =
      Cardinality(Registered)
    - Quantify(Clients, LAMBDA c : accept[c] = "added")
    + Quantify(Clients, LAMBDA c : rp[c] = "release")
    + Cardinality(sweepPending)

\* No goroutine panics: Client.Send is never sent to after close(c.Send) and
\* never closed twice, however Close, cleanup (from either pump) and
\* WriteMessage (from any sender's read pump) interleave.
NoChannelPanic == ~crashed

-----------------------------------------------------------------------------
(* The smallest power of two not below n, the size nextPowerOfTwo is meant *)
(* to give the shard array.                                               *)
PowersOfTwo == {2^k : k \in 0 .. 30}

ReferenceNextPow2(n) ==
  CHOOSE p \in PowersOfTwo : p >= n /\ \A q \in PowersOfTwo : q >= n => p <= q

(* Shard counts a configuration can carry, with the neighbours of the     *)
(* largest power of two TLC's integers hold.                               *)
ShardCounts == (1 .. 256) \cup {2^29 - 1, 2^29 + 1, 2^30}

(* NewManager's shard arithmetic: nextPowerOfTwo rounds every valid shard  *)
(* count up to the smallest power of two (the bit-smearing with its        *)
(* decrement before and increment after), and getShardID's mask sends   *)
(* hashes onto every shard and nothing else.  A constant, evaluated once. *)
ShardArithmetic ==
  /\ \A n \in ShardCounts : NextPowerOfTwo(n) = ReferenceNextPow2(n)
  /\ {ShardIndex(h) : h \in 0 .. 2 * NumShards - 1} = Shards

(* NewManager's shard count and getShardID's mask are right, so           *)
(* m.shards[getShardID(id)] never indexes past the slice for any client   *)
(* the registry holds.                                                     *)
ShardingMatchesReference ==
  /\ ShardArithmetic
  /\ \A c \in Clients : shardOf[c] \in Shards

(* Properties the code does not have (each checked by its own run).        *)

\* Spec section 4.4: the global concurrency counter never exceeds the
\* configured ceiling rate_limit.global_connections.
GlobalLimitRespected == globalConns <= MaxConns

\* Spec section 4.3: close invokes the on-disconnect hook exactly once: a
\* client whose read pump has finished has had onDisconnect fired once.
DisconnectHookOnce ==
  \A c \in Clients : rp[c] = "done" => disconnects[c] = 1

\* Spec section 4.2: a (user, device) pair has at most one live session; a
\* newer registration supersedes (closes) the older one.
OneSessionPerDevice ==
  \A c1, c2 \in Registered :
    (c1 # c2 /\ authed[c1] /\ authed[c2] /\ ~closing[c1] /\ ~closing[c2])
      => <<user[c1], device[c1]>> # <<user[c2], device[c2]>>

=============================================================================
