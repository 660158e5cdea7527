------------------------------ MODULE Lifecycle ------------------------------
(***************************************************************************)
(* Startup state and shutdown of one gateway process: the accept handlers  *)
(* (WebSocketServer.ServeHTTP, Manager.AddConnection), both pumps of every *)
(* client, the Manager's sweeper and WaitGroup, the Redis listener and the *)
(* shutdown sequence WebSocketServer.Shutdown -> Manager.Shutdown ->       *)
(* RedisPubSub.Shutdown, and the messages the Redis adapter carries on the *)
(* shared channel and a per-user channel.  What a client does while it     *)
(* runs is Registry's business; here only what starts and ends its         *)
(* goroutines, and what they publish, matters.                             *)
(***************************************************************************)
EXTENDS Integers, FiniteSets, Sequences

CONSTANTS
    Clients,
    MaxPublish    \* publications other parties make, in all

ASSUME MaxPublish \in Nat

VARIABLES
    cst,          \* cst[c]: the accept handler of connection c
    sock,         \* sock[c]: the hijacked TCP socket, "open" or "closed"
    cctx,         \* cctx[c]: the client's own context is cancelled
    rp, wp,       \* the read and write pump of c: "none", "run" or "exit"
    wg,           \* the counter of Manager.wg
    mctx,         \* Manager.ctx is cancelled
    sweeper,      \* the cleanup goroutine: "run" or "exit"
    listening,    \* the HTTP listener accepts new connections
    rctx,         \* RedisPubSub.ctx is cancelled
    chClosed,     \* subscriber.Close() has closed subscriber.Channel()
    listener,     \* RedisPubSub.listen: at its select ("select"), parked in it
                  \* with no case ready ("parked"), woken by r.ctx.Done()
                  \* ("woken"), inside processMessage ("process"), or "exit"
    crashed,      \* a goroutine panicked: the process is gone
    sd,           \* where the shutdown goroutine is
    bus,          \* messages Redis has handed to this node's subscription
    userBus,      \* messages on the per-user channel's subscription
    handlers,     \* the message types RegisterHandler has registered
    fired,        \* which handlers ran: the path and origin of the message
    userSub,      \* the SubscribeToUser goroutine: "none", "run", "exit"
    published,    \* publications made by other parties so far
    shutdownCh,   \* close(s.shutdownChan) has run
    metricsLoop,  \* the updateMetrics goroutine: "run" or "exit"
    metricsSrv    \* the metrics server's ListenAndServe goroutine:
                  \* "run", "closed" (Shutdown called) or "exit"

vars == <<cst, sock, cctx, rp, wp, wg, mctx, sweeper, listening, rctx,
          chClosed, listener, crashed, sd, bus, userBus, handlers, fired,
          userSub, published, shutdownCh, metricsLoop, metricsSrv>>

clientVars == <<cst, sock, cctx, rp, wp>>
busVars == <<rctx, chClosed, listener>>
dataVars == <<bus, userBus, handlers, fired, userSub, published>>
metricsVars == <<shutdownCh, metricsLoop, metricsSrv>>

(* A message is abstracted to its origin (the node_id of its envelope, or  *)
(* the node that posted it to a user channel) and the type of its payload; *)
(* "bad" stands for a payload that does not unmarshal.                     *)
Types == {"presence", "direct"}
Payloads == Types \cup {"bad"}
Origins == {"self", "remote"}
Msg(origin, type) == [origin |-> origin, type |-> type]

-----------------------------------------------------------------------------
(* Accepting a connection.                                                 *)

(* ServeHTTP is entered for a new TCP connection while the listener is     *)
(* open; checkIPLimit always returns true.                                 *)
StartUpgrade(c) ==
    /\ ~crashed
    /\ listening
    /\ cst[c] = "none"
    /\ cst' = [cst EXCEPT ![c] = "upgrading"]
    /\ UNCHANGED <<sock, cctx, rp, wp, wg, mctx, sweeper, listening, busVars,
                   crashed, sd, dataVars, metricsVars>>

(* upgrader.Upgrade hijacks the connection (from now on http.Server no     *)
(* longer tracks it) or fails and the handler returns.                     *)
Upgrade(c) ==
    /\ ~crashed
    /\ cst[c] = "upgrading"
    /\ \/ cst' = [cst EXCEPT ![c] = "upgraded"]
       \/ cst' = [cst EXCEPT ![c] = "gone"]
    /\ UNCHANGED <<sock, cctx, rp, wp, wg, mctx, sweeper, listening, busVars,
                   crashed, sd, dataVars, metricsVars>>

(* AddConnection: either a limit refuses it and ServeHTTP closes the       *)
(* socket, or the client is added, m.wg.Add(2) and both pumps start.       *)
(* Nothing here looks at m.ctx.                                            *)
AddConnection(c) ==
    /\ ~crashed
    /\ cst[c] = "upgraded"
    /\ \/ /\ cst' = [cst EXCEPT ![c] = "gone"]
          /\ sock' = [sock EXCEPT ![c] = "closed"]
          /\ UNCHANGED <<rp, wp, wg>>
       \/ /\ cst' = [cst EXCEPT ![c] = "running"]
          /\ wg' = wg + 2
          /\ rp' = [rp EXCEPT ![c] = "run"]
          /\ wp' = [wp EXCEPT ![c] = "run"]
          /\ UNCHANGED sock
    /\ UNCHANGED <<cctx, mctx, sweeper, listening, busVars, crashed, sd, dataVars, metricsVars>>

-----------------------------------------------------------------------------
(* The pumps.  Neither watches m.ctx: the read pump leaves ReadMessage     *)
(* only on a read error, the write pump on its own ctx or a failed write   *)
(* (the 54 s ping fails once the socket is gone).  Their deferred work     *)
(* (RemoveClient, Close, cleanup) cancels the client ctx and closes the    *)
(* socket; the wrapper goroutine then calls m.wg.Done().                   *)

(* Redis hands a publication on the shared channel to every subscriber,    *)
(* this node's own included while its subscription is open.               *)
Received(m) == IF chClosed THEN bus ELSE Append(bus, m)

(* A listener parked in its select is committed to the first case that    *)
(* becomes ready: a message handed to the subscription wakes it with that *)
(* message, which it is then processing.                                  *)
WakeOnMessage ==
    listener' = IF listener = "parked" /\ bus' # bus THEN "process"
                                                   ELSE listener

(* publishPresence (websocket.go:264-281): Publish an offline presence     *)
(* under a 5 s timeout; an error is only logged.                           *)
PublishPresence ==
    \/ bus' = Received(Msg("self", "presence"))
    \/ UNCHANGED bus

(* The read pump's closeHandler is Manager.handleDisconnect -> RemoveClient *)
(* -> onDisconnect = WebSocketServer.handleDisconnect (websocket.go:113-126), *)
(* which publishes presence for an authenticated client (UserID != "").   *)
(* authed is FALSE also when the sweeper removed the client first and      *)
(* RemoveClient found nothing.                                             *)
HandleDisconnect(authed) ==
    IF authed THEN PublishPresence ELSE UNCHANGED bus

ReadExit(c) ==
    /\ ~crashed
    /\ rp[c] = "run"
    /\ sock[c] = "closed"
    /\ rp' = [rp EXCEPT ![c] = "exit"]
    /\ cctx' = [cctx EXCEPT ![c] = TRUE]
    /\ wg' = wg - 1
    /\ \E authed \in BOOLEAN : HandleDisconnect(authed)
    /\ WakeOnMessage
    /\ UNCHANGED <<cst, sock, wp, mctx, sweeper, listening, rctx, chClosed, crashed,
                   sd, userBus, handlers, fired, userSub, published, metricsVars>>

WriteExitDoubleDone(c) ==
    /\ ~crashed
    /\ wp[c] = "run"
    /\ cctx[c] \/ sock[c] = "closed"
    /\ wp' = [wp EXCEPT ![c] = "exit"]
    /\ cctx' = [cctx EXCEPT ![c] = TRUE]
    /\ sock' = [sock EXCEPT ![c] = "closed"]
    /\ wg' = wg - 2
    /\ UNCHANGED <<cst, rp, mctx, sweeper, listening, busVars, crashed, sd, dataVars, metricsVars>>

WriteExit(c) ==
    /\ ~crashed
    /\ wp[c] = "run"
    /\ cctx[c] \/ sock[c] = "closed"
    /\ wp' = [wp EXCEPT ![c] = "exit"]
    /\ cctx' = [cctx EXCEPT ![c] = TRUE]
    /\ sock' = [sock EXCEPT ![c] = "closed"]
    /\ wg' = wg - 1
    /\ UNCHANGED <<cst, rp, mctx, sweeper, listening, busVars, crashed, sd, dataVars, metricsVars>>

(* The peer leaves, or stops answering pings and the read deadline fires.  *)
PeerClose(c) ==
    /\ ~crashed
    /\ cst[c] \in {"upgraded", "running"}
    /\ sock[c] = "open"
    /\ sock' = [sock EXCEPT ![c] = "closed"]
    /\ UNCHANGED <<cst, cctx, rp, wp, wg, mctx, sweeper, listening, busVars,
                   crashed, sd, dataVars, metricsVars>>

(* The sweeper leaves its loop when m.ctx is done and calls m.wg.Done().   *)
SweepExit ==
    /\ ~crashed
    /\ sweeper = "run"
    /\ mctx
    /\ sweeper' = "exit"
    /\ wg' = wg - 1
    /\ UNCHANGED <<clientVars, mctx, listening, busVars, crashed, sd, dataVars, metricsVars>>

(* RedisPubSub.listen selects between r.ctx.Done() and the subscriber     *)
(* channel; Go picks at random among the ready cases.  go-redis closes     *)
(* the channel when the PubSub is closed, so a receive then yields nil and *)
(* processMessage dereferences it; messages already buffered in the        *)
(* channel are received first.                                             *)
ListenCtxDone ==
    /\ ~crashed
    /\ \/ listener = "select" /\ rctx
       \/ listener = "woken"
    /\ listener' = "exit"
    /\ UNCHANGED <<clientVars, wg, mctx, sweeper, listening, rctx, chClosed,
                   crashed, sd, dataVars, metricsVars>>

ListenNil ==
    /\ ~crashed
    /\ listener = "select"
    /\ chClosed
    /\ bus = <<>>
    /\ crashed' = TRUE
    /\ UNCHANGED <<clientVars, wg, mctx, sweeper, listening, busVars, sd,
                   dataVars, metricsVars>>

(* No case is ready: the goroutine parks until one becomes ready.          *)
ListenPark ==
    /\ ~crashed
    /\ listener = "select"
    /\ ~rctx /\ ~chClosed /\ bus = <<>>
    /\ listener' = "parked"
    /\ UNCHANGED <<clientVars, wg, mctx, sweeper, listening, rctx, chClosed,
                   crashed, sd, dataVars, metricsVars>>

(* msg := <-ch takes the oldest buffered message.                           *)
ListenRecv ==
    /\ ~crashed
    /\ listener = "select"
    /\ bus # <<>>
    /\ listener' = "process"
    /\ UNCHANGED <<clientVars, wg, mctx, sweeper, listening, rctx, chClosed,
                   crashed, sd, dataVars, metricsVars>>

(* processMessage (redis.go:147-192): drop an envelope or inner message    *)
(* that does not parse, skip an envelope carrying this node's node_id,     *)
(* look the type up under r.mu.RLock and drop it if no handler is          *)
(* registered; otherwise run the handler under a 5 s deadline derived      *)
(* from r.ctx, logging its error.                                          *)
ProcessMessage(m) ==
    IF m.type = "bad" \/ m.origin = "self" \/ m.type \notin handlers
    THEN fired
    ELSE fired \cup {[path |-> "broadcast", origin |-> m.origin]}

(* The received message (the head of bus until now) is processed, and the *)
(* loop goes back to its select.                                           *)
ListenProcess ==
    /\ ~crashed
    /\ listener = "process"
    /\ bus' = Tail(bus)
    /\ fired' = ProcessMessage(Head(bus))
    /\ listener' = "select"
    /\ UNCHANGED <<clientVars, wg, mctx, sweeper, listening, rctx, chClosed, sd,
                   crashed, userBus, handlers, userSub, published, metricsVars>>

-----------------------------------------------------------------------------
(* The Redis adapter's other callers.  The message router that registers   *)
(* handlers, publishes application messages and uses the per-user channels *)
(* is not in the repository; these steps are what it may call, at any      *)
(* time before the adapter is cancelled.                                   *)

(* RegisterHandler (redis.go:123-129) under r.mu.Lock.                     *)
RegisterHandler(t) ==
    /\ ~crashed
    /\ handlers' = handlers \cup {t}
    /\ UNCHANGED <<clientVars, wg, mctx, sweeper, listening, busVars, sd,
                   crashed, bus, userBus, fired, userSub, published, metricsVars>>

(* Publish (redis.go:81-105) on the shared channel, by this node (always   *)
(* a well-formed envelope stamped with its node_id) or by another one.     *)
(* An error is returned to the caller; nothing retries.                    *)
PublishShared(origin, t) ==
    /\ ~crashed
    /\ published < MaxPublish
    /\ origin = "self" => t \in Types
    /\ published' = published + 1
    /\ \/ bus' = Received(Msg(origin, t))
       \/ UNCHANGED bus
    /\ WakeOnMessage
    /\ UNCHANGED <<clientVars, wg, mctx, sweeper, listening, rctx, chClosed, sd,
                   crashed, userBus, handlers, fired, userSub, metricsVars>>

(* SubscribeToUser (redis.go:207-234): subscribe to {channel}:user:{id},   *)
(* r.wg.Add(1) and start a goroutine that reads it until r.ctx is done.    *)
SubscribeToUser ==
    /\ ~crashed
    /\ ~rctx
    /\ userSub = "none"
    /\ userSub' = "run"
    /\ UNCHANGED <<clientVars, wg, mctx, sweeper, listening, busVars, sd,
                   crashed, bus, userBus, handlers, fired, published, metricsVars>>

(* PublishUserMessage (redis.go:195-204) posts the marshalled message to   *)
(* the user channel as it is: there is no envelope and no node_id.         *)
PublishUserMessage(origin, t) ==
    /\ ~crashed
    /\ published < MaxPublish
    /\ origin = "self" => t \in Types
    /\ published' = published + 1
    /\ userBus' = IF userSub = "run" THEN Append(userBus, Msg(origin, t))
                                      ELSE userBus
    /\ UNCHANGED <<clientVars, wg, mctx, sweeper, listening, busVars, sd,
                   crashed, bus, handlers, fired, userSub, metricsVars>>

(* The SubscribeToUser goroutine: a message that unmarshals goes to the    *)
(* handler under a 5 s deadline; r.ctx.Done() ends the loop, and the       *)
(* deferred subscriber.Close and r.wg.Done run.                            *)
UserRecv ==
    /\ ~crashed
    /\ userSub = "run"
    /\ userBus # <<>>
    /\ userBus' = Tail(userBus)
    /\ fired' = IF Head(userBus).type = "bad" THEN fired
                 ELSE fired \cup {[path |-> "user",
                                   origin |-> Head(userBus).origin]}
    /\ UNCHANGED <<clientVars, wg, mctx, sweeper, listening, busVars, sd,
                   crashed, bus, handlers, userSub, published, metricsVars>>

UserCtxDone ==
    /\ ~crashed
    /\ userSub = "run"
    /\ rctx
    /\ userSub' = "exit"
    /\ UNCHANGED <<clientVars, wg, mctx, sweeper, listening, busVars, sd,
                   crashed, bus, userBus, handlers, fired, published, metricsVars>>

-----------------------------------------------------------------------------
(* WebSocketServer.Shutdown, run once (shutdownOnce) on SIGTERM.           *)

SignalNoClose ==
    /\ ~crashed
    /\ sd = "idle"
    /\ sd' = "http"
    /\ UNCHANGED <<clientVars, wg, mctx, sweeper, listening, busVars, crashed, dataVars, metricsVars>>

(* Inside shutdownOnce.Do, close(s.shutdownChan) comes first.              *)
Signal ==
    /\ ~crashed
    /\ sd = "idle"
    /\ sd' = "http"
    /\ shutdownCh' = TRUE
    /\ UNCHANGED <<clientVars, wg, mctx, sweeper, listening, busVars, crashed,
                   dataVars, metricsLoop, metricsSrv>>

(* httpServer.Shutdown closes the listener and waits, bounded by           *)
(* GracefulShutdownWait, for handlers it still tracks; hijacked ones are   *)
(* not tracked.                                                            *)
HttpShutdown ==
    /\ ~crashed
    /\ sd = "http"
    /\ listening' = FALSE
    /\ sd' = "mgrCancel"
    /\ UNCHANGED <<clientVars, wg, mctx, sweeper, busVars, crashed, dataVars, metricsVars>>

MgrCancel ==
    /\ ~crashed
    /\ sd = "mgrCancel"
    /\ mctx' = TRUE
    /\ sd' = "mgrWait"
    /\ UNCHANGED <<clientVars, wg, sweeper, listening, busVars, crashed, dataVars, metricsVars>>

MgrWait ==
    /\ ~crashed
    /\ sd = "mgrWait"
    /\ wg = 0
    /\ sd' = "busCancel"
    /\ UNCHANGED <<clientVars, wg, mctx, sweeper, listening, busVars, crashed, dataVars, metricsVars>>

(* messageRouter.Shutdown() is not in the source; RedisPubSub.Shutdown     *)
(* cancels r.ctx, closes the subscriber, and waits for r.wg.               *)
BusCancel ==
    /\ ~crashed
    /\ sd = "busCancel"
    /\ rctx' = TRUE
    /\ listener' = IF listener = "parked" THEN "woken" ELSE listener
    /\ sd' = "busClose"
    /\ UNCHANGED <<clientVars, wg, mctx, sweeper, listening, chClosed,
                   crashed, dataVars, metricsVars>>

BusClose ==
    /\ ~crashed
    /\ sd = "busClose"
    /\ chClosed' = TRUE
    /\ sd' = "busWait"
    /\ UNCHANGED <<clientVars, wg, mctx, sweeper, listening, rctx, listener,
                   crashed, dataVars, metricsVars>>

BusWait ==
    /\ ~crashed
    /\ sd = "busWait"
    /\ listener = "exit"
    /\ userSub # "run"
    /\ sd' = "metrics"
    /\ UNCHANGED <<clientVars, wg, mctx, sweeper, listening, busVars, crashed, dataVars, metricsVars>>

(* s.metrics.Shutdown() (websocket.go:256-257, collector.go:195-204):      *)
(* m.server.Shutdown closes the metrics listener and waits, bounded by     *)
(* 5 s, for its requests; then WebSocketServer.Shutdown returns.           *)
MetricsShutdown ==
    /\ ~crashed
    /\ sd = "metrics"
    /\ metricsSrv' = "closed"
    /\ sd' = "done"
    /\ UNCHANGED <<clientVars, wg, mctx, sweeper, listening, busVars, crashed,
                   dataVars, shutdownCh, metricsLoop>>

(* The goroutine of startMetricsServer: ListenAndServe returns             *)
(* ErrServerClosed once Shutdown has closed its listener.                  *)
MetricsServeExit ==
    /\ ~crashed
    /\ metricsSrv = "closed"
    /\ metricsSrv' = "exit"
    /\ UNCHANGED <<clientVars, wg, mctx, sweeper, listening, busVars, crashed,
                   sd, dataVars, shutdownCh, metricsLoop>>

(* updateMetrics selects between shutdownChan and its 10 s ticker; a tick  *)
(* only copies GetStats into gauges nothing reads back.  No WaitGroup      *)
(* counts this goroutine.                                                  *)
MetricsLoopExit ==
    /\ ~crashed
    /\ metricsLoop = "run"
    /\ shutdownCh
    /\ metricsLoop' = "exit"
    /\ UNCHANGED <<clientVars, wg, mctx, sweeper, listening, busVars, crashed,
                   sd, dataVars, shutdownCh, metricsSrv>>

-----------------------------------------------------------------------------
(* After NewWebSocketServer and Start: the sweeper (counted in m.wg), the  *)
(* Redis listener, the metrics server and updateMetrics run, the listener  *)
(* is open, no connection yet, and                                         *)
(* no handler is registered: nothing in the repository calls               *)
(* RegisterHandler.                                                        *)
Init ==
    /\ cst = [c \in Clients |-> "none"]
    /\ sock = [c \in Clients |-> "open"]
    /\ cctx = [c \in Clients |-> FALSE]
    /\ rp = [c \in Clients |-> "none"]
    /\ wp = [c \in Clients |-> "none"]
    /\ wg = 1
    /\ mctx = FALSE
    /\ sweeper = "run"
    /\ listening = TRUE
    /\ rctx = FALSE
    /\ chClosed = FALSE
    /\ listener = "select"
    /\ crashed = FALSE
    /\ sd = "idle"
    /\ bus = <<>>
    /\ userBus = <<>>
    /\ handlers = {}
    /\ fired = {}
    /\ userSub = "none"
    /\ published = 0
    /\ shutdownCh = FALSE
    /\ metricsLoop = "run"
    /\ metricsSrv = "run"

ShutdownStep ==
    HttpShutdown \/ MgrCancel \/ MgrWait \/ BusCancel \/ BusClose \/ BusWait
    \/ MetricsShutdown

Next ==
    \/ \E c \in Clients :
          \/ StartUpgrade(c) \/ Upgrade(c) \/ AddConnection(c)
          \/ ReadExit(c) \/ WriteExit(c) \/ PeerClose(c)
    \/ SweepExit \/ ListenCtxDone \/ ListenNil \/ ListenPark \/ ListenRecv
    \/ ListenProcess
    \/ \E t \in Types : RegisterHandler(t)
    \/ \E o \in Origins, t \in Payloads :
          PublishShared(o, t) \/ PublishUserMessage(o, t)
    \/ SubscribeToUser \/ UserRecv \/ UserCtxDone
    \/ MetricsLoopExit \/ MetricsServeExit
    \/ Signal \/ ShutdownStep

(* Every goroutine of the process is scheduled; the peers, the arrival of  *)
(* connections and of SIGTERM are not under the code's control.           *)
Fairness ==
    /\ \A c \in Clients :
          WF_vars(Upgrade(c) \/ AddConnection(c) \/ ReadExit(c)
                  \/ WriteExit(c))
    /\ WF_vars(SweepExit)
    /\ WF_vars(ListenCtxDone \/ ListenNil \/ ListenPark \/ ListenRecv
               \/ ListenProcess)
    /\ WF_vars(UserRecv \/ UserCtxDone)
    /\ WF_vars(MetricsLoopExit) /\ WF_vars(MetricsServeExit)
    /\ WF_vars(ShutdownStep)

Spec == Init /\ [][Next]_vars /\ Fairness

-----------------------------------------------------------------------------
(* Properties                                                              *)

TypeOK ==
    /\ cst \in [Clients -> {"none", "upgrading", "upgraded", "running", "gone"}]
    /\ sock \in [Clients -> {"open", "closed"}]
    /\ cctx \in [Clients -> BOOLEAN]
    /\ rp \in [Clients -> {"none", "run", "exit"}]
    /\ wp \in [Clients -> {"none", "run", "exit"}]
    /\ wg \in Nat
    /\ {mctx, listening, rctx, chClosed, crashed} \subseteq BOOLEAN
    /\ sweeper \in {"run", "exit"}
    /\ listener \in {"select", "parked", "woken", "process", "exit"}
    /\ sd \in {"idle", "http", "mgrCancel", "mgrWait", "busCancel",
               "busClose", "busWait", "metrics", "done"}
    /\ shutdownCh \in BOOLEAN
    /\ metricsLoop \in {"run", "exit"}
    /\ metricsSrv \in {"run", "closed", "exit"}
    /\ bus \in Seq([origin : Origins, type : Payloads])
    /\ userBus \in Seq([origin : Origins, type : Payloads])
    /\ handlers \subseteq Types
    /\ fired \subseteq [path : {"broadcast", "user"}, origin : Origins]
    /\ userSub \in {"none", "run", "exit"}
    /\ published \in 0 .. MaxPublish

(* The spec: "shutdown must always complete".  Once SIGTERM has started    *)
(* WebSocketServer.Shutdown it returns, unless the process has already     *)
(* died of a panic.                                                        *)
ShutdownCompletes == sd # "idle" ~> (sd = "done" \/ crashed)

(* No goroutine of the process is left: every accept handler has returned *)
(* and every pump, the sweeper, both Redis goroutines, updateMetrics and   *)
(* the metrics server's ListenAndServe have exited.                        *)
Quiescent ==
    /\ \A c \in Clients : /\ cst[c] \notin {"upgrading", "upgraded"}
                        /\ rp[c] # "run" /\ wp[c] # "run"
    /\ sweeper = "exit" /\ listener = "exit" /\ userSub # "run"
    /\ metricsLoop = "exit" /\ metricsSrv = "exit"

(* Once SIGTERM has arrived and every peer eventually goes away, the       *)
(* process runs down to no goroutine at all, or panics.  This covers what  *)
(* no WaitGroup waits for: updateMetrics, the metrics server, and the pumps *)
(* of a connection AddConnection admitted after m.wg.Wait returned.        *)
ProcessQuiescesIfPeersLeave ==
    (\A c \in Clients : WF_vars(PeerClose(c)))
        => (sd # "idle" ~> (Quiescent \/ crashed))

(* No goroutine panics during shutdown: the listener never hands a closed *)
(* channel's nil *redis.Message to processMessage.                         *)
NoListenerPanic == ~crashed

(* Loop suppression as the spec states it for the adapter (section 7: for  *)
(* all inbound messages of this node's origin no handler fires), on the    *)
(* per-user channels of SubscribeToUser as well as the shared one.         *)
LoopSuppression == \A f \in fired : f.origin = "remote"
=============================================================================
