------------------------------ MODULE ShardLock ------------------------------
(***************************************************************************)
(* The lock of one Shard (shard.go:16) and the goroutines that take it.    *)
(* The mutex is Go's sync.RWMutex, which prefers writers:                  *)
(*   RLock    readerCount++; block on readerSem if a writer has announced. *)
(*   RUnlock  readerCount--; if a writer has announced, readerWait-- and   *)
(*            the last departing reader releases writerSem.                *)
(*   Lock     take the writer mutex w, announce (negate readerCount) and   *)
(*            remember r readers, then readerWait += r and block on        *)
(*            writerSem unless no reader is left.                          *)
(*   Unlock   withdraw the announcement, release readerSem once per        *)
(*            reader that blocked meanwhile, and release w.                *)
(* The callers are the shard's own methods:                                *)
(*   Readers       GetClient (one RLock),                                  *)
(*   Broadcasters  BroadcastToUser, which RLocks and then calls            *)
(*                 GetUserClients, which RLocks again,                     *)
(*   Writers       AddClient, RemoveClient, RegisterAuthenticatedClient    *)
(*                 and CleanupInactive (one Lock each).                    *)
(***************************************************************************)
EXTENDS Integers

CONSTANTS Readers, Broadcasters, Writers, NoThread

ASSUME /\ Readers \cap Broadcasters = {}
       /\ Readers \cap Writers = {}
       /\ Broadcasters \cap Writers = {}

Threads == Readers \cup Broadcasters \cup Writers

ASSUME NoThread \notin Threads

VARIABLES
    readerCount,  \* readers that passed the RLock increment and not RUnlock
    pending,      \* a writer has announced itself (readerCount is negated)
    readerWait,   \* readers the announced writer still waits for
    wHeld,        \* the writer mutex w is held
    readerSem,    \* permits of readerSem
    writerSem,    \* permits of writerSem
    snap,         \* snap[t]: the readers writer t saw when it announced
    pc

vars == <<readerCount, pending, readerWait, wHeld, readerSem, writerSem,
          snap, pc>>

-----------------------------------------------------------------------------
(* The mutex operations, parameterised by where the caller goes next.      *)

RLock(t, held, blocked) ==
    /\ readerCount' = readerCount + 1
    /\ pc' = [pc EXCEPT ![t] = IF pending THEN blocked ELSE held]
    /\ UNCHANGED <<pending, readerWait, wHeld, readerSem, writerSem, snap>>

AcquireReaderSem(t, held) ==
    /\ readerSem > 0
    /\ readerSem' = readerSem - 1
    /\ pc' = [pc EXCEPT ![t] = held]
    /\ UNCHANGED <<readerCount, pending, readerWait, wHeld, writerSem, snap>>

RUnlock(t, next) ==
    /\ readerCount' = readerCount - 1
    /\ readerWait' = IF pending THEN readerWait - 1 ELSE readerWait
    /\ writerSem' = IF pending /\ readerWait = 1 THEN writerSem + 1
                                                 ELSE writerSem
    /\ pc' = [pc EXCEPT ![t] = next]
    /\ UNCHANGED <<pending, wHeld, readerSem, snap>>

-----------------------------------------------------------------------------
(* GetClient (shard.go:87-92).                                             *)

GetClientNoRLock(t) ==
    /\ pc[t] = "idle"
    /\ pc' = [pc EXCEPT ![t] = "rheld"]
    /\ UNCHANGED <<readerCount, pending, readerWait, wHeld, readerSem,
                   writerSem, snap>>

GetClientRLock(t) ==
    /\ pc[t] = "idle"
    /\ RLock(t, "rheld", "rsem")

GetClientWake(t) ==
    /\ pc[t] = "rsem"
    /\ AcquireReaderSem(t, "rheld")

GetClientRUnlock(t) ==
    /\ pc[t] = "rheld"
    /\ RUnlock(t, "idle")

(* BroadcastToUser (shard.go:127-140) with its nested GetUserClients       *)
(* (shard.go:95-110).  The write loop after line 130 holds no shard lock.  *)

BroadcastRLock(t) ==
    /\ pc[t] = "idle"
    /\ RLock(t, "outer", "outerSem")

BroadcastWake(t) ==
    /\ pc[t] = "outerSem"
    /\ AcquireReaderSem(t, "outer")

(* The nested RLock blocks only while an announced writer waits for this  *)
(* goroutine's own outer read lock, so no Unlock ever releases readerSem   *)
(* for it: "innerSem" has no way out.                                      *)
GetUserClientsRLock(t) ==
    /\ pc[t] = "outer"
    /\ RLock(t, "inner", "innerSem")

GetUserClientsRUnlock(t) ==
    /\ pc[t] = "inner"
    /\ RUnlock(t, "copied")

BroadcastRUnlock(t) ==
    /\ pc[t] = "copied"
    /\ RUnlock(t, "idle")

(* The writers: s.mu.Lock() (shard.go:42, 56, 114, 144) and the deferred   *)
(* s.mu.Unlock().                                                          *)

WriterCall(t) ==
    /\ pc[t] = "idle"
    /\ pc' = [pc EXCEPT ![t] = "wmutex"]
    /\ UNCHANGED <<readerCount, pending, readerWait, wHeld, readerSem,
                   writerSem, snap>>

LockAnnounce(t) ==
    /\ pc[t] = "wmutex"
    /\ ~wHeld
    /\ wHeld' = TRUE
    /\ pending' = TRUE
    /\ snap' = [snap EXCEPT ![t] = readerCount]
    /\ pc' = [pc EXCEPT ![t] = "wwait"]
    /\ UNCHANGED <<readerCount, readerWait, readerSem, writerSem>>

LockWait(t) ==
    /\ pc[t] = "wwait"
    /\ readerWait' = readerWait + snap[t]
    /\ pc' = [pc EXCEPT ![t] = IF snap[t] # 0 /\ readerWait + snap[t] # 0
                                THEN "wsem" ELSE "wheld"]
    /\ UNCHANGED <<readerCount, pending, wHeld, readerSem, writerSem, snap>>

LockWake(t) ==
    /\ pc[t] = "wsem"
    /\ writerSem > 0
    /\ writerSem' = writerSem - 1
    /\ pc' = [pc EXCEPT ![t] = "wheld"]
    /\ UNCHANGED <<readerCount, pending, readerWait, wHeld, readerSem, snap>>

Unlock(t) ==
    /\ pending' = FALSE
    /\ readerSem' = readerSem + readerCount
    /\ wHeld' = FALSE
    /\ pc' = [pc EXCEPT ![t] = "idle"]
    /\ UNCHANGED <<readerCount, readerWait, writerSem, snap>>

(* The body of a writer.  RemoveClient returns early when the id is not in *)
(* the shard (shard.go:59-62); the deferred Unlock runs on both paths.     *)

WriteNoUnlockOnMiss(t) ==
    /\ pc[t] = "wheld"
    /\ \/ Unlock(t)
       \/ /\ pc' = [pc EXCEPT ![t] = "idle"]
          /\ UNCHANGED <<readerCount, pending, readerWait, wHeld, readerSem,
                         writerSem, snap>>

Write(t) ==
    /\ pc[t] = "wheld"
    /\ Unlock(t)

-----------------------------------------------------------------------------
Init ==
    /\ readerCount = 0
    /\ pending = FALSE
    /\ readerWait = 0
    /\ wHeld = FALSE
    /\ readerSem = 0
    /\ writerSem = 0
    /\ snap = [t \in Writers |-> 0]
    /\ pc = [t \in Threads |-> "idle"]

ReaderStep(t) ==
    GetClientRLock(t) \/ GetClientWake(t) \/ GetClientRUnlock(t)

BroadcasterStep(t) ==
    \/ BroadcastRLock(t) \/ BroadcastWake(t) \/ GetUserClientsRLock(t)
    \/ GetUserClientsRUnlock(t) \/ BroadcastRUnlock(t)

WriterStep(t) ==
    \/ WriterCall(t) \/ LockAnnounce(t) \/ LockWait(t) \/ LockWake(t)
    \/ Write(t)

Next ==
    \/ \E t \in Readers : ReaderStep(t)
    \/ \E t \in Broadcasters : BroadcasterStep(t)
    \/ \E t \in Writers : WriterStep(t)

(* Every goroutine that holds the lock keeps being scheduled.  Nobody has  *)
(* to start an operation, so the first step of each is not fair.  A        *)
(* waiter on readerSem or writerSem, or on the writer mutex w, is strongly *)
(* fair: the runtime semaphore queues its waiters and readies the head on  *)
(* every release, and sync.Mutex hands itself to a waiter that has waited *)
(* over 1ms (starvation mode), so no waiter loses the race forever.        *)
Fairness ==
    /\ \A t \in Readers :
          /\ SF_vars(GetClientWake(t))
          /\ WF_vars(GetClientRUnlock(t))
    /\ \A t \in Broadcasters :
          /\ SF_vars(BroadcastWake(t))
          /\ WF_vars(GetUserClientsRLock(t) \/ GetUserClientsRUnlock(t)
                     \/ BroadcastRUnlock(t))
    /\ \A t \in Writers :
          /\ SF_vars(LockAnnounce(t))
          /\ SF_vars(LockWake(t))
          /\ WF_vars(LockWait(t) \/ Write(t))

Spec == Init /\ [][Next]_vars /\ Fairness

-----------------------------------------------------------------------------
(* Properties                                                              *)

TypeOK ==
    /\ readerCount \in Nat
    /\ pending \in BOOLEAN
    /\ readerWait \in Int
    /\ wHeld \in BOOLEAN
    /\ readerSem \in Nat
    /\ writerSem \in Nat
    /\ snap \in [Writers -> Nat]
    /\ pc \in [Threads -> {"idle", "rsem", "rheld", "outerSem", "outer",
                           "innerSem", "inner", "copied", "wmutex", "wwait",
                           "wsem", "wheld"}]

(* The goroutines that hold the lock for reading: those past an RLock that *)
(* did not block, or that took their readerSem permit.                     *)
ReadHolders == {t \in Threads : pc[t] \in {"rheld", "outer", "innerSem",
                                           "inner", "copied"}}

WriteHolder == IF \E t \in Writers : pc[t] = "wheld"
               THEN CHOOSE t \in Writers : pc[t] = "wheld"
               ELSE NoThread

Abstract == INSTANCE RWLock WITH readers <- ReadHolders, writer <- WriteHolder

(* The shard maps are never read while written: Go's RWMutex, as the shard *)
(* methods call it, implements the abstract reader/writer lock.            *)
ImplementsRWLock == Abstract!AbsSpec

(* Every shard method that has taken its first lock step returns: the      *)
(* write lock of AddClient, RemoveClient, RegisterAuthenticatedClient and  *)
(* CleanupInactive is eventually granted and released, and every RLock is  *)
(* eventually RUnlocked.                                                   *)
ShardOpsComplete ==
    \A t \in Threads : pc[t] # "idle" ~> pc[t] = "idle"
=============================================================================
