------------------------------- MODULE RWLock -------------------------------
(***************************************************************************)
(* What a Shard's sync.RWMutex promises its callers (shard.go:16): any     *)
(* number of goroutines may hold it for reading, or exactly one for        *)
(* writing, never both.  A goroutine that already reads and locks for      *)
(* reading again stays a reader, so it is a stuttering step here.          *)
(***************************************************************************)
CONSTANTS Threads, NoThread

VARIABLES readers, writer

absVars == <<readers, writer>>

AcquireRead(t) ==
    /\ writer = NoThread
    /\ readers' = readers \cup {t}
    /\ UNCHANGED writer

ReleaseRead(t) ==
    /\ t \in readers
    /\ readers' = readers \ {t}
    /\ UNCHANGED writer

AcquireWrite(t) ==
    /\ writer = NoThread
    /\ readers = {}
    /\ writer' = t
    /\ UNCHANGED readers

ReleaseWrite(t) ==
    /\ writer = t
    /\ writer' = NoThread
    /\ UNCHANGED readers

AbsInit == readers = {} /\ writer = NoThread

AbsNext == \E t \in Threads :
    AcquireRead(t) \/ ReleaseRead(t) \/ AcquireWrite(t) \/ ReleaseWrite(t)

AbsSpec == AbsInit /\ [][AbsNext]_absVars
=============================================================================
