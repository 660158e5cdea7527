\* A GetClient reader, a BroadcastToUser and a writer.  The nested RLock
\* can leave every goroutine blocked for good (see MCShardLockBroadcast.cfg);
\* that is a real end state of the code, so it is not reported as deadlock.
CONSTANTS
    Readers = {r1}
    Broadcasters = {b1}
    Writers = {w1}
    NoThread = NoThread
SPECIFICATION Spec
INVARIANT TypeOK
PROPERTY ImplementsRWLock
CHECK_DEADLOCK FALSE
