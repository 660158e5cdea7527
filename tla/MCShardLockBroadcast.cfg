\* BroadcastToUser beside a writer: its nested RLock in GetUserClients.
\* The deadlocked state is a real end state of the code, so deadlock is not
\* reported as such; ShardOpsComplete is the property that fails.
CONSTANTS
    Readers = {}
    Broadcasters = {b1}
    Writers = {w1}
    NoThread = NoThread
SPECIFICATION Spec
PROPERTY ShardOpsComplete
CHECK_DEADLOCK FALSE
