\* Two GetClient readers and two writers on one shard, no BroadcastToUser:
\* writer preference and the hand-over between writers and blocked readers.
CONSTANTS
    Readers = {r1, r2}
    Broadcasters = {}
    Writers = {w1, w2}
    NoThread = NoThread
SPECIFICATION Spec
PROPERTY ShardOpsComplete
