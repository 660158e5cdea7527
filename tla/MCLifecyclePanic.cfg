\* The Redis listener during RedisPubSub.Shutdown.
CONSTANTS
    Clients = {c1}
    MaxPublish = 1
SPECIFICATION Spec
INVARIANT NoListenerPanic
CHECK_DEADLOCK FALSE
