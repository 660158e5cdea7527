\* The per-user channel: this node posts to a user channel it is
\* subscribed to.
CONSTANTS
    Clients = {c1}
    MaxPublish = 1
SPECIFICATION Spec
INVARIANT LoopSuppression
CHECK_DEADLOCK FALSE
