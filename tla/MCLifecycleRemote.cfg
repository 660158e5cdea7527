\* One connection, and one publication by another node (on the shared
\* channel or a per-user channel) that may be in flight while Shutdown runs.
\* A process that has returned from Shutdown, or died of a panic, takes no
\* further step, so deadlock is not an error here.
CONSTANTS
    Clients = {c1}
    MaxPublish = 1
SPECIFICATION Spec
 
PROPERTY ProcessQuiescesIfPeersLeave
CHECK_DEADLOCK FALSE
