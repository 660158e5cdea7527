\* Two connections racing the shutdown sequence; the only publications are
\* the presence messages the connections' own handleDisconnect makes, so
\* the listener still receives and processes messages while Shutdown runs.
\* A process that has returned from Shutdown, or died of a panic, takes no
\* further step, so deadlock is not an error here.
CONSTANTS
    Clients = {c1, c2}
    MaxPublish = 0
SPECIFICATION Spec
INVARIANT TypeOK
PROPERTY ProcessQuiescesIfPeersLeave
CHECK_DEADLOCK FALSE
