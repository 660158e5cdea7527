\* One connection whose peer stays connected through SIGTERM.
CONSTANTS
    Clients = {c1}
    MaxPublish = 1
SPECIFICATION Spec
PROPERTY ShutdownCompletes
CHECK_DEADLOCK FALSE
