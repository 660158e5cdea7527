\* An idle client swept by the cleanup goroutine, then disconnected.
CONSTANTS
  Clients = {c1, c2}
  ShardCount = 1
  Users = {u1}
  Devices = {d1}
  MaxConns = 2
  QueueCap = 1
  NoClient = NoClient
  NoUser = NoUser

SPECIFICATION Spec

INVARIANT DisconnectHookOnce

CHECK_DEADLOCK FALSE
