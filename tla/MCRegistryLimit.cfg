\* Two clients race AddConnection against a global limit of one.
CONSTANTS
  Clients = {c1, c2}
  ShardCount = 1
  Users = {u1}
  Devices = {d1}
  MaxConns = 1
  QueueCap = 1
  NoClient = NoClient
  NoUser = NoUser

SPECIFICATION Spec

INVARIANT GlobalLimitRespected

CHECK_DEADLOCK FALSE
