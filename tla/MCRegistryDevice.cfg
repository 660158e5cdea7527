\* Two connections authenticate as the same (user, device), on one or on two shards.
CONSTANTS
  Clients = {c1, c2}
  ShardCount = 2
  Users = {u1}
  Devices = {d1}
  MaxConns = 2
  QueueCap = 1
  NoClient = NoClient
  NoUser = NoUser

SPECIFICATION Spec

INVARIANT OneSessionPerDevice

CHECK_DEADLOCK FALSE
