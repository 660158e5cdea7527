\* Two clients, two shards, one user with one device, a global limit of two
\* and a one-slot send buffer (so WriteMessage also drops on a full queue).
CONSTANTS
  Clients = {c1, c2}
  ShardCount = 2
  Users = {u1}
  Devices = {d1}
  MaxConns = 2
  QueueCap = 1
  NoClient = NoClient
  NoUser = NoUser

SPECIFICATION Spec

INVARIANT TypeOK
INVARIANT SecondaryInPrimary
INVARIANT CounterMatchesRegistry
INVARIANT NoChannelPanic
INVARIANT ShardingMatchesReference

\* With every connection finished the gateway idles waiting for upgrades the
\* bounded client set no longer supplies.
CHECK_DEADLOCK FALSE
