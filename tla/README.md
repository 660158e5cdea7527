# TLA+ models of the WebSocket gateway

This directory models the Go WebSocket gateway in
`src/Backend/Websocket-gateway` (packages `connection`, `server`, `pubsub`, `config`).
Every model definition is translated from that source. The `map` of
`PROJECT.json` names the lines each definition stands for.

## 1. The system

### Components and their state

The gateway has these parts:

- **Manager** (`connection/manager.go`) owns:
  - `shard_count` shards, rounded up to a power of two by `nextPowerOfTwo`, and the mask that `getShardID` applies to a client id's FNV-1a hash;
  - the atomic `globalConns` counter;
  - an IP limiter and a user limiter;
  - the manager context and its WaitGroup;
  - the `onConnect` and `onDisconnect` hooks.

  Its operations are:
  - `AddConnection`: global check, IP limiter, shard add, increment, start both pumps, then `onConnect`;
  - `AuthenticateClient`;
  - `SendToUser`;
  - `RemoveClient`;
  - `Shutdown`;
  - the one-minute sweeper, `cleanupInactiveConnections`.
- **Shard** (`connection/shard.go`) has one `sync.RWMutex` over two maps:
  - `clients`: id → client;
  - `userClients`: user → device → client.

  Its operations are:
  - `AddClient`, `RemoveClient` and `RegisterAuthenticatedClient`;
  - `GetUserClients` and `BroadcastToUser`;
  - `CleanupInactive`.
- **Client** (`connection/client.go`) owns:
  - a bounded `Send` channel of 256 entries;
  - a `closing` flag under its own RWMutex;
  - a context;
  - two goroutines.

  The goroutines are:
  - `ReadPump`: it reads frames, applies the per-client bucket and calls the message handler. Its deferred work calls `RemoveClient` and then `cleanup`.
  - `WritePump`: it drains `Send` and pings. Its deferred work calls `cleanup`.

  `Close` and `cleanup` both set `closing`, cancel the context, close `Send` and close the socket. Each does this only if `closing` was not already set.
- **WebSocketServer** (`server/websocket.go`) does four things:
  - it upgrades HTTP requests (`ServeHTTP`);
  - it wires the manager hooks to presence publication on the bus;
  - it runs the metrics loop;
  - it runs the shutdown sequence.
- **RedisPubSub** (`pubsub/redis.go`) is the bus adapter:
  - `Publish` wraps messages in a node-id envelope;
  - `listen` and `processMessage` drop the node's own messages;
  - per-user channels (`PublishUserMessage` and `SubscribeToUser`) carry no envelope;
  - `Shutdown` cancels the adapter context, closes the shared subscription and waits for every listening goroutine.
- **Not in the source:** `messaging.Router`, `IPRateLimiter` and `UserRateLimiter` are referenced but not defined. The model uses only the calls the spec says the router makes: `AuthenticateClient` on auth and `SendToUser` on a direct message in `Registry`; `RegisterHandler`, `Publish`, `SubscribeToUser` and `PublishUserMessage` on the Redis adapter in `Lifecycle`. Nothing in the repository calls `RegisterHandler`, so which handlers exist, and when they are registered, is left open. The limiter verdicts are nondeterministic choices.
- **Configuration** (`config/config.go`): only `validateConfig`'s checks of `shard_count` and `global_connections` are modelled, as assumptions on the constants.
- **Outside the gateway:** JWT, the metrics counters, the wire protocol, and the Next.js application with its SQL schema. `PROJECT.json` lists them as `not_modelled`, with the reason for each.

### Goroutines that interact

A client's state is touched by these goroutines:

- its own read pump and write pump;
- the read pump of **any other** client, when that client's message is delivered to this client through `SendToUser`;
- the sweeper, which removes this client from its shard;
- the accept handler, which adds this client.

Each shard operation takes the shard lock. `BroadcastToUser` copies the client list under the lock and writes to the clients after releasing it.

### The behaviours that make this hard

- A send on a closed `Send` channel panics, and so does a second `close`. Only the `closing` flag, tested under the client lock, prevents both.
- The global counter is checked, then incremented later, and decremented from two different paths: `RemoveClient`, and the sweeper.
- The user index of a shard must never point to a client that is not in its `clients` map.
- Teardown is split across three actors: a failing pump, the other pump, and the sweeper. It must still end with the client removed from the registry.

## 2. Modules

### `Registry.tla`

This module models the Manager, all of its shards and two or more clients with both pumps. It is the core of the system.

Variables:
- `shardClients[s]` and `userIdx[s][u][d]`: the two maps of each shard;
- `globalConns`;
- per client:
  - `closing`;
  - `sendClosed`: `close(c.Send)` has run;
  - `conn`: the socket;
  - `queue`: the length of `Send`, at most `QueueCap`;
  - `authed`, `user` and `device`;
  - `stale`: the client's `LastActivity` is older than the sweep timeout.
- the program counters:
  - `accept`: the `AddConnection` handler;
  - `rp`: the read pump;
  - `wp`: the write pump.
- the state of an in-flight `SendToUser`: `sendTo`, `sendShard` and `sendTargets`;
- the sweeper's pending list: `sweepPending` and `sweepShard`;
- `crashed`: a channel operation panicked;
- `disconnects`: the number of `onDisconnect` calls per client.

Steps are cut where another goroutine can observe the state in between:
- `Admit`: the global check, plus the IP limiter or upgrade refusal;
- `AddToShard`: the shard add;
- `CountAndSpawn`: the increment and the pump start;
- `SnapshotShard`: one shard's `BroadcastToUser` copy under the lock;
- `SendToClient`: `Manager.SendToClient`'s `GetClient` lookup under the target's shard lock. The router is not in the source, so a frame from an authenticated client may lead to either manager call, `SendToUser` (`ReadDirect`) or `SendToClient`;
- `Deliver`: one `WriteMessage` to one target, after the lock is released, for either call;
- `Remove`: the shard remove;
- `Release`: the decrement, `Close` and `onDisconnect`;
- `Sweep`: `CleanupInactive` of one shard;
- `SweepDecrement`: the sweeper's per-id decrement and hook lookup.

Each shard operation is one atomic step, because it runs under the shard lock. `SnapshotShard` therefore also takes `BroadcastToUser`'s outer and inner `RLock` as one step, which hides the deadlock `ShardLock` shows (see `shardlock_broadcast_deadlock`). This is why `Registry` states no liveness property and has no fairness: progress of a read pump or of a removal would hold in the model and not in the code.

The shard arithmetic is translated as operators:
- `NextPowerOfTwo` is `nextPowerOfTwo` on `uint32`: decrement, then `Smear` (RECURSIVE, with `Bitwise`'s `|` and `shiftR`), then increment;
- `NumShards` is `NewManager`'s choice: 64 for a zero `shard_count`, otherwise the rounded count;
- `ShardIndex(hash)` is `getShardID`'s `hash & shardMask`;
- `ValidateConfig` is `validateConfig`'s two checks, assumed of `ShardCount` and `MaxConns`.

`Init` draws each client's shard from `ShardIndex` of hash values, so clients land only where the mask sends them.

`WriteMessage`, `Close`, `cleanup`, `Shard.RemoveClient`, `Shard.AddClient` (`ShardAddClient`), `Client.SetAuthenticated` and `Shard.RegisterAuthenticatedClient` are helper operators. Each is used inside every action whose code calls it.

The environment actions are:
- `PeerClose`: the peer or the network closes the socket;
- `BecomeStale`: `PongWait * 2` elapses with no data frame;
- the input choices: the frames a client sends, its user and device, and the limiter verdicts.

### `ShardLock.tla` and `RWLock.tla`

These model the lock of one shard: its `sync.RWMutex`, translated from Go's writer-preferring algorithm.

Variables:
- `readerCount`;
- `pending`: a writer has announced itself by negating `readerCount`;
- `readerWait`;
- `wHeld`: the writer mutex `w`;
- the permits of `readerSem` and `writerSem`;
- each writer's snapshot `snap`.

Callers are sets of goroutines:
- `Readers`: `GetClient`, one `RLock`;
- `Broadcasters`: `BroadcastToUser`, whose `RLock` at shard.go:128 is followed by `GetUserClients`' own `RLock` at shard.go:96;
- `Writers`: `AddClient`, `RemoveClient`, `RegisterAuthenticatedClient` and `CleanupInactive`, one `Lock` each.

`RWLock.tla` is the abstract lock. It has a set of readers and at most one writer, and the two never overlap. `ShardLock` maps onto it through `INSTANCE RWLock WITH readers <- ReadHolders, writer <- WriteHolder`.

Fairness:
- Running steps are weakly fair.
- Semaphore wake-ups and the writer mutex are strongly fair. The runtime semaphore queues its waiters, and `sync.Mutex` has a starvation mode.
- Starting an operation is not fair: no caller has to call.

### `Lifecycle.tla`

This module models the process from start-up to the end of `WebSocketServer.Shutdown`.

Variables:
- per connection:
  - `cst`: the accept handler;
  - `sock`: the socket;
  - `cctx`: the client context;
  - `rp` and `wp`: the pumps.
- `wg`: the `Manager.wg` counter;
- `mctx`: `Manager.ctx`;
- `sweeper`;
- `listening`: the HTTP listener;
- `rctx`, `chClosed` and `listener`: the Redis listener and its channel;
- `sd`: where the shutdown goroutine is;
- `crashed`: a panic;
- `bus` and `userBus`: the messages Redis has handed to the shared subscription and to the per-user subscription, in order;
- `handlers`: the types `RegisterHandler` has registered;
- `fired`: for each handler run, the path (shared or per-user) and the origin of the message;
- `userSub`: the `SubscribeToUser` goroutine;
- `published`: publications by other parties, bounded by `MaxPublish`;
- `shutdownCh`: `close(s.shutdownChan)` has run;
- `metricsLoop`: the `updateMetrics` goroutine;
- `metricsSrv`: the metrics server's `ListenAndServe` goroutine, which is running, closed by `Shutdown`, or exited.

A message is abstracted to its origin and its type. The origin is the envelope's `node_id` on the shared channel, and the posting node on a user channel. The type `"bad"` stands for a payload that does not unmarshal.

The data-plane actions:
- `ReadExit` ends in `HandleDisconnect`: for an authenticated client, `publishPresence` publishes an offline presence, which may fail.
- `PublishShared` is `Publish`, by this node or another. Redis hands it to this node's subscription while that is open. An error is returned and nothing retries.
- The listener follows Go's `select` in `listen`. `listener` is `"select"` when the goroutine is about to evaluate the select, `"parked"` when it is blocked in it with no case ready (`ListenPark`), `"process"` between receiving a message (`ListenRecv`) and returning from `processMessage` (`ListenProcess`: the parse failure, the self-skip, the handler lookup and the handler run), `"woken"` when `r.cancel()` has made the ctx case ready while it was parked, and `"exit"`. A parked select is committed to the first case that becomes ready: `BusCancel` wakes a parked listener into `"woken"`, and a message appended while it is parked (`WakeOnMessage`, in `PublishShared` and `ReadExit`) wakes it into `"process"`. A select that starts with several cases ready (`"select"`) may take any of them.
- `ListenNil` is a select that starts with the channel closed and takes it; it needs the channel to be drained: go-redis closes it after the buffered messages.
- `RegisterHandler`, `SubscribeToUser`, `PublishUserMessage`, `UserRecv` and `UserCtxDone` are the rest of the adapter. `BusWait` waits for the per-user goroutine as well, since it is counted in `r.wg`.

The shutdown steps follow the code in order:
- `HttpShutdown`: `httpServer.Shutdown`;
- `MgrCancel` and `MgrWait`: `m.cancel()`, then `m.wg.Wait()`;
- `BusCancel`, `BusClose` and `BusWait`: `r.cancel()`, then `subscriber.Close()`, then `r.wg.Wait()`;
- `MetricsShutdown`: `s.metrics.Shutdown()`, whose `m.server.Shutdown` makes the metrics server's goroutine return (`MetricsServeExit`).

`Signal` also closes `shutdownChan`, which ends `updateMetrics` (`MetricsLoopExit`). No WaitGroup counts that goroutine or the metrics server's. A tick of `updateMetrics` only copies `GetStats` into gauges that nothing reads, so it is a stuttering step.

`messageRouter.Shutdown` is left out because it is not in the source.

Fairness:
- All goroutines of the process are weakly fair, including the listener's receive and the per-user goroutine.
- SIGTERM, new TCP connections, the peers, publications and the router's calls are not.

### Planned modules

The project has reached its cap of twelve runs. A further question must therefore become a property that holds in an existing passing run.

1. **`RateLimit.tla`:** the token bucket behind `userLimiter` and `ipLimiter`, against the spec's cap on concurrent connections per user. The limiter types are not in the source.
2. **An abstract `Sessions` spec:** a set of open sessions with at most one per device, to which `Registry` is mapped once supersede is modelled.

## 3. Runs

All `Registry` runs use `MCRegistry.tla`, which extends `Registry`. Model values are `NoClient` and `NoUser`, and the clients are model values. Symmetry is not used: `shardOf` breaks the symmetry of the clients.

### `registry_safety` (`MCRegistry.cfg`, pass)

Bounds: 2 clients, 2 shards, 1 user, 1 device, `MaxConns` 2, `QueueCap` 1.

It checks five properties:
- `TypeOK`.
- `SecondaryInPrimary`: every index slot names a client that is in that shard, with that user and device.
- `CounterMatchesRegistry`: `globalConns` equals the number of registered clients, corrected by the clients between steps: added but not yet counted, removed but not yet decremented, and swept but not yet decremented.
- `NoChannelPanic`: no send on, or second close of, a closed channel.
- `ShardingMatchesReference`: three things hold.
  - `NextPowerOfTwo` equals the least power of two at or above `n`, for every `shard_count` from 1 to 256 and around 2^29 and 2^30.
  - The mask maps hashes onto exactly the shards allocated.
  - Every client's shard is one of them.

  The arithmetic part is a constant, `ShardArithmetic`, which TLC evaluates once. TLC's integers are 32-bit signed, so the checked domain stops at 2^30, and the `uint32` wrap above 2^31 is a hazard without a property.

Why these bounds are enough:
- Two clients are enough for every cross-client race: a sender writing to a target that is being torn down, a sweep racing a pump's remove, and two registrations of one device.
- Two shards make a send cross shards.
- `QueueCap` 1 makes the full-queue drop reachable.

Result: about 1.1M distinct states, in about 40 s.

### The three violation runs

Each run checks one property. TLC finds a trace for each; the findings in `PROJECT.json` explain them.

- **`registry_global_limit`** (`GlobalLimitRespected`): `MaxConns` 1, and two accepts both pass the load-then-add check.
- **`registry_sweep_hook`** (`DisconnectHookOnce`): a swept client never gets `onDisconnect`. The sweeper looks up the id after `CleanupInactive` deleted it, and the pump's later `RemoveClient` finds nothing.
- **`registry_supersede`** (`OneSessionPerDevice`): two sessions of the same user and device both stay open and registered. `RegisterAuthenticatedClient` overwrites the slot and never closes the older session.

### `shardlock_safety` (`MCShardLockSafety.cfg`, pass)

Bounds: a reader, a broadcaster and a writer.

It checks two properties:
- `TypeOK`, which also catches an `RUnlock` of an unlocked mutex;
- `ImplementsRWLock`: the refinement.

### `shardlock_progress` (`MCShardLock.cfg`, pass)

Bounds: two readers and two writers. This is the smallest setting in which a writer hands over to readers that blocked meanwhile, and in which a second writer counts them.

It checks `ShardOpsComplete`: every started operation returns.

### `shardlock_broadcast_deadlock` (`MCShardLockBroadcast.cfg`, violation)

Bounds: one broadcaster and one writer.

`ShardOpsComplete` fails. The writer announces itself between the outer and the inner `RLock`. The inner `RLock` then waits for the writer, and the writer waits for the outer `RLock`.

The inner wake-up is left out of the model because it can never happen: the only `Unlock` that could release it belongs to the writer that is waiting for this very goroutine.

### `lifecycle_drain` (`MCLifecycle.cfg`, pass)

Bounds: two connections, and no publication by another party (`MaxPublish` 0). The two clients' presence messages still reach the listener, so it receives and processes messages while shutdown runs. About 66k distinct states, in under half a minute.

It checks two properties:
- `TypeOK`, which includes a WaitGroup counter that never goes negative;
- `ProcessQuiescesIfPeersLeave`: if every peer eventually closes its socket, every goroutine ends or the process panics. This implies that `Shutdown` itself returns. That includes every accept handler, every pump, the sweeper, both Redis goroutines, `updateMetrics` and the metrics server. It also covers what no WaitGroup waits for: the two metrics goroutines, and the pumps of a connection that `AddConnection` admitted after `m.wg.Wait` returned.

### `lifecycle_remote` (`MCLifecycleRemote.cfg`, pass)

Bounds: one connection and one publication by another node (`MaxPublish` 1), on the shared channel or a per-user channel. It checks the same two properties with that publication possibly in flight while `Shutdown` runs. Two connections together with a remote publication take close to four minutes, so the two settings are separate runs. About 64k distinct states, in under half a minute.

### `lifecycle_shutdown_hang` (`MCLifecycleHang.cfg`, violation)

Bounds: one connection.

`ShutdownCompletes` fails when one peer stays connected. The client contexts come from `context.Background()`, so cancelling `m.ctx` does not stop the pumps, and `m.wg.Wait()` waits for them forever.

### `lifecycle_listener_panic` (`MCLifecyclePanic.cfg`, violation)

Bounds: one connection.

`NoListenerPanic` fails. A listener parked in its `select` is committed to the ctx case by `r.cancel()` and cannot panic. A listener that is not parked when `r.cancel()` runs (it is inside `processMessage`, or on its way back to the `select`) comes back after `subscriber.Close()` to a `select` with both cases ready. It may take the closed channel, and `processMessage(nil)` panics. TLC's shortest trace has the listener on its way to the `select` throughout; the same state is reached through `ListenRecv`, `BusCancel`, `BusClose` and `ListenProcess`.

### `lifecycle_user_loop` (`MCLifecycleUserLoop.cfg`, violation)

Bounds: one connection and one publication.

`LoopSuppression` fails. The router subscribes to a user channel with `SubscribeToUser`, then posts to that channel itself with `PublishUserMessage`. Redis hands the message back, and the goroutine runs the handler: the message has no envelope, and nobody checks its origin.

### Deadlock checking

`CHECK_DEADLOCK FALSE` is set in the Registry and Lifecycle cfgs and in two of the ShardLock cfgs.

- **Registry:** with a finite set of clients, the system stops once every client has been rejected or torn down. That final state is the server idling, not a deadlock.
- **ShardLock, safety and deadlock-violation cfgs:** the nested `RLock` really does leave every goroutine blocked.
- **Lifecycle:** a process that has returned from `Shutdown`, or has panicked, takes no further step.
- **ShardLock, `MCShardLock.cfg`:** deadlock checking stays on, because its goroutines can always start another call.

### Mutants

Every passing property has a mutant in `PROJECT.json`. Each mutant is a plausible bug in the mapped code:

| Property | Mutant | Plausible bug |
|---|---|---|
| `NoChannelPanic` | `CleanupNoGuard` | `cleanup` without its `closing` test |
| `TypeOK`, `CounterMatchesRegistry` | `RemoveUnchecked` | `RemoveClient` without the not-found early return |
| `SecondaryInPrimary` | `SweepKeepIndex` | `CleanupInactive` that leaves the user index |
| `TypeOK` (ShardLock) | `GetClientNoRLock` | `GetClient` without its `RLock` |
| `ImplementsRWLock` | `GetClientNoRLock` | `GetClient` reading the map without its `RLock` |
| `ShardOpsComplete` | `WriteNoUnlockOnMiss` | `RemoveClient`'s early return without the `Unlock` |
| `TypeOK` (Lifecycle) | `WriteExitDoubleDone` | a pump whose exit calls `wg.Done` twice |
| `ShardingMatchesReference` | `NextPowerOfTwoNoDecrement` | `nextPowerOfTwo` without the leading `n--` |
| `ProcessQuiescesIfPeersLeave` | `SignalNoClose` | `Shutdown` without `close(s.shutdownChan)` |

## 4. What is not modelled

- **The `LastActivity` data race** (client.go:155 against shard.go:151). The write is treated as atomic.
- **The per-client metrics counters.** They are never read back.
- **The heartbeat timing.** It is abstracted into `BecomeStale` and `PeerClose`. Pongs do not refresh `LastActivity`, so staleness may strike a client that is alive; the model allows that.
- **The hash that picks a shard.** FNV-1a is not computed. `shardOf` ranges over the masked values of hashes, which is every assignment of clients to shards.
- **Shard counts above 2^30.** TLC's integers cannot hold the `uint32` values, so these are not checked (see the hazard at manager.go:47).
- **The frontend and SQL.** They are outside the gateway.
- **The `main` in `src/unnamed/part_001`.** It calls `Shutdown(ctx)` with a 30 s deadline, but the server's `Shutdown` takes no context. No deadline applies to the code that exists, so none is modelled. `main` also calls `Start(addr)` and `StartMetricsServer`, which the server does not define, so it does not build against this source.
- **The two lock sections of `AuthenticateClient`** (manager.go:160). `ReadAuth` is one step. A sweep between the lookup and the registration would need the client to have been idle for 2 x PongWait, but the read pump has just set `LastActivity` for the auth frame.
- **JWT** (`auth/jwt.go`). `ValidateToken` is a sequential function over the `golang-jwt` library, and nothing in the repository calls it. The spec makes token verification an external collaborator, so `ReadAuth` chooses the user and device.
- **The wire protocol** (`pkg/protocol/messages.go`). It is JSON structs and their parser. A message is abstracted to its type and origin.
- **The `GetStats` scan** (`Manager.GetStats`, `Shard.GetStats`, `UpdateConnectionMetrics`). `updateMetrics` reads the shards one at a time, so its gauge can add up connections that never coexisted. Interleaving that scan with the registry multiplied the two-client state space more than forty-fold, and a run could no longer finish. The gauge feeds nothing the gateway reads, so the scan is left out. The shards' `stats` counters, which only `GetStats` reports, are left out with it.
- **The metrics counters** (`metrics/collector.go`). The collector's HTTP server is modelled, but its Prometheus counters and gauges are not: the gateway never reads them back. `RecordConnection` and `RecordDisconnection`, which `websocket.go` calls, are not defined in it.
- **Handler deadlines.** The 5 s contexts of bus handlers and `publishPresence` only bound how long a step takes. A late or failed handler is only logged.
