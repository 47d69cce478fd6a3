# TLA+ models of the websocket hub

These modules model the realtime fan-out engine in `src/`. That engine is the
sharded Hub, the per-shard SubscriptionManager, the client read/write pumps,
the in-memory and Redis brokers, the worker authorizer, webhook delivery
and the handshake. The models are checked with TLC. `PROJECT.json`
lists:

- every component, modelled or not;
- every run;
- the mutant that shows each passing property can fail;
- the source lines each definition translates;
- the findings;
- the hazards.

## The system

| Part | Code | State | Operations |
|---|---|---|---|
| SubscriptionManager | `src/mod/subscription.go` | `channels` (channel → clients), `clients` (client → channels), `presence` (channel → user_ids), `clientToUser` (channel → client → user_id) | Subscribe, Unsubscribe, RemoveClient, BroadcastToChannel, BroadcastToOthers, the two presence handlers |
| HubShard | `src/shard.go` | one SubscriptionManager | a loop over five unbuffered channels plus `ctx.Done` |
| Hub | `src/hub.go` | `clients`, atomic `conns`, `wg`, the shards; the process-wide `hubRegistry` (AppID → Hub) | Register, Unregister, Run (forwards each request to `getShard(channel)`, the FNV-1a hash of the name), Publish (length checks, then the broker), shutdown; RegisterHub, GetHub, UnregisterHub |
| Client | `src/module/client.go` | `shardMask` (atomic bitmap), `send` (256-slot queue) | readPump/handleMessage send requests to the Hub, `Send` drops when the queue is full, writePump drains the queue |
| MemoryBroker | `src/broker.go` | `bus` (256-slot channel) | Publish (drops with an error when full), Close (cancel, then close the bus) |
| PHP entry points | `src/websocket.go` | none | `pogo_websocket_publish` and `pogo_websocket_broadcast_multi`: GetHub, then hub.Publish per channel, results ANDed |
| WebsocketModule | `src/caddy.go` | module context | Provision (RegisterHub), ServeHTTP (Register, then run the pumps), Cleanup (cancel, `hub.Wait`, UnregisterHub) |
| WebhookManager | `src/webhook.go` | none | Notify (one goroutine per call) |
| RedisBroker | `src/redis_broker.go` | reconnect attempt counter | the subscribe/reconnect loop with exponential backoff |
| WorkerAuthProvider | `src/auth.go` | semaphore, circuit breaker | Authorize, AuthenticateUser |

How the parts interact:

- Each connection runs two goroutines. Its **readPump** turns frames into
  requests, which it sends to the Hub over unbuffered channels. The Hub loop
  hands each request, again over an unbuffered channel, to the shard that owns
  the channel.
- The shard applies the request to its SubscriptionManager. That writes
  frames into the send queues of the affected clients.
- Each client's **writePump** drains its own queue.
- Broadcasts enter from PHP through `pogo_websocket_publish` or
  `pogo_websocket_broadcast_multi`. They look the hub up in the registry,
  then call `Hub.Publish`, which puts the message into the broker. The Hub
  loop forwards it from there.
- A config reload provisions a new module, whose `RegisterHub` replaces the
  registry entry, and cleans up the old one. The old Cleanup's
  `UnregisterHub` deletes the entry only if it still holds the old hub.
- On disconnect, the readPump's deferred `Unregister` removes the client from
  the Hub. It then sends a cleanup to every shard whose bit is set in the
  client's `shardMask`. The bit is set by the shard when it applies a
  subscribe.
- On shutdown, Cleanup cancels the module context. The Hub closes the broker
  and every registered connection, then waits on `wg` for every readPump to
  unregister.

The hard behaviours are:

- the interleaving of readPumps, the Hub loop and the shard loops;
- the unlocked check-then-act in Register;
- the gap between indexing a client and counting it (and between
  un-indexing and uncounting), which shutdown can fall into;
- the shard mask read by Unregister while a subscribe is in flight;
- Go's random map-iteration order in RemoveClient;
- bounded queues that drop frames;
- shutdown and config reload racing every one of these, including a PHP
  publish that holds a hub pointer across them.

## Modules

- **`SubscriptionManager.tla`** models one shard's state. Each operation
  is a pure transformer `...Op(s, ...)` of a state record, because a shard
  runs them single-threaded. The module's own `Spec` drives one shard with
  arbitrary requests.
  - Variables are the four maps, `outbox` (every client's send queue) and
    `webhook` (the last notification issued per channel).
  - A Go map is a function whose domain is its key set. An empty
    `channels[ch]` stands for a deleted entry.
  - `RemoveClientOp` folds `UnsubscribeOp` over a sequence. The action
    chooses that sequence from every ordering of the client's channels,
    because Go's map order is unspecified.
  - Frames are `FrameOf(event, channel, user_id)`. User info and JSON
    wording are left out.
  - `SendTo` is `Client.Send`: a frame to a full queue is dropped.
- **`HubSystem.tla`** composes the Hub, the shards, the client pumps, the
  memory broker, the PHP entry points, the registry and the module's
  Cleanup. It reuses the SubscriptionManager
  transformers through `SMOps == INSTANCE SubscriptionManager`, on the same
  variables.
  - The shards' states are disjoint, so they are kept as one global state.
    Shard `i` touches only `ShardChannels(i)`.
  - Every unbuffered Go channel is a rendezvous:
    - a readPump's `pc = "sending"` is its blocked send;
    - `HubReceiveRequest` is the receive, and it moves the request into
      `held` with `hubPc = "forwarding"`;
    - `ShardReceive(i)` is the shard's receive.
  - `Register` is split at the points another goroutine can interleave:
    `RegisterCheck` (the unlocked `conns` test), `RegisterAdmit` (indexing
    in `h.clients` under `clientsMu`), `RegisterCount` (after the unlock,
    `conns.Add(1)`) and `RegisterJoin` (`wg.Add(1)` on the next line, then
    `connection_established`).
  - `Unregister` is `UnregisterStart` (leaving `h.clients` under the lock),
    `UnregisterCount` (`conns.Add(-1)` after it), then the loop:
    - `UnregisterSkip` is the bit not set, or the `ctx.Done` case;
    - `ShardCleanup` is the cleanup received by shard `i`;
    - `UnregisterDone` is `wg.Done`.
  - The authorizer's outcome is a free choice: deny, or allow with any
    `user_id`, including none.
  - Peers are the environment. `framesLeft` bounds the frames each peer
    sends, and `ReadEnds` is the peer hanging up.
  - `shardMask` is a set of shard ids; `AddShard` and `HasShard` keep the
    code's 0..63 range check. `GetShard` is `getShard`: FNV-1a over the
    name's bytes, with the 32-bit word kept as two 16-bit limbs.
  - One PHP thread (`php`) makes up to `MaxPublish` calls:
    - `PhpEnter` is GetHub and, for broadcast_multi, the JSON parse. A
      missing hub or a bad list returns false. A hub registered by a newer
      config serves the call outside this model.
    - `HubPublish` is one `hub.Publish` of the loop. The three length checks
      are one verdict per call (`valid`). `MemoryBrokerPublish` is the
      broker's select.
    - `PhpReturn` returns the AND of the results. `lastCall` records what
      the returned call asked for and got.
  - `registry` is this AppID's registry entry: `self`, `newer` (a reload's
    RegisterHub) or `none`. `Reload` is the newer module's Provision.
    `UnregisterHub` is Cleanup's last step, after `hub.Wait` (`hubPc =
    "stopped"`). Its Load, compare and Delete are one step. Caddy finishes
    provisioning a new config before it cleans up the old one, so no
    RegisterHub of this AppID falls between them.
- **`BrokerStream.tla`** is the abstract specification of a cluster broker
  (spec 4.5). Messages are numbered in publication order. The Hub receives
  each one at most once, in order, and any of them may be lost.
- **`RedisBroker.tla`** models the goroutine started by
  `RedisBroker.Subscribe`, the publishers, the Redis server and the Hub's
  broker case.
  - `rpc` is where the goroutine is:
    - `Check` is the context test at the top of the loop;
    - `ReceiveOk` and `ReceiveFail` are the subscribe confirmation;
    - `SleepDone` is the end of the backoff sleep;
    - `ReadMsg`, `ChannelClosed` and `ReadCancel` are the read select;
    - `Forward` and `ForwardCancel` are the send on `out`;
    - `Return` is `defer close(out)`.
  - go-redis is taken from its contract:
    - a dropped connection resubscribes on its own (`RedisDown`/`RedisUp`);
    - messages published meanwhile are lost;
    - the channel closes when the subscription is torn down.
  - A payload that does not decode is dropped by `ReadMsg`.
  - `sleepFor` is the backoff computed with `GoInt64`.
  - `Stream == INSTANCE BrokerStream WITH accepted <- published,
    received <- delivered` is the refinement mapping. `BrokerStreamRefined`
    checks the refinement as a PROPERTY.
- **`GoInt64.tla`** is Go's `int64` with wrap-around.
  - A word is kept as five 13-bit limbs, because TLC integers are 32 bits.
  - `Mul` keeps the low 64 bits, and `Greater` is the signed order.
  - `DurationOfPow2` is the float-to-Duration conversion. From 2^63 on, the
    result is implementation-defined, so the operator gives both outcomes.
  - `Backoffs(a)` is the backoff line with its 30 s cap.
  - `MC_RedisBroker.tla` checks `Mul` and `Greater` against exact
    arithmetic modulo 2^64, in every state in which the subscriber sleeps.
- **`AuthProvider.tla`** models `WorkerAuthProvider.Authorize` for
  concurrent callers.
  - The semaphore `sem` is a `select` with a default case. `Acquire` either
    takes a slot or rejects with `concurrency_limit`.
  - The circuit breaker `cb` follows gobreaker's contract:
    - every state change starts a new generation;
    - `AfterRequest` ignores results from an older generation;
    - 5 consecutive failures trip it;
    - half-open admits `MaxRequests = 1` probe;
    - `Expire` is the open timeout.
    This part is taken from the library's contract, because gobreaker is not
    in `src/`.
  - `Admit` is `cb.Execute`'s admission: it takes a capturer from the
    `sync.Pool` (any pooled one, or a new one).
  - `Complete` runs the whole callback:
    - the worker's response is written into the capturer (`Served`);
    - `Classify` is the switch on error, overflow, status ≥ 500 and status
      ≠ 200;
    - the breaker records the result;
    - the capturer is `Reset` and put back;
    - the slot is freed.
  - A worker response is an error flag, a status (0 = none written) and a
    sequence of body writes. Bytes are the caller's serial number, so a
    body that leaks between pooled capturers is visible.
- **`WebhookDelivery.tla`** models one channel's lifecycle webhooks.
  - `Notify` issues `channel_occupied` and `channel_vacated` in turn.
  - Each call starts its own goroutine:
    - `Build` stamps `time_ms` from the clock and builds the payload;
    - `Deliver` and `Fail` are `client.Do` succeeding or failing.
  - `received` is what the application gets, in arrival order.
- **`Handshake.tla`** models `WebsocketModule.ServeHTTP` up to
  `Hub.Register`.
  - `ServeHTTP` is the chain of early returns:
    1. the protocol query compared with `"5"` as a Go string (`StrLess`);
    2. the pass-through of a request that is not an upgrade;
    3. the limiter's verdict;
    4. a failed upgrade;
    5. the socket id.
  - The socket id is `SocketID(now)`, which is `%d.%d` of the clock's
    seconds and nanoseconds (`Decimal`).
  - Strings are sequences of byte values.
  - The limiter's decision is the environment's, and only when
    `handshake_rate` configured one (`LimiterOn`).
- **`ModuleConfig.tla`** models what `Provision` makes of the Caddyfile
  directives, as operators with no state (the code is straight-line and
  runs once):
  - `ValidateAndDefaults`: the three required directives, the defaults that
    replace a zero (and only a zero), the NumCPU shard default clamped to
    4..64, and the three durations;
  - a duration directive is `Unset`, `Invalid` (ParseDuration fails, and so
    does the whole call) or `Dur(ms)`;
  - `NewHubShards` and `ActivityTimeout` are NewHub's clamps,
    `SemaphoreDepth` is NewWorkerAuthProvider's, `Limiter` is Provision's
    token-bucket defaults;
  - `Provision` chains them. MC_HubSystem takes the hub's `NumShards` from
    `Provision` of a Caddyfile with `num_shards 2`.
- **`MC_SubscriptionManager.tla`**, **`MC_HubSystem.tla`**,
  **`MC_AuthProvider.tla`**, **`MC_RedisBroker.tla`** and **`MC_Handshake.tla`**
  instantiate the modules for TLC. They supply:
  - frame constructors, the channel-to-shard map and symmetry sets;
  - the worker response shapes;
  - the int64 reference checks (`ASSUME`s of MC_RedisBroker);
  - the channel names as byte strings and the FNV-1a test vectors. The
    literal channel-to-shard table is checked against `GetShard` of the
    names, and `Fnv1a32` against the published vectors, by `ASSUME`s of
    MC_HubSystem. A literal table keeps TLC from hashing in every state.
  - the protocol queries and the clock readings, as byte strings.

## Runs

| Run | Cfg | Expect | What it shows |
|---|---|---|---|
| sm_safety | `SubscriptionManager.cfg` | pass | One shard with 3 clients, a public and a presence channel, 2 user_ids and queue capacity 1, under every sequence of subscribe, unsubscribe, RemoveClient (every order), broadcast and write. It keeps the two indices mirrored (`IndexMirror`, spec invariant 1). Every client → user_id entry belongs to a subscribed client whose user_id is on the roster (`PresenceIndexConsistent`). The webhook state is `occupied` exactly while the channel has subscribers (`WebhookTracksOccupancy`). |
| hub_safety | `HubSystem_safety.cfg` | pass | 2 clients, 2 shards (one public channel, one presence channel), `max_connections` 1, 2 frames per peer, no publish and no shutdown (hub_live covers those). It checks `ConnectionCountMatchesClients` (spec invariant 3): `h.conns` equals the size of `h.clients` whenever no Register or Unregister is between its locked section and its counter update, through over-capacity rejections and hang-ups. `ShardsFitBitmap`: for `num_shards` omitted, negative, 3, 64 and 65, NumCPU 1, 3 and 40, and each kind of ping_period, a hub Provision starts has a shard count of at least 1 whose every id `AddShard` records; it is a configuration check, evaluated before any client starts. Deadlock is checked. |
| hub_live | `HubSystem_live.cfg` | pass | One client (a private channel and a public one), one PHP call (publish or broadcast_multi over both channels, in or over the limits, or an unparsable list), a config reload at any time, and cancellation at any point: shards stop, Unregister skips through `ctx.Done`, the Hub closes the broker, Cleanup unregisters. `UnregisterCompletes`: every client whose readPump returned eventually finishes Unregister. `PublishResultTruthful`: the bool PHP gets is true exactly when the hub was found, the list parsed and every channel's message entered the broker; over the limits nothing enters it. Deadlock is not checked, because a hung shutdown (hub_shutdown) has no enabled step. |
| hub_ghost | `HubSystem_ghost.cfg` | violation | `DisconnectedClientForgotten` fails. A client's subscribe is taken by the Hub, the client disconnects, and Unregister finds no shard bit and skips. The shard then applies the subscribe, leaving a dead client subscribed forever. |
| hub_capacity | `HubSystem_capacity.cfg` | violation | `ConnectionsBounded` fails: two handshakes pass the `conns` check before either increments it. |
| hub_shutdown | `HubSystem_shutdown.cfg` | violation | `ShutdownCompletes` fails even when every peer eventually hangs up. A shard returns on `ctx.Done` while the Hub is forwarding to it, so the Hub blocks forever, readPumps block sending to the Hub, and `Cleanup` never returns. |
| hub_panic | `HubSystem_panic.cfg` | violation | `NoPublishPanic` fails: a Publish after the Hub closed the broker may take the send case on the closed bus. |
| redis_safety | `RedisBroker.cfg` | pass | 3 messages, 2 outages or broker-side closes, undecodable payloads, cancellation at any time. The subscriber implements `BrokerStream` (at most once, in order) and returns once the context is cancelled (`SubscriberReturns`). The backoff's `Mul` and `Greater` agree with exact arithmetic modulo 2^64 for every pair of powers of two up to 2^63; this is an `ASSUME` of the model, not a property of the code. |
| redis_backoff | `RedisBroker_backoff.cfg` | violation | `SleepMatchesSpec` (sleep `min(2^attempt, 30)` s) fails at attempt 34. The Duration product wraps negative, passes the cap, and the loop reconnects with no delay. |
| auth_safety | `AuthProvider.cfg` | pass | 3 callers, 2 slots, 7 calls through trips, expiries and probes, with calls in flight across generations. A caller is allowed exactly when its own worker answered 200 with a body that fits, and its `user_data` is exactly its own bytes, whatever capturer the pool handed it (`ResultMatchesResponse`). Half-open admits one probe (`HalfOpenSingleProbe`). The semaphore rejects only while `max_concurrent_auth` calls hold a slot (`RejectsOnlyOverflow`). The capture buffer overflows exactly when a response's writes add up to more than `max_auth_body`, and otherwise keeps every byte (`CapturerMatchesSize`). |
| webhook_order | `WebhookDelivery_order.cfg` | violation | `AppSeesFinalOccupancy` fails. Occupied then vacated in the same millisecond, with the vacated POST arriving first, leaves an application that orders by `time_ms` believing the channel is occupied. |
| handshake_protocol | `Handshake_protocol.cfg` | violation | `ProtocolCheckMatchesVersion` fails: `protocol=10` is refused as unsupported, because `"10" < "5"` as strings. |

Each passing property has a mutant in `PROJECT.json`. A mutant is a variant
operator written next to the definition it replaces, and TLC finds the
property violated under the mutant. The variants are:

- `SendToUnbounded`: a send that ignores the queue bound.
- `UnsubscribeOpKeepsClient`: an Unsubscribe that leaves `sm.clients` alone.
- `UnsubscribeOpSkipsPresence`: an Unsubscribe that skips the presence
  handler.
- `UnsubscribeOpVacatedBeforeDelete`: tests for an empty channel before the
  delete.
- `UnregisterSkipUnbounded`: drops the loop bound.
- `UnregisterSkipIgnoresCancel`: drops the `ctx.Done` case.
- `MemoryBrokerPublishUnbounded`: ignores the bus capacity.
- `MemoryBrokerPublishDropsSilently`: the full-bus case returns nil.
- `PublishUnbounded`: ignores the pending channel's capacity.
- `ReadMsgKeepsHead`: forwards a message without taking it off the channel.
- `ForwardCancelAbsent`: the send on `out` without its `ctx.Done` case.
- `AcquireOffByOne`: `<=` in the semaphore test.
- `ResetKeepsBody`: a pooled capturer keeps its body.
- `CapturerWriteOffByOne`: `>=` in the body cap.
- `RefusalOffByOne`: `>` for the half-open request limit.
- `CompleteKeepsSlot`: never releases the semaphore.
- `UnregisterStartNoMembership`: Unregister without the `h.clients`
  membership check, so a rejected client decrements `conns`.
- `NewHubShardsUnclamped`: NewHub without the clamp to 64.

### Bounds
- **Two clients and two shards** are enough to show every Hub race found
  here:
  - two handshakes against one slot;
  - a subscribe in flight against an Unregister;
  - a Hub blocked on one shard while the other stops.
- **One PHP call and a bus of one.** A broadcast_multi over two channels
  fills the bus with its first message and finds it full with its second,
  unless the Hub drained it in between. With cancellation and a reload,
  the same call can also meet a closed broker, a missing hub or a newer
  hub. hub_live has one client so that the PHP thread, shutdown and
  liveness fit in a run; the two-client races are in hub_safety and the
  violation runs.
- **ModuleConfig's directives** take `num_shards` at -1, 0, 3, 64 and 65
  and NumCPU at 1, 3 and 40: below, inside and beyond both clamps, on the
  default path and the explicit one.
- **A queue capacity of 1** makes `Send`'s drop reachable with a single
  frame.
- **Three clients in sm_safety** give a presence channel with two clients of
  one user plus an observer, so both "still present" and "last leave" happen.
- **RedisBroker.** `OutCap` 1 and `PendCap` 2 make every blocking send
  reachable. Two outages cover "lost while down" followed by a resubscribe.
  The backoff run raises `MaxAttempt` to 40, past the wrap at 34. The
  arithmetic itself is checked for every exponent pair in 0..63 by
  redis_safety.
- **AuthProvider.**
  - Two slots and three callers make the rejection reachable.
  - 7 calls are enough for 5 failures to trip the breaker, an expiry, and
    a probe racing a call from the closed generation.
  - A 200 writes one body of exactly `max_auth_body` in the callers'
    runs, because a second body shape makes the state space too large.
    The cap itself is checked on its own: `CapturerMatchesSize` runs every
    response of up to three writes of 0..3 bytes (cap 2) through
    `Served`, from the capturer a caller holds.
- **WebhookDelivery.** Two events and a clock of one millisecond give
  both equal and different stamps.
- **Handshake.**
  - The queries `4`, `5`, `7` and `10`, plus none, cover both sides of the
    version check, including the two-digit case.
  - The clock readings 1.23, 1.99, 1.100 and 12.3 cover a shorter fraction,
    a longer fraction, and a longer seconds part of the socket id.

Symmetry over clients (and users, and auth callers) is used only in safety
runs. It is not sound together with the liveness checks.

### Fairness

Go runs every goroutine whose select has a ready case, so the model assumes
weak fairness of three kinds of goroutine:

- the Hub loop;
- the shard loops;
- each client's internal steps: Register, a read that fails on a connection
  the server closed, and Unregister.

Peers and publishers get no fairness: a peer may stay connected and silent
forever. `ShutdownCompletes` therefore assumes, in the property itself, that
every peer eventually hangs up.

In RedisBroker, the subscriber goroutine and the Hub's reads are weakly
fair. The exception is `ChannelClosed`, which the server decides. The
server's outages and the publishers get no fairness. The auth, webhook and
handshake runs check safety only, so they assume no fairness.

## Not modelled (yet)

- **`AuthenticateUser`.** This is the HMAC-SHA256 of `socket_id::user::user_data` (`src/auth.go:125`).
  It is a pure function of strings with no shared state.
- **Worker dispatch timeouts.** A timed-out worker call is one more failed
  response; the model does not separate it from other failures.
- **The handshake limiter's token bucket.** It is the environment's choice.
- **Protocol validators and metrics.** These are pure checks or counters
  with no concurrency. Metrics are also outside the spec's scope.
- **Shutdown does not wait for every counted connection.** Register
  calls `conns.Add(1)` and `wg.Add(1)` on consecutive lines
  (`src/hub.go:154-155`). In HubSystem, a client counted but not yet added
  to the WaitGroup lets `wg.Wait` return, ending Hub.Run, while `h.conns`
  is 1. Spec section 5 says the shutdown waits for the connection count to
  drain. The behaviour is RegisterCount, Cancel, HubShutdown, HubStopped.
  There is no violation run for it.
- **Configuration edges seen in ModuleConfig, without a run.**
  - `ping_period` of `"0s"` or less is accepted, and writePump's
    `time.NewTicker` panics on it (`src/caddy.go:163`,
    `src/module/client.go:249`).
  - Only a zero is replaced by a default, so a negative `max_connections`
    rejects every connection and a negative `max_auth_body` denies every
    authorization (`src/caddy.go:139`).
  - An explicit `num_shards` of 1..3 is not raised to 4, although spec
    section 8 says it is clamped to `[4, 64]`. NewHub's upper clamp is what
    keeps the bitmap sound, and `ShardsFitBitmap` checks that.
- **The writePump's ping ticker and write errors.**
- **Payload-size limits on client frames.** They only drop a request.
  Hub.Publish's limits are one verdict per PHP call, not per channel.
- **More than one newer config.** A reload is one newer hub; a second
  reload would swap in a third hub, which the old Cleanup's compare treats
  the same way.
- **Divergences seen in the models, but without a run of their own.**
  - Spec invariant 2 fails: a client that subscribes to a presence channel
    again with another `user_id` leaves the first one on the roster with no
    client (`src/mod/subscription.go:179`).
  - The round-trip law of spec section 8 fails: Unsubscribe deletes
    `channels[ch]` but never `presence[ch]` or `clientToUser[ch]`
    (`src/mod/subscription.go:172`).
  - Socket ids are not monotonic: `"1.100"` sorts before `"1.23"`, because
    the nanoseconds are not zero-padded (`src/caddy.go:244`).
  `PROJECT.json` lists them as hazards.
- **Spec invariant 5.** `member_added` and `member_removed` exactly once per
  transition is still planned, in SubscriptionManager.
