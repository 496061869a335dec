# TLA+ models of TunnelMesh

This directory holds TLA+ models of the TunnelMesh sources under `src/`, the
TLC configurations that check them, and `PROJECT.json`. `PROJECT.json` maps
every modelled definition to the source lines it translates, and lists the
runs, mutants, findings and hazards.

## The system

TunnelMesh is an overlay mesh network. Its parts:

- **Coordinator.** It holds the peer directory (register, heartbeat,
  deregister, mesh-IP allocation), issues tokens (`internal/coord/auth.go`),
  serves the admin API (`internal/coord/admin.go`, including WireGuard
  clients and the DNS cache) and runs the relay hub. Only the admin and auth
  files are in `src/`. The directory and coordinator-client code appears here
  only through its tests.
- **Peer daemon.** `src/unnamed/part_003` holds `runJoin`, `heartbeatLoop`,
  `syncDNS` and `runLeave`. The daemon registers, heartbeats every 30 s and
  re-syncs its DNS resolver after every successful heartbeat. Its main
  goroutine waits for a signal and then deregisters.
- **Peer-list consumers.** The Prometheus service-discovery generator (the
  second `main` in `part_003`) polls the directory and rewrites a targets
  file. The benchmarker (`cmd/tunnelmesh-benchmarker/main.go`) polls the
  directory, picks up to N random peers and benchmarks each.
- **Peer routing.** `internal/peer/ssh.go` (`ensurePeerRoute`) resolves a
  peer's mesh IP from the directory. It retries with backoff and falls back
  to a cache. `src/unnamed/part_005` reacts to UDP session invalidation by
  disconnecting and rediscovering.
- **Benchmark engine.** `internal/benchmark` holds the client, the wire
  protocol and the chaos writer (`src/unnamed/part_006`). It runs an
  upload/download session between two peers over one TCP connection:
  - the client sends `Start` and waits for `Ack`;
  - it streams `Data` chunks, or receives them;
  - it probes latency with `Ping`/`Pong`;
  - the session ends with a `Complete` exchange.

  A chaos writer can wrap the upload stream. It drops writes, paces them
  with a token bucket, and delays them by latency plus jitter.
- **Configuration** (`internal/config`). It gives the coordinator its
  token secret, which `Validate` requires. It gives each daemon its DNS
  setting.
- CLIs, QR rendering, the TUN stubs and Terraform make up the rest.

## Modules

### `ChaosWriter`: chaos writer and token bucket (`src/unnamed/part_006`)

State:
- the bucket (`tokens`, `lastUpdate`);
- the writer's `stats`;
- where the one caller's `Write` is (`pc`: idle, pacing, delaying);
- the wait the last `Take` returned (`lastWait`, a history variable).

Time is discrete. One tick is `1/BandwidthBps` seconds. With this unit the
refill `elapsed*rate` is one token per tick, `maxTokens` is `BandwidthBps`,
and the wait `deficit/rate` is `deficit` ticks. The integer model therefore
computes exactly what the float code computes.

Actions:
- `Write(n)` is lines 104–127: the stats update, the loss draw (a
  nondeterministic choice), and `bucket.Take` with its sleep.
- `Pace` is the end of that sleep and the latency+jitter draw (129–148).
- `Deliver` is the underlying write and `ActualBytes` (150–158).
- `Tick` advances time.

The program uses the writer from one goroutine (`runUpload`), so the model
has one caller. `Reset` is never called and is left out.

### `BenchmarkProtocol`: one benchmark session (`client.go`, `benchmark.go`)

Client state:
- `cpc`, the client's position in `Run` / `runUpload` / `runDownload` /
  `measureLatency`;
- the code's locals: `sent`, `seqNum`, `received`;
- the latency samples;
- whether a read deadline is set;
- ctx cancellation;
- the `Result`.

Server state: `spc`, with the accepted direction and size and its counters.

The connection is two byte streams, `c2s` and `s2c`, with a closed flag
for each side. Each side writes a frame with `WriteMessage` and reads one
with `ReadMessage` and the `Decode` of its type (`BenchmarkWire`, through
`Put`, `Ready`, `Got` and `Rest`). A read waits until a whole frame has
arrived. A frame whose `Decode` fails is handled as the code handles that
error: `Run` fails, except inside `measureLatency`, whose error the caller
ignores.

`measureLatency` is a subroutine with a return label (`mlRet`) and is split
in two actions:
- `SendPing` writes the Ping and sets the 5 s deadline;
- `ReadPong` reads one frame and keeps a sample only if it is a Pong.

Each loop iteration of `runUpload` and `runDownload` is two steps: the
`select` on `ctx.Done()` at the loop top (`UploadCancelled` or
`UploadProceed`, `DownloadCancelled` or `DownloadProceed`, which also sets
the 30 s deadline), and then the I/O (`UploadData` writes one chunk,
`DownloadRead` blocks in one read). The selects are the only places the
client looks at ctx: a cancel that lands while the client is writing a
chunk or blocked in a read is seen at the next loop top, if there is one.

Faults:
- `DialFails`;
- `ClientReadTimeout`: a read deadline expires while nothing has arrived,
  possible only once a deadline is set;
- `ServerReadTimeout`;
- `Cancel`;
- chaos drops, inside `UploadData` when loss is configured;
- write errors on a conn the server has closed.

The server's source (`server.go`) is not in the repository. Its
per-connection handler is modelled from the protocol description and from
`server_test.go`, and is marked `spec_modelled`:
- accept a valid `Start` with `Ack`;
- upload: count Data, answer Ping with Pong echoing the seq, and answer
  Complete with `Complete{received}`, then close;
- download: before each chunk, poll the connection for a Ping for
  `PingCheckTimeout` (100 ms, `benchmark.go:21`) and answer one with a Pong
  (`ServerDownloadPing`); with no Ping waiting, send the next chunk
  (`ServerSendChunk`); after the last one, `Complete`, then close. The
  client's download test (`client_test.go:48`) runs against this server and
  expects a success. A Ping that has not arrived by the poll still races
  the first chunk, as it does in the code.

Abstractions:
- Sizes are in units with `ChunkSize` per chunk.
- The ping period is the constant `PingInterval` (10 in the code, 2 in the
  runs). This lets a three-chunk upload ping at the start, inside the loop
  and at the end. Every iteration is the same whatever the period.
- The `latency > 0` test on samples is taken as true. A round trip measured
  in nanoseconds is positive.

### `BenchmarkWire`: the benchmark wire codec (`internal/benchmark/client_test.go`)

The protocol code of the benchmark engine sits in `client_test.go`: message
types, one `Encode` and one `Decode` per message, `WriteMessage`,
`ReadMessage`, `writeString` and `readString`. The module has no state. Each
function is an operator over sequences of bytes (0..255):
- `BigEndian(v, k)` is `binary.Write` of a k-byte integer. It is v modulo
  2^(8k), in two's complement, computed byte by byte so that TLC's 32-bit
  integers never overflow. `Unsigned` and `Signed` are `binary.Read`.
- `WriteString` writes `uint16(len(s))` and then the bytes. Strings are
  spelled in ASCII.
- `Encode(m)` is the payload of each type. `WriteMessage(m)` is the type
  byte, the `uint32` length and the payload.
- `Decode(t, d)` reads the fields of type t from the front of d. Its record
  has `ok = FALSE` wherever the Go `Decode` returns an error (the bytes run
  out).
- `HasFrame`, `FrameEnd` and `AfterFrame` are `ReadMessage` on a stream.

Timestamps and durations are written as 0, since the session model does not
track them. The bytes of a Data payload are written as 0. `ReadMessage` has
no length limit, as in the code.

### `PeerRouting`: inbound route resolution (`internal/peer/ssh.go`)

State:
- the directory `dir` (peer to mesh IP) and a bound on its changes;
- the router's `routes` (mesh IP to peer);
- the mesh-IP `cache`;
- the `authorized` keys;
- one `call` record per peer: `pc`, `attempt`, `fails`, the IP the answer
  listed, whether it said not found, and the returned IP;
- the accept loop of `HandleIncomingSSH`: whether it runs (`accepting`),
  whether the node's ctx is cancelled (`ctxDone`), and whether the
  transport listener is still up (`listenerUp`).

Actions:
- `Accept` is a successful `listener.Accept(ctx)`: the connection's
  goroutine starts, and its call is `accepted`.
- `AcceptFails` is a failed `Accept`, which happens once ctx is cancelled or
  the listener is gone. The loop returns if ctx is cancelled; otherwise it
  logs and goes round again at once.
- `CancelCtx` (shutdown) and `ListenerFails` come from outside.
- `Start` is the entry of `ensurePeerRoute` (no client means cache only).
- `ListPeersFails` is one failed attempt of the retry loop with its backoff.
- `ListPeersReturns` is the HTTP answer, taken from the directory at the
  moment it is served.
- `ApplyPeers` scans that answer later: found means AddRoute,
  CachePeerMeshIP and maybe AddAuthorizedKey; not found breaks the loop.
- `Fallback` is the code after the loop: route the cached IP or return "".
- `Register` and `Deregister` change the directory. They are modelled from
  the description (the directory is not in `src/`).

Calls of several peers interleave with each other and with directory
changes. That is how one goroutine per inbound connection runs against a
live coordinator.

### `AdminDNSCache`: WireGuard clients and the DNS cache (`internal/coord/admin.go`)

State:
- the client store (a set of `[id, name, ip]` records) and the IDs it has
  handed out;
- `dnsCache` (name to IP);
- one `handler` per request goroutine, holding its position and client;
- the number of requests served.

Actions:
- Create is `CreateInStore` (the store call, with its 500 errors)
  followed by `CreateDNS` (the cache write under `peersMu`).
- Delete is `DeleteGet` (404), `DeleteInStore` (500 if already gone) and
  `DeleteDNS`.
- `ListClients` (list and sort), `GetClient` (200 or 404) and
  `UpdateClient` are one step each. They leave the store and the cache as
  they are: the update is assumed to keep a client's ID, name and IP.

Each store call is one atomic step. The store (`wireguard.Store`) is not in
`src/` and is modelled from the description: a fresh ID, a free mesh IP,
and unique names.

### `TokenAuthority`: start-up configuration and relay tokens (`auth.go`, `config.go`, `part_000`)

State:
- a clock `now` in ticks, `TPS` ticks to a second;
- the config file's contents and the edits made to it;
- `srv`: the running coordinator's `cfg.AuthToken`, or `Down`;
- `gen`: per peer, the first clock read of a `GenerateToken` call;
- `issued`: every token returned so far;
- `last`: the last `ValidateToken` call, with its time and verdict.

Actions:
- `RunServer` is `runServer`. It applies `LoadServerConfig` (read and parse
  errors, and the `mesh_cidr` default) and `Validate`, then serves with the
  file's auth token, or exits.
- `Shutdown` is the signal goroutine's `os.Exit(0)`. `EditConfig` and
  `Tick` are the operator and the clock.
- `GenerateToken` is two steps, because it reads the clock twice.
  `GenReadExp` takes the reading for `ExpiresAt`, and `GenSign` the one for
  `IssuedAt`, then signs. Both are truncated to whole seconds, as
  `NumericDate` does.
- `ValidateToken(t)` accepts when the HMAC key is the running secret and
  `now < exp`, which is jwt v5's default check. `t` is an issued token or
  one a client signed itself with the empty secret (`Forged`).

`MCTokenAuthority` gives the config files:
- two that start the coordinator, one with each secret;
- one for each reason `Validate` refuses;
- the two that `LoadServerConfig` fails on.

`TokenExpiry` (24 h) is scaled to `Expiry` seconds. Only its relation to
whole seconds matters.

### `PeerDaemon`: join, heartbeat, DNS sync and leave (`part_003`)

State, per daemon:
- the main goroutine `main`: register, initialSync, waiting, shutdown,
  exited or failed;
- the heartbeat goroutine `hb`: off, ticking, syncing or stopped;
- the context's `cancelled` flag;
- the resolver's `records` (peer name to mesh IP).

Shared state:
- the coordinator's directory `dir`;
- bounded counters of faults, coordinator restarts and leaves.

Actions:
- `RegisterFails` covers the early returns of `runJoin` (config, keys,
  Register error).
- `Register` takes a free IP from the directory; when there is none, it
  fails.
- `InitialSync` is the first `syncDNS` and the start of `heartbeatLoop`.
- `Heartbeat` is one tick. Success leads to `HeartbeatSync`, which runs
  `syncDNS` and replaces the resolver's records with the directory. A 404 or
  other error is logged and the loop continues. `HeartbeatStop` is the exit
  on `ctx.Done()`.
- `Signal` and `Shutdown` are the signal wait and the deferred `Deregister`
  plus `cancel()`.
- `Leave` is `tunnelmesh leave`, run from another process.
- Whether a daemon runs a resolver (`DNSEnabled(d)`) comes from its config
  file's dns section through `LoadPeerConfig`'s defaults. The file is
  given by the sets `EnabledSet` and `ListenSet`.
- `DirRegister`, `DirDeregister` and `CoordinatorRestart` are the
  directory. They are modelled from the description: unique IPs and an
  in-memory registry that a restart empties.

### `PeerListConsumers`: SD generator and benchmarker (`part_003`, `cmd/tunnelmesh-benchmarker/main.go`)

The directory is shared (each peer absent, online or offline). Its JSON
`shape` can be an array or an object wrapping `peers`, because the two
consumers decode different shapes.

SD generator:
- `SDGenerate` fetches and decodes (only the object shape decodes), then
  filters online peers.
- `SDWriteTmp` writes `targets.json.tmp`. The tmp file is `Partial` until
  the write returns.
- `SDRename` renames the tmp file over the output.
- `SDTick` is the poll ticker.
- `SDCrash` is a container restart at any point.
- `TargetsFile` is the abstract contract the generator keeps with
  Prometheus. It has the directory, a snapshot `polled` and the output
  `file`, and three actions: `Poll` takes the online peers, `Publish`
  copies the snapshot into the file, and `Change` changes the directory.
  `PeerListConsumers` instantiates it with `polled <- sdTargets` and
  `file <- outFile`. `SDGenerate` is a `Poll`, a successful `SDRename` is a
  `Publish`, and every other generator step is a stutter.

Benchmarker:
- `BStart` is the initial sleep.
- `BFetch` is `fetchPeers`: non-absent peers other than the one named
  `cfg.LocalPeer`.
- `LocalPeer` is `configFromEnv`'s resolution of that name: `LOCAL_PEER`
  when it is set and non-empty, else `"benchmarker"`. The constants `Self`
  (the mesh peer the benchmarker runs on), `LocalPeerEnv` and
  `DefaultLocalPeer` keep the deployment apart from the configuration.
- `BRun` is one `runBenchmark` with `saveResult`.
- `BRoundEnd` and `BTick` are the ticker loop.
- `SelectRandomPeers` is the set of every outcome of the shuffle: injective
  sequences of length `min(|S|, N)`.
- `benched` records every peer ever benchmarked.

### `RelayHub`: the relay server of the persistent-relay tests (`internal/metrics/handler.go`)

`mockRelayServer` runs one handler goroutine per websocket connection. It
keeps a map from peer name to connection, guarded by `mu`, and a buffered
channel `received` that every routed frame is copied to. Its clients (the
peers' `PersistentRelay`, not in `src/`) are modelled from the description.

State:
- per connection: its peer, the client's state, the handler's position, the
  frame being routed and its target connection;
- per connection: the frames the client wrote and the frames routed to it;
- `connections` (peer to connection) and `received` (capacity `Cap`).

Actions:
- `Dial` is the upgrade. Without a bearer token the handler answers 401.
  With one, the client sees an open connection at once.
- `Register` is the insert into `connections[peer]` under `mu`, a step of
  its own after the upgrade. It does not close an older connection of the
  same peer. Between `Dial` and `Register` the client can already send, and
  frames routed to it are dropped.
- `ReadFrame` skips non-SendPacket frames. `Enqueue` blocks on a full
  `received` (the guard `Len(received) < Cap`). `Lookup` reads the map under `mu`, and `WriteRecv` writes
  after the lock is released.
- `ReadError` is the end of the read loop. The deferred function deletes
  `connections[peer]`, whichever connection it holds.
- `SendTo`, `SendHeartbeat` and `Close` are the clients. `TestReceive` is
  the test reading `received`.

## Runs

| run | cfg | expect | what it shows |
|---|---|---|---|
| chaos_pacing | `ChaosWriter.cfg` | pass | With 50% loss, latency, jitter and writes of 1–3 bytes on a 2-byte/s bucket, the bytes written never exceed one burst plus twice the rate (`BandwidthWithinDouble`). |
| chaos_bandwidth_bound | `ChaosWriter_bandwidth.cfg` | violation | `BandwidthBound` (one burst plus the rate) fails: `Take` sets tokens to 0 on a deficit, so the slept deficit is refilled twice. |
| benchmark_session | `BenchmarkProtocol.cfg` | pass | Every caller configuration under every interleaving with faults. A successful upload reports exactly `Size`, and every byte is at the server or was dropped by chaos (`UploadAccounting`). Each stream is whole frames that decode without error and re-encode to the same bytes (`WireRoundTrip`). Without faults an upload always succeeds (`UploadSucceeds`). A run cancelled while it will still pass a ctx check (before the Ack, at a download loop top, in an upload loop with data left after the chunk in hand, or in a ping that returns to one of these) never reports success (`CancelStopsTransfer`). A cancel that lands while the client is blocked in the download read, or writing the last chunk, is not seen, and the run may succeed. |
| benchmark_latency_fresh | `BenchmarkProtocol_latency.cfg` | violation | After a ping deadline expires, the late Pong becomes the next ping's sample (`LatencySampleFresh`). |
| benchmark_cancel_returns | `BenchmarkProtocol_cancel.cfg` | violation | Against a peer that accepts and never answers (`SpecUnresponsivePeer`), a run cancelled while it waits for the Ack never returns (`CancelReturns`). |
| peer_routing | `PeerRouting.cfg` | pass | With concurrent calls, a failing directory and re-registrations, a call falls back only after five failed attempts or a not-found answer (`FallbackOnlyAfterBudget`), and every accepted call returns, and the accept loop returns once ctx is cancelled, also after the listener has failed (`CallsTerminate`). |
| admin_dns_race | `AdminDNSCache_race.cfg` | violation | With two request goroutines, a delete between a create's store write and its DNS write leaves a record for a deleted client (`DNSMatchesStore`). |
| daemon_dns | `PeerDaemon.cfg` | pass | Three daemons sharing two IPs, with failures, a coordinator restart and a leave. A registered, waiting daemon's resolver eventually equals the directory (`ResolverConverges`). |
| daemon_rejoin | `PeerDaemon_rejoin.cfg` | violation | After a coordinator restart a waiting daemon is never registered again (`Rejoined`). |
| relay_hub | `RelayHub.cfg` | pass | Clients dial, send, reconnect and close against the test relay server while the test reads `received` at its own pace: every handler stays within its states and the channel never holds more than its capacity (`TypeOK`). |
| token_authority | `TokenAuthority.cfg` (module `MCTokenAuthority`) | pass | Across config edits, failed starts and restarts with another secret, only issued tokens are accepted, never one signed with the empty secret (`AcceptsOnlyIssued`). No token is accepted more than `TokenExpiry` after its `IssuedAt` (`NoAcceptBeyondLifetime`). |
| peer_list_consumers | `PeerListConsumers.cfg` | pass | The SD generator implements `TargetsFile` across crashes and failed writes (`TargetsFileRefinement`). Once the directory, failures and crashes stop, the file comes to list exactly the online peers (`TargetsCatchUp`). |

Every property of a passing run has a mutant in `PROJECT.json`. A mutant is
a plausible bug in the mapped code that TLC must catch under the same
configuration:
- a `Take` without the refill clamp;
- a `Pace` that skips the bandwidth sleep;
- an upload loop that does not shorten the last chunk;
- a final read that accepts any frame as the server's Complete;
- an upload that never sends its Complete;
- an upload loop top without the `select` on `ctx.Done()`;
- a relay handler that sends on `received` without waiting for room;
- a `writeString` that writes the length in one byte;
- a retry loop one attempt too long, and one an attempt too short;
- a not-found answer that is retried;
- an accept loop that continues on every error, ctx cancelled or not;
- a `syncDNS` that swaps names and IPs;
- a heartbeat that skips `syncDNS`;
- a `fetchPeers` that keeps the local peer;
- an SD generator that writes the output in place;
- an SD generator that lists every registered peer, online or not;
- a `Validate` that does not require `auth_token`;
- a `GenerateToken` that reads `IssuedAt` before `ExpiresAt`;
- a `GenerateToken` that keeps `ExpiresAt` in clock ticks, not seconds.

## Bounds

ChaosWriter:
- 4 writes, 8 ticks and a 2-token bucket cover full takes, deficits, waits
  longer than a bucket, drops, and jitter on both sides of the latency.
- The bandwidth counterexample needs 2 writes.

BenchmarkProtocol:
- Size 5 with chunks of 2 is three chunks, the last one short.
- The channels are bounded by the protocol itself: the client writes at
  most `Size/ChunkSize + 4` frames.
- Frames carry every message type the session sends: Start with both
  direction strings, the accepting Ack, Data, Ping, Pong and Complete. The
  rejecting Ack is never written, because `Run` validates the direction
  before it dials, so the round trip covers only the accepting one. `Size`, `seq` and the counts
  stay small, so the upper bytes of the wide fields are all zero. A
  one-byte length or a wrong field width still misaligns the stream at
  once.

PeerRouting:
- Two peers and two IPs allow a freed IP to be reassigned to the other peer.
- The retry budget is the code's 5.

AdminDNSCache:
- The race needs 2 handlers and 4 requests.

RelayHub:
- Two peers, three connections, a channel of capacity 2 and three frames.
  A peer can dial twice while the other sends to it, and three frames can
  meet a full channel. Peers and connections are symmetric model values;
  with the symmetry the run takes 4.5 M states and about a minute.

PeerDaemon:
- Three daemons and two IPs: the pool runs out (`Register` fails), and a
  left or restarted daemon's IP goes to another one.
- One fault, one restart and one leave each reach every error path. Their
  combinations reach 1.9 M states in about two minutes.

TokenAuthority:
- Two ticks to a second and a one-second lifetime. The two clock reads of
  `GenerateToken` can then fall on the same second or on both sides of a
  boundary, and a token can be validated before, at and after its expiry.
- Two secrets, one restart and one edit allow a restart with another
  secret, and a restart after an edit that `Validate` refuses.
- Six ticks, two tokens; 490 k states in seconds.

PeerListConsumers:
- Four peers: the local one and three candidates for a selection of at most
  two, so the shuffle really chooses.
- Two directory changes, one fault and one crash.

## Fairness

`BenchmarkProtocol` assumes weak fairness of the client's and of the
server's fault-free steps. Goroutines get scheduled, and TCP delivers what
was written.

Faults (dial errors, deadline expiry, cancellation) are not fair. A timer
does fire eventually, but a fault-free run is exactly the case
`UploadSucceeds` is about. `UploadSucceeds` is stated as "eventually a fault
occurs, or the upload succeeds".

`SpecUnresponsivePeer`, the specification of `benchmark_cancel_returns`,
drops the server's fairness: the peer is another process, and a listener
whose accept loop has stopped still completes the TCP handshake from the
kernel backlog. It keeps the client's own steps fair, and also
`ClientReadTimeout`, because a deadline that is set does expire.

`PeerRouting` assumes weak fairness of each call's steps. The goroutine
runs, and each HTTP request returns or fails by its timeout. It also assumes
weak fairness of `AcceptFails`: the accept goroutine runs, and a transport
`Accept(ctx)` returns once ctx is cancelled, as the description requires of
blocking I/O. New connections, shutdown and listener failure are not fair.

`PeerDaemon` assumes weak fairness of each daemon's main-goroutine steps and
heartbeat steps. The ticker fires and HTTP calls return. Signals, faults,
coordinator restarts and leaves are not fair, because nothing forces them.

`PeerListConsumers` assumes weak fairness of the SD generator's own steps:
its goroutine runs and its ticker fires. Directory changes, failures and
crashes are not fair. The benchmarker has no fairness, because no property
is about its progress.

`AdminDNSCache`, `RelayHub` and `TokenAuthority` check only safety.

## Findings

1. **Code bug, and a gap in the description.** `TokenBucket.Take` zeroes
   the bucket on a deficit (part_006:58). Its comment says "go into
   deficit". The limiter lets through up to twice the configured
   bandwidth. The description's own token-bucket algorithm (§4.C) also
   prescribes `tokens = 0` on a deficit, so the code follows a flawed
   description. Its stated guarantee (a paid-for wait covers the next take)
   is what `BandwidthBound` checks.
2. **Divergence from the description.** `measureLatency` never checks the
   Pong's seq (client.go:300). A late Pong becomes the next sample. Before
   the final Complete, it fails an upload with "expected Complete, got Pong".
3. **Divergence from the description.** After a not-found answer,
   `ensurePeerRoute` (ssh.go:94) still falls back to the cache. It routes
   the peer's old mesh IP, which the directory may have given to another
   peer. `NoRouteAfterNotFound` states it. The runs listed in
   `PROJECT.json` do not include this check, but
   `tlc -config PeerRouting_notfound.cfg PeerRouting` finds it violated.
4. **Code bug.** `handleWGClientCreate` (admin.go:206) writes the DNS record
   in a critical section separate from the store write. A concurrent delete
   in between leaves a record for a client that no longer exists.
5. **Divergence from the description.** `heartbeatLoop` logs a 404 after a
   coordinator restart and continues (part_003:374). It never registers
   again, so the directory is not rebuilt from re-registration. The
   `continue` also skips `syncDNS`, so the resolver stays stale.
6. **Divergence from the description.** `Run` reads the Ack (client.go:73)
   with no deadline set and without watching ctx. The description asks for
   a deadline on every read and for cancellation to reach child tasks
   through them. Against a peer that accepts the connection and never
   answers, a cancelled run, such as one hit by the benchmarker's 120 s
   timeout, never returns (`CancelReturns`).

Observation without a run:
- The description says a paid-for wait covers a following take of up to
  `rate*wait` tokens. The refill clamp (part_006:42) breaks this for writes
  larger than one second of bandwidth.
- The description says a token is valid for every `now` in
  `[iat, iat + 24h]`. `GenerateToken` (auth.go:26) reads the clock for
  `ExpiresAt` before the read for `IssuedAt`, and both are truncated to the
  second. When the two reads fall on both sides of a second boundary,
  `exp = iat + 24h - 1s`. Since jwt accepts only `now < exp`, the token is
  refused up to a second before the end of that window. With one-second
  tokens, `TokenAuthority` reaches a token with `exp = iat`, refused as
  soon as it is issued. The check (`now <= iat + 24h`) that does hold is
  `NoAcceptBeyondLifetime`.
- `LoadPeerConfig` (config.go:98) cannot tell `enabled: false` from an
  absent `enabled`. With the default listen address, DNS is enabled even
  when the file disables it. `PeerDaemon.cfg`'s daemon p1 takes this path.
  Nothing in `runJoin` calls `PeerConfig.Validate`, so an MTU or SSH port
  out of range is not refused.

## Not modelled, and the plan

The remaining work, in this order:
1. `Directory` as its own spec-modelled module, with `RegisterWithRetry`,
   shown to refine an abstract registry.

Not covered by a property:
- `ReadMessage` (client_test.go:489) allocates whatever length a frame
  announces. The description limits frames to 16 MiB. Both ends of the
  modelled session are this repository's code, and neither announces more
  than a chunk. `writeString` truncates lengths above 65535 to 16 bits.
  No string the protocol carries comes near that.
- `configFromEnv` (main.go:229) defaults `LocalPeer` to `"benchmarker"`.
  Unless `LOCAL_PEER` names the host's registered peer, `fetchPeers` keeps
  the host in the list and the benchmarker benchmarks itself. Whether the
  host registered under that name is a deployment fact, so no property
  states it. `PeerListConsumers.cfg` sets `LocalPeerEnv = b = Self`.
- The relay test server replaces a reconnecting peer's map entry without
  closing the old connection (handler.go:82), and the old handler's
  deferred delete removes the new entry (handler.go:87). The description's
  one-session rule is about the production hub, which is not in `src/`,
  and this server is a test fixture, so `RelayHub` checks only its
  well-formedness.
- The relay test server upgrades a connection before it registers it
  (handler.go:76). `Connect` returns on the client before the server can
  route to it, and the tests sleep 100 ms to cover that window.
- The SD generator decodes only the object shape and the benchmarker only
  the array shape (part_003:506). Against one coordinator, one of the two
  always fails to decode. The model lets both shapes occur, but which shape
  the coordinator serves is not in the repository.

Left out for good:
- the CLIs, the QR code, Terraform and the TUN stubs, which are I/O;
- YAML decoding itself: a config file is modelled by the fields it sets;
- the admin overview handler, which only reads;
- the rest of `configFromEnv` (size, interval, output directory, chaos
  settings) and the start-up printing. `BRun` records no outcome, so these
  values change no modelled state;
- UDP session invalidation, whose callees (`LifecycleManager`,
  `TriggerDiscovery`) are not in the repository.
