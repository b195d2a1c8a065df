# Verification of cloudbridge-client

TLA+ models of the CloudBridge relay client (`src/`, Go), checked with TLC on small
instances, with theorems checked by TLAPS for every value of the constants.

`PROJECT.json` is the index: which definition stands for which lines (`map`), the runs,
a plausible bug for every property (`mutants`, the operators named `Faulty...`), the
hazards of the code and the theorems.

To run one check: `tlc -config PathSelect_single.cfg MCPathSelect` (the run table below
names module and cfg). To check a proof: `tlapm PathSelectProofs.tla`.

## 1. Inventory

The client is one process. The bare command and `tunnel` of `cmd/cloudbridge-client` build a
`relay.Client` and call it with retries; `p2p` builds a P2P manager of its own, `session`
a path selector, `service` touches the operating system only.

| component | state | operations | talks to |
|---|---|---|---|
| path ladder, `pkg/pathselect` | per session: state, handle, path, time of the last failover; per adapter: the session it remembers | `Ensure`, `HealthTick`, `Session.Transition`, `ClearActive`, adapters' `Probe`, `Open`, `Close` | QUIC relay, gRPC relay |
| heartbeat manager, `pkg/heartbeat/manager.go` | running, ticker, stop channel, intervals, failure count | `Start`, `Stop`, `SetInterval`, `SetMaxFails`, `ResetFailCount`, beat loop, state-event loop | `Client.SendHeartbeat`, the client's event channel |
| relay client, `pkg/relay/client.go` | `mu`, connected, identity, token, event channel, the managers | `Connect`, `Authenticate`, `CreateTunnel`, `SendHeartbeat`, `Disconnect`, `Close`, `Reconnect`, `SubscribeState`, `handleConfigChange`, in a gRPC and a deprecated JSON mode | every other component |
| transport, `pkg/relay/transport` | mode, the gRPC client's connection, connected flag and context, two mutexes | `SwitchTransport`, `Connect`, `Disconnect`, the four calls, `Close` | the relay |
| tunnel manager, `pkg/tunnel` | table, ports, listeners, connection count, buffer pool | register, unregister, proxy, handler, two copying goroutines per connection | local applications, the relay's endpoint |
| WireGuard fallback, `pkg/relay/autoswitch.go`, `wireguard*.go` | mode, ticker, callbacks, interface up or down | health check, `ForceSwitch`, `Start`, `Stop`, `Connect`, `TearDown` | operating system |
| P2P manager, `pkg/p2p/manager.go` | the parts it has started, their goroutines, the identity it copied | `Start`, `Stop`, discovery, heartbeat and health goroutines | API manager, QUIC, ICE, mesh |
| mesh, `pkg/p2p/mesh.go` | topology; routing, latency and owner tables; two mutexes | add, update, time and remove a peer; topology pass, routing pass | P2P manager's discovery |
| API manager, `pkg/api` | running, context, session id, identifiers, failures | `Start`, `Stop`, `RegisterPeerWith`, heartbeat loop with re-registration | control plane over HTTP |
| QUIC connection, `pkg/quic` | connection, streams, a mutex held over the network | `Connect`, `CreateStream`, `AcceptStream`, `CloseStream`, `Close` | the relay |
| ICE agent, `pkg/ice` | the agent | `Start`, `GatherCandidates`, `Stop` | STUN and TURN servers |
| configuration watcher, `pkg/config/watcher.go` | current configuration, debounce timer, callbacks | file events, reload, forced reload, `Stop` | `Client.handleConfigChange` |
| authentication, `pkg/auth` | cached keys, or one or two secrets | `ValidateToken` | the OIDC provider |
| errors and retries, `pkg/errors` | attempts | `RetryStrategy` | command line, client |
| service, `pkg/service` | binary, configuration, unit and registration on the machine | `Install`, `Uninstall`, `Start`, `Stop`, `Restart` | systemd, nssm, launchd |
| command line, `cmd/cloudbridge-client` | the call it is in, retries, a signal channel | the commands | all of the above |

**How they interact.** The heartbeat loop calls the client, and the client's events feed
the heartbeat's second goroutine. `CreateTunnel` asks the relay and then registers with
the tunnel manager. `Authenticate` validates the token and, for a mesh login, makes and starts
a P2P manager. The configuration watcher calls the client, which spawns workers that
reconnect or log in. All of them share `Client.mu`. The P2P manager owns the API manager,
the ICE agent, the QUIC connection and the mesh, starts them in that order and stops them
under its own mutex; its discovery feeds the mesh, and its heartbeats carry the identity
that it copied from the API manager. The gRPC path adapter has a transport manager of its
own for every session.

**What is hard here.** Goroutines without a join (heartbeat loops, proxies, copiers,
reload workers, switch callbacks); a mutex held over network calls and taken again by
the methods that are called with it held; decisions on state read before a network
operation and used after it; deadlines that race late answers; a bounded pool, ports
and tickers to give back on every path.

**What makes each part correct.**

* *Path ladder*: a session that may carry data has the connection it names; nothing
  leaks; the ladder's order is a policy that a flapping network does not bend; a
  healthy path is never left.
* *Heartbeat*: one ticker; no beat after a stop; it gives up at the limit; its pace has
  bounds.
* *Client*: the mutex comes back on every path; one handshake at a time; `connected`
  tells the truth; a request carries one identity; calls return.
* *Tunnels*: one tunnel per port; a buffer has one user and carries nobody's bytes to
  the next one; the count is exact; a removed tunnel winds down.
* *Fallback*: the mode has its tunnel and follows QUIC's health; no interface is
  forgotten; each switch is told once.
* *Transport and openings*: no call finds a nil connection; a close is final, for dials it
  overtook as well; an opening leaves a whole transport or nothing.
* *API manager*: a beat presents one registration, whole; every outage heals; a stopped
  manager stays stopped.
* *P2P manager*: a start outlives outages; a stop ends every goroutine and closes every part.
* *Mesh*: the three tables agree, no route outlives its owner, a detour ends when it is not
  needed.
* *QUIC connection*: nobody waits on a connection that was replaced; a close returns.
* *Watcher*: the last write wins, and the client follows it.
* *Authentication*: a good token is turned away only for a reason.
* *JSON mode*: calls that take the mutex get their own responses.
* *Service and commands*: an install that reports success is whole; a command that was
  signalled ends, with its client closed, unless the client's mutex is stuck (disagreement 3)
  or a silent relay is waited for without a deadline.

## 2. Plan

Order, most important behaviour first. All of these are built.

1. `SessionPromise`, `PathSelect`: the ladder and the abstract session it implements.
2. `HeartbeatManager`, 3. `RelayClient` with `ClientPromise`, 4. `TunnelManager` with
   `TunnelPromise`, 5. `AutoSwitch`.
6. *P2P*: `ApiPromise` and `ApiManager`, which implements it; `P2PManager`, which knows the
   API manager by that promise; `MeshNetwork`; `QuicConnection`.
7. *Around the client*: `TransportStack` with `TransportPromise`, `TunnelOpening` over it,
   `LegacyClient`, `ConfigReload`, `AuthManager`, `CommandLine`, `ServiceInstall`.
8. Proofs: a module for each of 1 to 5; `LifecycleProofs` for what starts and stops,
   `SharedStateProofs` for the transport, mesh and authentication, `LegacyServiceProofs` for
   the JSON mode and the service.

Left, in the order of what they would add: a composition of `HeartbeatManager` with
`RelayClient`, whose self-deadlocks decide whether a beat returns; abstract specifications
of the fallback and of the mesh; the transport auto-switch, handover and SLO decisions,
should a program come to construct them.

## 3. Modules and code

The modules use one convention: a critical section of a mutex that waits for nothing
is one action; a section that waits for the network owns the mutex from one action to
the next; a read outside the mutex is a step of its own. Formatting, logging and metrics
are left out.

### PathSelect and SessionPromise

| variable | code |
|---|---|
| `state`, `active`, `activePath` | `Session.State`, `.Active`, `.ActivePath` |
| `cooling` | `time.Since(Session.LastFailover) < FailoverCooldown` |
| `adapter` | `RelayQUICPath.active`, `GRPCTunnelPath.active` |
| `live` | the connections nobody has closed |
| `up` | what the network lets a probe or a dial of through, the environment's choice |
| `call` | the `Ensure` or `HealthTick` that holds `LadderSelector.mu` |

`EnsureBegin`, `TickBegin` start a call; `ProbeRung`, `OpenFails`, `OpenSucceeds`,
`LadderExhausted`, `HealthOK`, `HealthFailsInCooldown`, `HealthFailsReladder` are the
steps between its network operations, with `NetworkChange`, `CooldownPasses` and
`DeadlineExpires` in between. `call.usable` is a history: the paths that were up at
every moment since the call began.

Decisions:

* `Session` is "Not concurrency-safe; Selector serializes" (`types.go:89`), so its
  owner's `Transition` and `ClearActive` do not run while a call is using that session,
  and the owner clears a session only when it is failed or closed.
* `Path.Close` has no caller outside the tests and is not modelled.
* The gRPC path needs no token (`openGRPCTunnelSession` skips authentication when it is
  empty), relay QUIC does.
* Calls that refuse at once (selector disabled, no order, nil arguments) change nothing
  and are not steps.

`SessionPromise` is what the owner of a session sees: a phase and a carrier, which only
a search may change. `PathSelect` implements it under the mapping `PhaseOf`.

### HeartbeatManager

Fields are named as in the code; `ticking` and `closed` are the runtime's view of
tickers and channels. `heartbeatLoop`'s select evaluates `m.stopChan` and `m.ticker.C`
outside the mutex: `LoopReadsStopChan`, then `LoopReadsTicker`, then it waits on what it
found until `LoopStops` or `LoopTicks`. `go.mod` asks for Go 1.25, so a stopped ticker
delivers no stale tick. Two generations of goroutines exist at once because `Stop` does
not wait for them. `misses` is a history: beats that failed in a row. The jitter is a
member of a set of percentages and time is in hundredths of a second.

The model has the behaviour where a loop waits on the ticker it read while
`SetInterval` or a state event replaces that ticker: that loop never beats again,
although the manager runs. For this reason no property here promises the next beat.
`SendManualHeartbeat` and the getters change nothing and are left out.

### RelayClient

`lock` owns `Client.mu` (a `sync.RWMutex`, which a goroutine must not take twice, in
either mode); `connected`, `identity`, `token`, `subscribed`, `events` are the client's
fields; `meshToken` is the token of the P2P manager that the last mesh login made; `link` is the gRPC transport's own flag; `services` is FALSE once `Close` has
stopped auto-switch, configuration watcher and metrics. `at` says where each goroutine
is. `Wedged` is where a goroutine waits for a mutex it holds: `SendHeartbeat`'s time
stamp (`client.go:704`), `Disconnect`'s event (`579`, `1178`) and `Reconnect`'s call of
`Disconnect` or `Connect` (`1149`, `1154`).

Connect's check, dial, hello, installation and announcement are steps of their own,
since the mutex is free between them. A reload's workers are idle threads: `redial`
goes through `Disconnect` and then `Connect`, `reauth` through `Authenticate`.

A login whose token asks for a mesh goes on to `InitializeP2PManager`, without the mutex, with
whatever token the client has by then; the manager of an earlier login is replaced
without being stopped. This module has the gRPC mode; the JSON mode is `LegacyClient`'s,
and a mode that changes in use (`SetTransportMode`) is not modelled.
`ClientPromise` is the client as its callers may picture it: connected or not, one login, at most
one request on its way. A request shows while its goroutine waits for the relay. The mutexes of the other managers are leaves: none is
held while `Client.mu` is asked for. `StartHeartbeat` and `StopHeartbeat` only forward
to `HeartbeatManager`'s `Start` and `Stop`.

### TunnelManager

`tunnels`, `port`, `active`, `count` are the code's; `bound` says who listens on each
port, another process included; `proxy`, `handler` and `dir` say where each proxy,
connection handler and direction is; `pool` is the buffered channel of
`BufferManager`; `dirty` the buffers that hold somebody's bytes. `BeginRegister` binds
the port to probe it, `Register` releases it and enters the tunnel; `Listen` binds it
again later, in the proxy's goroutine, and may fail. `TunnelPromise` is a table of
ports and the buffers that are lent; `PortOf` and `BufferOf` read both off the state. A direction signals before its
deferred `ReturnBuffer` runs, so it can outlive its handler. Byte counts and
`LastUsed` are left out.

A direction that ends does not close the other one's socket (`manager.go:400` waits for
both), so a half-closed connection keeps its handler; the model has this, and for that
reason no property promises that a handler returns.

### AutoSwitch

`mode` is `currentMode`, `connected` the WireGuard manager's flag, `link` the interface
as the kernel has it, `running` that `Stop` has not cancelled the context, `gauge` the
metric the client's callback sets (`client.go:165-177`). `lock` owns
`AutoSwitchManager.mu`, which a health check, `ForceSwitch` and `Stop` hold over all they
do; `at` is the call each goroutine makes, and `stage` the check or external command its
owner waits for: `Check`, then `Look`, `Create`, `Configure`, `Raise` and `Undo` for
`Connect`, or `Lower` and `TearDown`. A command succeeds if `able`; `Configure` is three
commands and may fail at any of them, which differ only in settings of the interface
that nothing reads. `pending` counts the callbacks that were spawned: `go
callback(oldMode, asm.currentMode)` evaluates its arguments at once, so a callback is
late but never wrong about its own switch. `Crash` kills the process and starts another,
which finds the interface. `stray`, `balance` and `overlapped` are histories.

Decisions:

* `NewClient` starts the manager, with WireGuard enabled and its tools installed; with it
  disabled there is no loop and `ForceSwitch` only fails.
* An interface is made and removed by this program only. One that an operator deletes
  under a connected manager is not noticed by the code either.
* A loop that waits for the mutex while `Stop` holds it makes its check afterwards, and
  may connect WireGuard or switch back in a stopped manager. `go.mod` asks for Go 1.25, whose stopped
  ticker leaves no tick behind, so there is at most one such check.
* `ModeHasTunnel` says nothing of a mode after `Stop`, which tears the tunnel down and keeps the mode.
* A link that was left behind is adopted as it is, up or not (`wireguard.go:54`); `stray` marks it.

### ApiManager and ApiPromise

`apiRunning`, `apiCancelled`, `session` and `ids` are the manager's `running`, `ctx`,
`sessionID` (set or not) and its pair of identifiers; `apiLocked` says that `Stop` keeps
`Manager.mu` over its request. `apiAt` is where each goroutine is, and `held` the
identifiers that its request or its answer carries; `fails` is the loop's count. The relay
is `relayUp` and `remembers`, and it takes a beat for a registration it remembers.
`ApiPromise` is what the P2P manager relies on: one registration at a time, service only
when registered, and never again after a stop.

Decisions: a request is one step of waiting, since its attempts (`client.go:238`) change
nothing; identifiers are random, so the next unused one stands for any; `Start` and
`Stop` have one caller, the P2P manager, while `RegisterPeerWith` may be called by anybody; the
goroutine of the deprecated heartbeat path does nothing and is left out.

### P2PManager

`mainAt` is the goroutine of `runP2P` in `Start`, in `Stop` or between; `loops` the
goroutines that run; `iceOpen`, `quicOpen`, `meshOpen` the parts that hold something;
`writing` and `monitorAt` say who has the manager's `RWMutex`; `peer` and `reported` are
the identity that `Start` copied and the one the last beat carried, each copied whole where
the code reads the peer's id and the session one after the other (`manager.go:170`, `173`). The API manager is
`ApiPromise` under `api...` variables: `ApiRegisters` and `ApiStart` are the two steps of its
`Start`, `StopApi` its retirement, so that the manager's use of it is a behaviour of the promise
(`ManagerUsesPromise`) and what `ApiManager` implements (`ApiImplementsPromise`) is what the
P2P manager is given. `meshSetting` is "untimed" for every token that asks
for a mesh, since neither the token nor `FillDefaults` gives intervals and the mesh
refuses to start without; "timed" is for programs that pass a configuration of their own.

Decisions: the QUIC listener never comes up, for want of a certificate, and
`ConnectToPeer` never gets past `waitForConnection`, so the table of connections stays
empty; `ApplyWireGuardConfig` hands `wg-quick` a path instead of a configuration and
never succeeds, while `l3Ready` is claimed when the configuration has been received.

### MeshNetwork

`known`, `up`, `announces` are the topology, under `MeshNetwork.mu`; `route`, `owner`,
`timed` the three tables, under `router.mu`. An operation writes the first in one step and
the second in another (`meshOp` is what it still has to write); the routing pass (`pass`)
holds only `router.mu` and reads the topology between the two. Reading a Go map that is
being written is undefined: the pass goes on with the old or the new value, or the
runtime ends the process. `Covers` says which prefix holds which address.

### QuicConnection

`conn`, `streams` and `quicMonitor` are the connection, its map of streams and the
goroutine that watches it. Callers of `CreateStream` and `AcceptStream` take the read lock,
wait for the network, change it for the write lock by hand and back for the deferred
unlock: one stage each in `callerAt`. `qWriter` is who has asked for the write lock, which
keeps new readers out. The keeper is whoever connects and closes; a `Connect` on an object
that has a connection replaces it without closing it, as the code does.

### ConfigReload

`file` and `fileEvent` are the file and the event about it; `armed` the timer of 500 ms,
and `early` the reloads that were reading when it was armed, which swap before it
fires. `reloadAt` and `new` are the reloads and what they have read, `current` and
`clientConfig` the watcher's and the client's configuration. `crossed` is a history: two
reloads had the client to call at once, and nothing orders them. A configuration is the
address, the credential and the CA certificate, which the watcher does not compare.

### CommandLine

`commandAt` is the call a command is in, known by its outcome; `currentRetry` belongs to
the client and is shared by all its calls; `signalled` is the channel's content, read
only while serving. The `session` and `wireguard` commands set no handler and defer
nothing. `clientMu` is the client's mutex as far as an exit depends on it: a beat has it from
`SendHeartbeat`'s lock (`client.go:689`), and it is "wedged" for good once the relay has
acknowledged (`704`; `732` in the JSON mode), or once a reload has made the client disconnect
(`579` reports an event that locks at `1178`), which takes a watched file (`ConfigGiven`). The
deferred `Close` begins with the same lock (`586`). `relaySilent` says that no answer comes;
whether anybody waits for one without a deadline depends on the call and on `transport`
(`Untimed`): all that the JSON mode reads from its socket, and the QUIC stream of a mesh login,
which is opened on the manager's own context.

Decisions: `Close` is one step once it has the mutex. The rest of it ends by itself: the
commands of the fallback's tear-down, which are the local system's, and the last push to a
Pushgateway, if one is configured.

### TransportStack and TunnelOpening

`tmLock` and `gcLock` own `TransportManager.mu` and `GRPCClient.mu`, taken in this order
by a switch and by `Close`; `Close` cancels the client's context before it asks for the second. `gcConn`
keeps a closed connection; `opened` and `closedSockets` are the sockets the process has made
and closed. A call checks the flag, fetches the connection and uses it, in three steps.
`TransportPromise` sees the open sockets and whether a `Close` has returned.
`TunnelOpening` runs `openGRPCTunnelSession` on it: `openerAt` is the session's stage, and
`due` and `answer` are the two ends of the goroutine that makes its call and that a
deadline leaves behind.

### AuthManager

`published` is what the provider's key endpoint holds, `jwksCache` the manager's copy,
`validatorAt` where each validation is, `fetched` what it has read and not yet stored. A
token is its key and whether its claims are ours; signature and expiry are the library's.
`excused` is a history of the reasons there are to turn a good token away. With secrets
instead of a provider a validation is one step.

### ServiceInstall

`part` is what the machine has of each part: none, half (a file that was truncated) or
whole. A command is the rest of its platform's plan, one step after the other; each can
fail, and the process can be killed between any two. Uninstall passes over what fails.

### LegacyClient

`mu`, `legacyUp`, `socket` are the client's; `pipe` holds the responses on each socket in
order. `CreateTunnel` and `SendHeartbeat` keep the mutex from the request to the response,
`Connect` and `Authenticate` do not. `exposed`, `mismatched` and `crashed` are
histories: one of the latter two overlapped another call, a call took another's response,
and a nil coder was used.

### MCClientCommands, MCLifecycles and MCSharedState

The components of 6 and 7 share no state in the model, so each behaviour of the last two
modules is one of a single component, named by `focus`; likewise `MCClientCommands` has the
behaviours of `RelayClient` and those of `CommandLine`, which knows the client by the outcome of
its calls and by `clientMu` alone. A component out of focus stays in
one initial state, where none of its fair actions is enabled.

## 4. Runs

| run | question | bounds |
|---|---|---|
| `path_ladder` | does every call climb the rungs in order, to the end, return, and keep the session's promise? | one session, the default ladder of two rungs, hard failover |
| `path_shared` | do two sessions of one selector leak or double a connection? | two sessions, three names, two adapters, soft failover |
| `path_failover` | *violated*: does a failover reach the next path? | as `path_ladder` |
| `hb_core` | ticker, giving up, pace | two generations of two goroutines, limits 1 and 2, one interval, extreme jitters |
| `hb_panic` | *violated*: does a stopping manager stop its loop in order? | as `hb_core` |
| `rc_calls` | handshake, identity, return of calls; is it a client that serves one request at a time? does a signal end a command, and a smoke run itself? | two goroutines, two tokens, a channel of one event; commands: 3 retries, 10 dials, both transports, a watched configuration |
| `rc_heartbeat` | *violated*: is an acknowledged heartbeat recorded? | two goroutines, one token |
| `tunnel_relay` | ports, buffers, counts, late connections; is it a table of ports and clean buffers? | two tunnels, two ports, two connections, three buffers, pool of one |
| `as_fallback` | does the mode follow QUIC's health, with its tunnel and its callbacks, and is no interface forgotten? | two users and the loop, two callbacks waiting, one crash |
| `lifecycles` | does what is started, retried and stopped come up, heal, end, and say the truth meanwhile? | API: owner, loop, one registrar, four registrations; P2P: two registrations; QUIC: two callers, two connections; reload: two at a time, four configurations |
| `shared_state` | does state that several goroutines use stay whole? | mesh: two peers, a network and an address in it; transport: two users, two sockets; two validators, three keys, two of them usable; three platforms; JSON mode: two goroutines, two sockets |
| `tunnel_served` | *violated*: has a registered tunnel a listener? | two tunnels on one port |

What they show, and why the bounds suffice:

* **path_ladder.** `LadderIsExhaustive` and `LadderRespectsOrder` compare a call's result
  with what the network did while it ran: no rung that was up all along is missed or
  jumped. `FailoverIsJustified` says the same of leaving a path. `KeepsPromise` is the
  refinement. With two rungs each is first, last, skipped and failing; three handle
  identities are the most one session, its adapter and a new connection can hold.
* **path_shared.** The third name has no adapter, so rungs are skipped as in a
  configuration with WireGuard. Sessions and identities are symmetric; only invariants
  are checked there. `ActiveIsOpen` is checked for one session only, since it fails for
  two: the adapter closes what it remembers (`relay_quic_path.go:98-100`), which can be
  the connection of another session.
* **hb_core.** Two generations suffice for an old loop to meet a new ticker. With 2 s
  backed off to at most 3 s, jitter moves the first failure's interval both ways and the
  ceiling cuts the second. `MaxCount` caps `failCount` at 2 because the
  limits are 1 and 2 (the code's default of 3 only lengthens the prefix). Four tickers and
  six channels are the most that loops, watchers and the manager can refer to.
* **rc_calls.** Two goroutines make every pair of calls overlap, and a reload's worker is
  one of them. Two tokens let a login replace the one a request or a mesh is using.
  `ClientKeepsPromise` is the refinement of `ClientPromise`, which says in one picture what
  the invariants say of the mutex: nothing moves under a request. In the same run, for the
  commands: the retries run out over all calls together, and beats take the mutex that
  `Close` needs. `CommandsEnd` excuses two kinds of behaviour, and nothing else: somebody who
  holds the mutex waits for it (`clientMu` is "wedged"), as after the first acknowledged beat;
  and a silent relay is waited for without a deadline (`Unheard`), for good. 3 retries let each
  of the three calls fail, and one fail again; 10 dials are the code's own number.
* **tunnel_relay.** Two identifiers and two ports make a registration fail for its
  identifier as well as for its port; a pool of one buffer is empty, full and overflowing
  in turn; with three buffers three of the four directions of two connections copy at the same
  time, and the fourth waits for a buffer (a bound of the model: the code allocates
  one). `TunnelKeepsPromise` refines `TunnelPromise`. Everything is symmetric and no liveness
  is checked; the promise is as symmetric.

* **as_fallback.** A user that forces a mode, one that stops the manager and the loop
  meet at the mutex in every order. Two waiting callbacks are what it takes to deliver
  them in the wrong order, and one crash to leave an interface; a second one finds the
  interface in no other state. `FollowsHealth` says the manager falls back from a QUIC
  that stays down and returns to one that stays up, from every state its users, failed
  commands and a crash can leave.

* **lifecycles.** Four registrations are one for the owner, one for the loop, one for a
  registrar, and one more to replace any. `OutageHeals` assumes what the code cannot give: a
  relay that answers and forgets nobody from some moment on, and a token that validates.
  `StopWindsDown` holds but for `StatusBlocksStop`, a deadlock of the code: the health
  monitor takes the read lock twice and `Stop` asks for the write lock in between.
  `StartOutlivesOutages` leaves meshes without intervals out, whose start fails for ever.
  `BehindIsPending` is the safety that `LastWriteWins` rests on: a watcher behind the file has
  something pending that will catch up.
  `ClientFollows` excuses exactly the reloads that called in the wrong order. Two reloads,
  two callers and two connections are what an overlap takes. 85 thousand states.
* **shared_state.** Two peers that announce the same network, and one that announces an
  address in it, make detours of every kind. Two users meet at each of the two
  mutexes; the proofs cover any number of them. A second socket is what a late dial leaves behind.
  `TransportKeepsPromise` refines `TransportPromise`. Three keys, one of a
  kind the code passes over, let a rotation add, remove and keep. 690 thousand states.

*Fairness.* `PathSelect`: weak fairness of the call in progress, because every probe and
dial carries a context with a deadline (`ProbeTimeout`, `LadderTimeout`); nothing obliges
the network, the clock or a caller. `RelayClient`: strong fairness of each goroutine's
step, because Go's mutex hands itself to a starving waiter after a
millisecond and the RPCs have deadlines of 5 to 15 seconds; nobody is obliged to make another call.
`AutoSwitch`: weak fairness of the ticker, of the owner's
section (its commands and its five-second dial end) and of spawned callbacks, strong
fairness of waiting for the mutex; users, network and commands are free.
`ApiManager`: weak fairness of each goroutine's step, as requests have deadlines and the
ticker ticks; nobody has to start, stop or register. `P2PManager`: weak fairness of `Start` and `Stop`
and of a monitor that holds the lock, weak fairness of the discovery and heartbeat loops
seeing the cancelled context, and strong fairness of the monitor seeing it, because its select
offers the context on every turn and its next tick is 30 s away. `QuicConnection`: strong
fairness of a caller, which waits for a mutex that hands itself to a starving waiter, weak
fairness of the keeper. `ConfigReload`: weak fairness of the loop and of a reload, strong
fairness of the timer, which a write can always put off. `CommandLine`: weak fairness of
the command's own steps, of a call that finds the mutex free and of a beat, each unless it
waits for a silent relay with no deadline; strong fairness of `Close`, which shares its mutex
with the beats; nothing obliges the relay, and a wedged mutex stays so. The other modules need
none.

*Deadlock* is checked except where the system may stop: a panic ends the process (`hb_*`), a
goroutine that locks the mutex twice leaves the others waiting (`rc_*`), commands,
stopped managers and crashed clients end (`rc_calls`, `lifecycles`, `shared_state`). In `rc_calls`
`CallsReturn` excuses exactly the states in which some goroutine waits for itself.

### Disagreements found

1. `path_failover`: the failover's `OpenRequest` has no `Meta`
   (`selector.go:161-166`), so relay QUIC refuses it for want of a token
   (`relay_quic_path.go:89-92`); a session on gRPC fails although relay QUIC is up.
   The state machine's plan says "if fail: HandingOver to next path"
   (`docs/plans/PATH_SELECTION_STATE_MACHINE.md:286`).
2. `hb_panic`: a loop between two selects finds `m.ticker` nil after `Stop`, or after
   recording the last failure itself, and dereferences it (`manager.go:248`).
3. `rc_heartbeat`: `SendHeartbeat` locks `c.mu` while its own frame holds it
   (`client.go:689`, `704`), after which every call of the client hangs. A serving command
   prints "Press Ctrl+C to stop the client gracefully" (`main.go:219`), but the `Close` it has
   deferred (`178-182`) is one of these calls: once a beat was acknowledged, a signal is taken
   and the command does not end (`WedgedCommandsNeverEnd`).
4. `tunnel_served`: a proxy that cannot listen only prints (`manager.go:294-297`), and the
   tunnel stays registered and active.

### Other observations

Behaviours that the models have and that a reader of the code may not expect. They
contradict no document, so no run is about them. Where a property excuses one of them it says
nothing of that behaviour itself: `SwitchesAreReported` of callbacks that overlap,
`ClientFollows` of reloads that cross, `StopWindsDown` of the monitor and `Stop` that wait for
each other, `LockedCallsKeepApart` of the JSON mode's unlocked calls, `RejectionsAreExcused` of
a key set that an older answer overwrites.

* Two more self-deadlocks like that of `SendHeartbeat`: `Disconnect` and `Reconnect` (`RelayClient`).
* The P2P manager's health monitor and `Stop` can wait for each other (`p2p/manager.go:1159`).
* A mesh that a token asks for never starts, for want of intervals, and the retries of
  `Start` then fail at the API manager, which already runs (`p2p/manager.go:786`, `types.go:218`,
  `mesh.go:556`).
* The identity in P2P heartbeats is copied once and is stale after a re-registration.
* A second mesh login replaces the P2P manager of the first without stopping it, and
  `Close` stops neither (`client.go:794`).
* The QUIC connection of a failed relay authentication stays open until `Stop`.
* `wireguard config` can never succeed, as its manager was never started.
* gRPC over TLS ignores the configured CA and client certificate (`grpc_client.go:188`);
  `CLOUDBRIDGE_TOKEN` overrides the token of a later login (`grpc_transport.go:95`).
* The retry budget is shared by all calls of a command, and signals are not read until
  the last of them has succeeded.
* Two reloads that overlap can leave the client with the older configuration, and a change of the CA
  certificate alone never reaches it.
* An install over a running Linux service fails at the binary after the configuration has been
  overwritten; `install` drops `--token` (`main.go:776`); on macOS start and stop ask launchd for
  a label that does not exist; uninstall can report success with every step failed there.
* A detour through a peer that is then removed stays until the owner announces anew: `RemovePeer`
  goes by owner (`mesh.go:331-352`), and the routing pass skips first hops it no longer knows
  (`mesh.go:421-440`).
* In the JSON mode a `Connect` or `Authenticate` that overlaps another call can take its
  response, lose its socket, or find a nil coder.

## 5. Proofs

Each proof module extends its component and proves `Spec => []Inv` by one lemma per
action, then the properties from `Inv`. No constant has a fixed value: any number of
sessions, goroutines, tunnels, rungs or buffers. Assumptions are those named in the
modules (`LadderAssumption`, `HeartbeatAssumption`, `PowersOfTwo`, `ClientAssumption`,
`TunnelAssumption`, `FallbackAssumption`, `ApiAssumption`, `QuicAssumption`, `ReloadAssumption`,
`MeshAssumption`, `TransportAssumption`, `OpeningAssumption`, `AuthAssumption`,
`P2PAssumption`, `CommandAssumption`, `LegacyAssumption`, `ServiceAssumption`); TLC evaluates them on every run. `PowersOfTwo` (2^n is a positive
natural) is arithmetic the provers lack.

* **PathSelectProofs.** `SelectedIsBound`, `NoLeakedHandle` and `OneLivePerPath` support
  each other: closing the adapter's handle leaks nothing only because every live handle
  is the one its adapter remembers. `RungOK` and `StageMatchesState` say where a call may
  be; the selector ignores the errors of `Transition`, so that a search ends in
  `path_selected` rests on its session being `probing`. `UsableOK`, `FailoverHasCause`
  and `PassedAreUnusable` carry the history from the start of a call to its return:
  the rungs behind a call could not have served it. The ladder's order and exhaustiveness are read off those.
  `KeepsPromise` is proved by mapping each action to a step of
  `SessionPromise` or a stutter. `ActiveIsOpen` needs a single session.
* **HeartbeatManagerProofs.** `Inv` adds `MissesAreCounted`: state events may push
  `failCount` up but nothing lowers it below the failures in a row, so the limit is
  not missed. Together with `OneTicker` (a stopped manager ticks nothing) it gives
  `GivesUp` and `QuietWhenStopped`, and that the panic of `hb_panic` is always that of a loop
  which outlived a stop (`RunningNeverPanics`). `PaceIsBounded` has its own induction over
  `BackoffBound`.
* **RelayClientProofs.** `ServedWhileConnected` is not inductive: a closed client is not
  revived because `Close` leaves the transport up, and the transport refuses to dial.
  `ClosedKeepsLink` says that, and that no handshake is under way. `OneHandshake` keeps `Close`
  and `Disconnect` out while one is, since the client is not connected then.
  `ClientKeepsPromise` maps each action to a step of `ClientPromise` or a stutter: the mutex
  makes the set of requests a singleton, and a request can name the login since a client that is
  connected and asked for a tunnel has one (`LoginsHaveTokens`).
* **TunnelManagerProofs.** `TableOK`: the table names each tunnel once and its port is
  not the probed one; `LateOK`: a late connection leaves the proxy only its end;
  `DirOK`, `HandlerOK`: running goroutines have their tunnel and buffer. `CountIsExact` uses
  the cardinality theorems for one handler more or less. For `TunnelKeepsPromise`
  `RelaysInv` adds that a direction has no buffer before it copies and that only a buffer in use
  holds bytes, so that what the pool or the allocator gives is new to its user.

* **AutoSwitchProofs.** The properties speak of a manager at rest; `StageOK` and `LinkOK`
  say which call its owner is in at each stage and how far the interface is then, so
  that a link the manager does not mark as stray is up exactly when it returns.
  `LastReport` strengthens `SwitchesAreReported`: without an overlap at most one callback
  waits and it tells of the current mode. `RoomOK` keeps the bound on callbacks.

* **LifecycleProofs.** `ApiInv`: the identifiers are a pair everywhere they are held, since
  they are stored and read in one section (`IdsArePairs`); the loop runs only once the
  manager was registered, and the owner's stages come before service (`LoopIsRegistered`,
  `Serving`). From these each action is a step of `ApiPromise` or a stutter. `QuicInv`: a
  caller that waits holds the read lock, and whoever changes the connection has the write lock.
  `ReloadInv`: without a crossing one reload at most has the client to call, and it is the one
  that swapped last (`CallsInOrder`).
  In `P2PInv` the API manager is used once (`ApiIsUsedOnce`): it serves from the first Start that
  gets past it, and is retired exactly when `Stop` is past it; `StopHoldsTheMutex` keeps the
  monitor out meanwhile. From these follow the safety that `StartOutlivesOutages` and
  `StopWindsDown` rest on: a Start that is tried again finds an API manager that can start
  (`StartIsNotSpoilt`), and nothing comes up after a stop, whatever goroutines see it late
  (`StopIsFinal`). `PendingInv`:
  what a reload has read and the file no longer says is followed by an event or by the timer that
  was armed after it (`StaleIsEarly`), which is why `early` reloads may swap without harm.
  `WriterIsAtWork`: who has asked for QUIC's write lock is between its lock and its unlock, so
  no return keeps it. `CommandInv`: a link is open only in a command that is on its way to the
  `Close` it deferred (`ClientIsClosed`), and the mutex is taken only in one that runs
  (`MutexIsOfACommand`), so that a mutex that is stuck stays stuck and its command never exits
  (`WedgedCommandsNeverEnd`): what `CommandsEnd` excuses there is final.
* **SharedStateProofs.** `TransportInv`: a dial in progress owns the client's mutex
  (`DialIsAlone`), the field is set once and for all (`FieldStaysSet`), every open socket is in
  the field or in the hands of the dialler (`SocketsAreHeld`), and after `Close` the context
  lets no dial through (`ClosingIsFinal`). From these each step is one of `TransportPromise` or
  a stutter. `OpenInv` adds what the session knows at
  each stage; every step of an opening is a step of the transport, so that `TransportInv`
  carries over. `MeshInv`: a known peer's id has a route once its announcement is
  written (`IdsAreRouted`), an operation is for a peer that it can still find
  (`OpIsForAPeer`), and the pass visits routes that exist (`PassSeesRoutes`). `AuthInv`: a
  validation with no excuse has its key in what it fetched, and in the cache once it has
  stored that (`KeyIsKnown`); with secrets the verdict is all there is (`SecretDecides`).

* **LegacyServiceProofs.** The JSON mode's `LegacyInv` has two parts. `Settled` always holds:
  types, sockets that were dialled, and a locked call that owns the mutex (`MutexIsKept`).
  `Orderly` holds until a `Connect` or `Authenticate` overlaps a call: one goroutine talks
  (`OneTalks`), the one open socket is the client's (`LinkIsHeld`), and a socket that works holds
  the response to the last request on it and no other (`PipesAreInStep`). `ServiceInv`: an install
  has a step left for whatever is not whole (`WhatIsMissingRemains`), read off the plan of
  each platform, so that its last step leaves nothing; it holds from whatever a command that
  was cut short had left.

What the promises mean to a caller is proved of the promises themselves and carried over to the
code's modules: the client serves one request at a time, under one login (`CallersAreServedAlone`);
a transport holds one connection or none, and none after its close (`OneConnectionOrNone`); two
applications share neither port nor bytes (`ApplicationsAreKeptApart`). Six invariants are
theorems and no longer properties of a run, because a property that is checked implies or rests on
them: `ServedWhileConnected` and `RpcUnderOneIdentity` (`ClientKeepsPromise`),
`OneTunnelPerPort` (`TunnelKeepsPromise`), `ClosedForGood` (`TransportKeepsPromise`),
`StartIsNotSpoilt` (`StartOutlivesOutages`) and `StopIsFinal` (`StopWindsDown`).

*Model-checked only*: the liveness properties, which are out of the prover's reach
(`CallReturns`, `CallsReturn`, `FollowsHealth`, `OutageHeals`, `StopWindsDown`,
`StartOutlivesOutages`, `CloseReturns`, `LastWriteWins`, `CommandsEnd`). Every invariant and
every safety property of the passing runs has a theorem, and the type invariant of every
module is proved, on its own or as a part of the inductive invariant. The four violated properties
have no theorem, since they are false.

## 6. Not modelled

`PROJECT.json` lists every component with its status. Left out:

* *Code that no program constructs*: transport auto-switch, handover, SLO controller,
  enhanced heartbeat and dashboard, the MASQUE client and the probes
  (`initializeEnhancedComponents` only logs); `ConnectToPeer` and `StreamHeartbeat`, which
  nothing calls; onboarding and wizard, which no command reaches.
* *Code that cannot run*: the QUIC listener, which has no certificate.
* *No state of the program*: metrics, performance tuning, system utilities, printing, parsing of the
  configuration beyond its verdict, cryptography, TLS options, generated protocol code.
* *Operating system*: the Windows commands of WireGuard, which do the same stages with other
  tools, and a fallback whose WireGuard is disabled, which does nothing.
* *A mode that changes in use*: the client's `SetTransportMode` between calls; the
  transport's own switch is in `TransportStack`.
