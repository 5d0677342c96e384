# TLA+ verification of freenet-test-network

`freenet-test-network` builds networks of Freenet nodes for integration tests: as
processes on this machine or on others reached by SSH, or as Docker containers behind
simulated NAT routers. The interesting part of it is not the nodes but the bookkeeping
around them: many test runs share one Docker daemon, one base directory, the same remote
machines, and each must take only its own things, find all of them again, and never hang.

The modules here are translated from the source (`src/src/*.rs`; paths below are relative
to that directory). `PROJECT.json` maps every definition to the lines it models.

    tlc -workers 2 -config DockerNat.cfg MCDockerNat    # model-check one run
    tlapm DockerNatProofs.tla                           # check the proofs

## 1. Inventory

| Component | State | Operations | Hard behaviour | What makes it correct | Status |
|---|---|---|---|---|---|
| Docker NAT backend (`docker.rs`) | in the daemon: containers, networks; in the process: `containers`, `networks`, `public_network_id`, `peer_containers`, the drawn subnets | `new` (sweep), `create_public_network`, `create_gateway`, `create_nat_network`, `create_peer`, `cleanup`, `Drop` of handles and backend | several processes at one daemon; an error, crash or lost reply at every call; retries; age limits; blocking on a runtime inside `Drop` | what was created can be found by Drop; Drop leaves nothing and returns; a sweep takes what is old and nothing young; addresses follow the drawn subnet | modelled |
| `build_docker_nat`, `build_local` (`builder.rs`) | the turn of their loops | one call after the other, `?` at each | failure at any step | every index registered once; a failed build leaves nothing | partly |
| Wait for connectivity (`network.rs`) | the round, its count, the deadline | rounds of WebSocket probes | peers come and go during a round; probes hang; the deadline passes in the middle of a round | "ready" means enough connections; the wait ends, and by when; a steady network is not reported as failed | modelled |
| Run directories (`builder.rs`) | `<stamp>[-n]` under `FREENET_TEST_NETWORK_BASE_DIR` or the system's temporary directory, `run_status.txt`, a directory and keys per node | `cleanup_old_runs`, `create_run_directory`, `RunStatusGuard`, `create_peer_dir` | check-then-create, removal while others build or run, removals and writes that fail half-way and are only logged, death at any call | bounded retention, oldest first, no mixing of runs, failures marked | modelled |
| Peer processes (`process.rs`, `peer.rs`) | children of this process, pids on other machines | spawn, `is_running`, `kill`, `Drop` | a build that fails half way; processes that exit by themselves or ignore SIGTERM; SSH sessions that fail | nothing is left running or unreaped | partly |
| Keys (`builder.rs`) | key files of each node, here, in containers and on other machines; `gateways.toml` | `generate_keypair`, uploads, the file a peer is pointed to | uploads of several runs to one directory, several files to one name | identities are distinct; a peer holds the key its gateway runs with | modelled |
| Remote machines (`remote.rs`) | SSH sessions | `exec`, `scp_upload`, `scp_download`, `discover_public_address` | a session fails before or after the command ran, a transfer breaks off | used by processes, keys and logs | partly |
| Ports and addresses (`peer.rs`, `docker.rs`, `builder.rs`) | ports picked by bind-and-close, addresses by index | `get_free_port`, loopback and container addresses | two peers or processes pick one port; the probe is UDP and the WebSocket TCP; `u8` overflow from index 246 on | endpoints keep apart; a url is answered by the node it was made for | modelled |
| Logs (`logs.rs`, `process.rs`, `docker.rs`) | fetched copies of logs | read, parse, glue, merge by time, show | nodes write meanwhile; a fetch fails half way; lines without a time | a merge loses nothing, orders by time and gives each line to its own peer | modelled |
| Ring snapshots, metrics, contract flow (`network.rs`) | none of its own | collect from node after node; compute | a node that does not answer; connections that change meanwhile; the ring's origin | every edge was a link; the numbers add up; the latest completion is shown; clients are closed | partly |
| Binary resolution (`binary.rs`) | files in target directories | build by cargo, find | `CARGO_TARGET_DIR`; other builds; old files | the binary is the one just built | modelled |
| HTML and reports (`network.rs`) | none | text | none | | not modelled |
| Examples, tests, scripts | none | use of the above | | | not modelled |

**How they interact.** `NetworkBuilder::build` first makes a run directory and then goes
through `build_local` or `build_docker_nat`; both generate keys, start the gateways and then
the peers, one at a time, put the handles into `TestPeer`s, and await
`wait_until_ready_with_timeout`. Errors are returned with `?`, so that Rust's drops are the
only clean-up: the peers' handles first, the backend last. Apart from the Docker daemon, the
file system, the remote machines and the ports there is no shared state, and no call into this
crate from outside; the nodes are separate processes that change by themselves.

**Hazards.** `PROJECT.json` lists them with their lines. The properties are aimed at them;
those without a property say why.

## 2. Modules

| Module | Models | Extended by |
|---|---|---|
| `ResourceLedger` | what the Docker backend promises: an abstract ledger of containers and networks | |
| `DockerNat` | the Docker backend and its daemon, driven by `build_docker_nat`, for several runs | `LedgerRefinement`, `MCDockerNat`, `DockerNatProofs` |
| `LedgerRefinement` | the refinement mapping from `DockerNat` to `ResourceLedger` | `MCDockerNat`, `LedgerRefinementProofs` |
| `NetworkDrop` | `Drop`, `cleanup` and `build_sync` under each kind of tokio runtime, with panics | `MCStartAndDrop`, `StartAndDropProofs` |
| `ConnectivityWait` | the wait, the peers it probes and the clock | `ConnectivityWaitProofs` |
| `RunDirectory` | the base directory and the builders that use it | `MCRunDirectory` (symmetry), `RunDirectoryProofs` |
| `PeerProcess` | spawn, exit and kill of processes without Docker | `PeerProcessProofs` |
| `KeyDistribution` | key files and uploads of several runs | `MCKeyDistribution` (placements), `KeyDistributionProofs` |
| `AddressPlan` | addresses as functions of a node's index, with their `u8` arithmetic | `NodeStart` |
| `NodeStart` | ports and addresses as nodes are started, here and in containers | `MCStartAndDrop`, `StartAndDropProofs` |
| `BinaryResolve` | `FreenetBinary::resolve`, cargo and the files it builds | `MCStartAndDrop`, `StartAndDropProofs` |
| `NetworkLogs` | `read_logs`: fetch, fallback, parse, glue, sort; the dumps | `ContractFlow` |
| `ContractFlow` | `collect_contract_flow` over the merged logs | `MCNetworkReport`, `NetworkReportProofs` |
| `RingReport` | diagnostics, ring snapshots and metrics | `MCNetworkReport`, `NetworkReportProofs` |

The parts meet in the builder but share no variables: one build does one thing at a time,
and what a build does to the daemon, the directories and the key files is independent. So
each module has its own program counter for the part of the build it is about, with an
error exit wherever another part may fail (`ApiError`, `PeerFails`, `SpawnFails`). Where parts
do build on each other, modules do: the flow of a contract is computed from the merged logs,
nodes start at the addresses of the plan, the backend implements the ledger.
`MCNetworkReport` and `MCStartAndDrop` check two and three parts in one instance, in separate
behaviours; their type invariants join those of the parts. `NetworkReportProofs` and
`StartAndDropProofs` prove of each part, with its own specification, what these runs check.

### DockerNat

* Runs are processes (or tests of one process) with a backend of their own; the daemon's
  `dockerContainers` and `dockerNetworks` are shared. An id is `<<run, kind, index>>`, as
  the names in the code are `<prefix>-<kind>-<index>`.
* One action per awaited Docker call. `pc[r]` is the call a run is about to make, `idx` the
  turn of the gateway or peer loop. `ApiError` is the error return of any of them, including
  the work in between (image, uploads, exec), and leads to the drop.
* `Configure` is `DockerNatConfig::default`; `New`, `SweepContainer`, `ListNetworks`,
  `SweepNetwork`, `SweepDone` are `new` with `cleanup_stale_resources`: the clock is read
  once, the listing taken, and everything in it removed although the world goes on. The
  daemon's age of a container is its creation; that of a network is read from its *name*,
  and so is `stamp`, the time of the configuration.
* `RetryPublicSubnet` is the "Pool overlaps" retry, which may draw the same octet again.
* `DropProcess`, `DropBackend`, `DropContainer`, `AllContainersDropped`, `DropNetwork`,
  `AllNetworksDropped`: containers go in parallel, so in any order, and networks only after
  `join_all`. (The networks are removed one after the other in the code; any order here.)
* `Crash` is a process that ends without Drop: killed, interrupted, or with its network in a
  `static`.
* The daemon is external and modelled by how the code uses it: it refuses overlapping
  subnets, refuses to remove a network with a running container, knows a container as soon
  as it is created. With `DaemonFaults` it may also fail to list or remove, and a reply to a
  creation may be lost after the object exists.
* Stop-and-remove of a container is one step: between the two calls there is a stopped
  container, which no property tells from an exited one.

### ResourceLedger and LedgerRefinement

The ledger says what a run may do to what exists, in actions without program counters: enter
what it creates in the same step (`Create`), let go, remove what is on its own ledger with
containers first (`Remove`), and take from others only what is old (`Sweep`). It ends only
when its ledger is empty; a crash loses the ledger and not the things. `LedgerRefinement` maps
`phase` to the program point, `born` to the daemon's state and `ledger` to the union of
`containers` and `networks`. What the ledger is for is `NothingForgotten`: what exists is
known to somebody still at work, or its owner crashed. The mapping is for a daemon that does
what it is asked: with `DaemonFaults` a lost reply creates without entering, which the ledger
does not allow.

### NetworkDrop

`runtime` is that of the thread the program is in: none, single-threaded or multi-threaded;
`build_sync` builds in one of its own, which is gone when it returns. `DropHandle` is
`DockerProcess::kill`, which panics (`BlockingPanics`) without a multi-threaded runtime;
`DropBackend` takes the lists and panics on a single-threaded one only, as it makes a runtime
when there is none. A first panic unwinds and goes on with the next drop, a second aborts.
`CleanupCancelled` is `cleanup()` whose future is dropped: `drain(..)` forgets the rest of the
list whose turn it was. Every container has a network of its own here, as if all nodes were
peers, and networks may go in any order; both allow more than the code does.

### ConnectivityWait

`pc` follows the code: `check` (head of the loop) → for each peer `connect`, `receive`,
`close` → `decide` → `pause`. A probe fails to connect at any time up to its limit
(`ConnectFails`), gets no response (`NoResponse`, which does not await the disconnect), or
gets an answer (`Answers`, `AnswersError`) and then awaits `graceful_disconnect`'s sleep.
The peers are the environment: `Listens`, `StopsListening`, `Links`, `Unlinks` interleave
with every step. Time passes only in `Tick`, while the wait is at an `.await`, and never
beyond the limit of the await, which is what `tokio::time::timeout` and `sleep` give.
`ws_url` of a remote peer names port 0 of this machine, so such a peer is never `Reachable`.
`troubledAt`, `unlinkedAt` are history variables; no guard reads them.

### RunDirectory

A name is `<<second, attempt>>`. `ListRuns`, `RemoveRun`, `CleanedUp` are
`cleanup_old_runs`; `TakeStamp`, `ProbeName`, `CreateRoot` are `create_run_directory`, where
`exists()` and `create_dir_all` are steps apart; then `NewGuard`, and for each node
`MakePeerDir`, `WriteKeys`, `PeerStarts`, and the outcome. `mtime` follows the file system:
a new entry changes a directory's time, a rewritten file does not. `MakePeerDir` may
recreate a directory somebody removed, as `create_dir_all` does. `Ends` is a caller letting
go or a process dying at any step; no Drop touches the directory.

Two calls fail without ending anything, and are modelled so. `remove_dir_all` may leave the
directory as it is or a part of it (`RemoveFails`, over all `Remnants`): the status and each
peer's directory as it was, without its keys, or gone; if an entry of the directory itself is
gone, its modification time is now. `run_status.txt` is truncated and then written, so that it
may be as it was, or cut short (`WriteStatus`). Everything else that fails (`read_dir`,
`create_dir_all`, a key file, the Docker backend) ends the build: `BaseFails` without a
directory that could say so, `PeerFilesFail`, `PeerFails` and `NotConnected` with one.
`stuck` and `muted` are history: the directories a removal of which has failed, and the builders
whose latest write of their status has. The removal is one step, whole or not, and so is the
listing, whose entries that cannot be read are skipped in the code.

### PeerProcess

`proc` is the operating system's view, `held` the program's. Calls block, so the program has
one program counter; processes exit on their own at any moment, local ones as zombies. A
remote kill is `kill`, half a second, `kill -0`, `kill -9`, each in an SSH session that may
fail before its command has an effect; a spawn may also have run and its answer be lost.
`lost` records for which peers that mattered. Pids are not reused in the model, and
the shell text of a command is not modelled: what the remote command line makes of `nohup`
followed by assignments is listed as a hazard. `TestPeer::kill` needs `&mut TestPeer`, which
no caller can get, and is left out.

### KeyDistribution

Keys are `<<run, node>>`. A node on this machine reads the files of its own run; a remote
node `<work_dir>/<id>`, whose path does not name the run and whose `public_key.pem` is
written for the node itself and then once for each gateway; a container gets the first
gateway's key. `trusts` is what a node has read when it starts, `identity` the key pair it
runs with.

### AddressPlan and NodeStart

An address is its four octets. On this machine `ProbeWsPort` and `ProbeNetPort` find a port
that is free for UDP at 127.0.0.1, and forget it; `NodeBinds` binds the WebSocket by TCP at
127.0.0.1 and the transport by UDP at the node's own loopback address, while other programs
bind and close ports (`OtherBinds`, `OtherCloses`) at 127.0.0.1, everywhere, or, being nodes of a
second network, at the very addresses of this one's: `LocalAddress` is of the index alone. A node
that cannot bind exits (`NodeCannotBind`). In containers `CreateGateway` and `CreatePeer` compute
addresses with `U8` and the daemon refuses one in use; with `Debug` an overflow of `+` panics.

### BinaryResolve

The version of the source is a number; a file holds the version it was built from.
`CargoBuild` puts it where cargo does, `Locate` looks where the code does: for
`CurrentCrate` relative to the directory of the program, for `Workspace` always in
`target/`. Sources are edited and others build at any moment.

### NetworkLogs and ContractFlow

A line is one of a small set: whether it has a time at its head, whether it is blank, which
pattern it fits (`what`), and whether it names the contract asked for (`ours`). A line that is
not UTF-8 is passed over when a log is read (`lines().flatten()`) and is no line here. Nodes write while peers are read one by one. `ReadPeer` fetches, stores and
parses a log; `ReadFallback` is the failed fetch, which reads what an earlier one left or what
this one had stored so far, and glues a line without a time to the last entry of *all* peers;
`SortEntries` is the stable sort. `Recent` and `Dump` are what `dump_recent_logs`, `dump_logs`
and `dump_connection_logs` show. `Flow` folds the entries as `collect_contract_flow` does: an entry counts for the pattern it fits
first, and for nothing if the first line that fits it is another contract's. An update is one edge
here, whose targets are left out.
The loops over lines and entries are recursive functions, `StableSort` puts each element after
those that are less and those of its equals that were before it.
`taken` and `fallen` are history variables. A node's clock does not go back; clocks of
different nodes need not agree.

### RingReport

Nodes are asked in order, one step per await (connect, send, receive), and fail in each way
the code tells apart; `ListChanges` lets a connection come or go at one of its ends in
between. Three collections are modelled: diagnostics, which go on after a failure, and ring
snapshots without and with a contract, which give up. An answer may lack any of its parts
(`PartsAskedFor`): a node has no connections when the parts that are looked at are missing
(`PartsLookedAt`), and diagnostics do not look at `connected_peers_detailed`. `told` holds the
nodes that answered with a part that was looked at. `abandoned` holds the clients that were
let go of without `graceful_disconnect`. Locations are hundredths of the ring; edges,
degrees, distances and the histogram are computed from the nodes as the code does. Averages
and percentages are quotients of these numbers and left out. `ever` and `always` are history.

## 3. What the runs show

In the Docker runs other than `nat` one tick is ten seconds, the `max_age` of `new`, and
`MaxAge` is 1; in `nat` a tick is anything longer (`MaxAge` 0). One tick of `RunDirectory`'s
clock is a second; in `ConnectivityWait` the limits are small numbers of ticks.

| Run | Shows | Bounds, and why they are enough |
|---|---|---|
| `nat` | `KeepsLedger`: the backend implements `ResourceLedger`. `SweptAreStale`: only its own Drop removes something young. `SweepRemovesOld`: no old container survives a sweep. `PublicSubnetAgrees`: the configuration names the subnet the network has, after retries too. `Tracked`, `NoLeak`: nothing created is lost from the lists, and Drop leaves nothing wherever the build failed | two runs, so that one can be stale, building, dropping or crashed while the other sweeps, in every interleaving; a young and an old moment of the clock; the longest build of one object each (network, router, peer); two octets and two bases, drawn together (`ConcurrentNext`: the private base goes with the public octet), so that the runs get in each other's way or do not, and a retry may succeed or draw the same again |
| `nat_faults` | `AllRegistered`: both loops register each index once. `BuildEnds`, `DropEnds` against a daemon that fails at anything, and why: `EveryCallCounts`, every call leaves less to do | two gateways and two peers: first, next and last turn of each loop; one run, since others only remove things, which is an error of a call here; two taken octets of three, so that both attempts can fail |
| `nat_sequential` | `RecoveredPools`: for runs one after the other, a crashed run's networks block a later one only together with a container too young to sweep | two runs, the first may crash at each step; three moments of the clock |
| `nat_live_runs` | violation of `SweepSparesLiveRuns`, see below | two runs, one gateway |
| `wait` | `ReadyWasConnected`, `SteadyNetworkIsReady`, `EndsBy` (at most a pause and two rounds past the timeout), `WaitEnds` | two peers, so that one can change after it was probed; a timeout that holds a full round and a pause, so that a steady network is seen; the clock goes past the bound of `EndsBy`; the 50 ms of the disconnect count as no tick (the proof has them) |
| `run_dirs` | `RetentionBound`, `NewestSurvive`, `OwnFilesOnly`, `FailureIsMarked` for local builds that exclude one another | four seconds and a build or a broken-off removal in each exceed one retained directory several times; builds that begin in one second and name their directory in the next have both names of a second; one removal or write fails (`MaxFaults`), at any of its places, and leaves any part; a directory is stuck, removed for good, or made anew |
| `run_dirs_concurrent` | `RetentionBound` with a directory more for each concurrent builder | two builders at every interleaving of file system calls, so that both remove one directory, or one removes what the other writes in; one failing call; two seconds, in one of which no name is left |
| `processes` | `NothingLeftRunning`, whatever SSH sessions fail | two local and two remote peers in alternation, a build that fails at any of them |
| `keys` | `IdentitiesDistinct`, `OwnGatewaysKnown` | two gateways, so that one can be taken for the other; a run in containers, and two with gateways and peers both here and on a machine of their own |
| `keys_two_gateways` | violation of `GatewaysKnown`, see below | two gateways here, a peer on another machine |
| `report` | logs: `NothingLost`, `Chronological`, `GluedToOwnPeer`, `ShownInOrder`, `FlowAsLogged`. Ring: `OneClientAbandoned`, `EdgesWereLinks`, `MetricsAddUp` | two peers of every kind with up to two lines each, of five kinds, and two times: an entry of two lines, a line of another contract in it, equal times, a fetch that breaks off, a second reading with what the first left, more entries than the dump shows; three nodes with any lists, one of which changes at any moment, and answers that lack any of their parts; locations across the origin, on the bounds of buckets, and missing |
| `start_and_drop` | nodes: `OwnTransportsApart`, `RunningAnswersItsUrl`, `RefusedBeyondBounds`. Binary: `NeverStale`. Drop: `LeavesNothing`, `AbortTakesTwo`, `DropReturns`, and `DropGoesOn`, why it returns | three nodes, ports that suffice or not, one socket of another program or network; sizes around every bound (no gateway; index 90, whose gateway has a router's last octet; 246 and 248; the 257th node); two versions of the source; networks of up to three nodes on every runtime: a first, a second and a further panic |

`RunDirectory` bounds what happens in one second by `PerSecond`: the builds that begin, and the
removals that break off and so make an old directory new. It is not above `MaxRuns` in `run_dirs`
and in the theorems about what a directory holds: with more, a directory can be removed and its
name used again in the same second, and `OwnFilesOnly` fails (with `PerSecond` 3 and `MaxRuns` 1,
say). With the code's `max_runs` of 5 that takes six of them in a second. Symmetry is over runs and
builders, of which no definition singles one out, and is not used with liveness.
`CHECK_DEADLOCK FALSE` is in every configuration: all of these programs come to an end.
Type invariants are checked where they are not proved for the very module, and in `nat`.

### Disagreements between code and documentation

Two runs have the expected result "violation": each checks a sentence of the documentation,
and TLC gives the steps by which the code breaks it.

* `nat_live_runs`: the startup sweep removes containers of runs still building or in use
  once they are ten seconds old; its doc says it preserves the current session's.
* `keys_two_gateways`: with two gateways a remote peer has one gateway's key for both. The
  same happens to a peer in a container (`gateway_info.first()`).

Others are plain from the text and have no run of their own:

* `README.md:103` says that startup removes resources older than five minutes; `new` passes
  ten seconds (`docker.rs:364`). A network's age is that of its configuration, not its own.
* `README.md:101` promises a signal handler; the crate installs none, so ctrl-c is a `Crash`.
* `README.md:102`, "On panic: Drop trait still executes, cleaning up resources": not after
  Drop's own panics. On a single-threaded runtime the backend's Drop panics with its lists
  already taken, and with two handles, or in a failing test, the process is aborted.
  `LeavesNothing` and `AbortTakesTwo` say what remains true.
* A remote peer's ports stay 0, so its WebSocket is never reached, a build with one and the
  default `min_connectivity` can only time out, and a remote gateway is listed as `<ip>:0`.
* Two builds of one second can both find a name free and share the directory
  (`builder.rs:813`); `OwnFilesOnly` is checked for builds that exclude one another.
* A directory that cannot be removed is only logged (`builder.rs:793`), as is a status that
  cannot be written (`builder.rs:849`): more than `max_runs` directories stay, and a failed
  build's directory may say "initializing". `RetentionBound` and `FailureIsMarked` say what
  remains true.
* Later builds remove the directory of a network that is still live, once it is not among the
  newest `max_runs` (`builder.rs:791`); `NewestSurvive` is what remains true.
* `LocalProcess::is_running` finds the pid of a zombie, so a crashed peer counts as running.
* Two runs with a remote peer of one id on one machine share its directory
  (`builder.rs:397`), so both peers may start with one key pair. `IdentitiesDistinct` is
  checked for machines of a run's own.
* `nohup RUST_LOG=info ... freenet` (`process.rs:221`): `nohup` takes the first assignment
  for its command and fails, and the pid of the failed shell job is echoed all the same.
* The nodes of a second network on this machine have the addresses of the first's
  (`builder.rs:358-363`), where nobody looks for free ports, so that one may find its transport
  taken; `OwnTransportsApart` is what remains true.
* An answer without `network_info` makes a node without connections, in the diagnostics even
  when it tells of them elsewhere (`network.rs:844`); `EdgesWereLinks` is what remains true.
* A WebSocket port is looked for by a UDP probe (`peer.rs:83`), which tells nothing of TCP.
  The node that finds it taken exits, and its url may then be another node's.
* Log entries of a remote node have the id `<id>-cache`, after the directory the copy is in
  (`logs.rs:179-184`), except those read by the fallback.
* Docker puts a time before every line, so that the node's own becomes part of the message;
  errors in the middle of Docker's stream of a log are passed over, and the log is short.
* `Workspace` builds where `CARGO_TARGET_DIR` says and looks in `target/` (`binary.rs:192`);
  `CurrentCrate` takes a relative one from the program's directory, cargo from the workspace's.
* `topology()` returns no connections, and `update_completion_peer` is never set.

### Fairness

* `DockerNat`: weak fairness of `RunStep(r)`, nothing else. Every Docker call returns, since
  the client has a timeout, and between calls the builder does not block. When a user lets go of
  a network, whether it crashes, and what other runs do are left open.
* `ConnectivityWait`: weak fairness of `Due` (the runtime runs a ready task: the wait's own
  steps, and those that its expired limits cause) and of `Tick` (time passes). None for an
  answer, a refusal or a connection: `WaitEnds` holds also when every peer hangs.
* `NetworkDrop`: weak fairness of `DropStep`, for the same reason as in `DockerNat`: what Drop
  waits for are Docker calls. None for the build or the caller.

## 4. What is proved

TLAPS checks these for every value of the constants under the named ASSUMEs of the modules, which
state no more than the types and ranges of the parameters, and under the condition in the second
column where there is one.

| Theorem | Statement | Argument |
|---|---|---|
| `DockerNatProofs!TypeCorrect` | `Spec => []TypeOK` | `TypeInv` adds that `idx` is in range inside its loop, that `public_network_id` is known there, and that a run's lists and a container's attachments name the run's own objects: without them an id formed from `idx` need not be an id |
| `!TrackedThroughout` | `Spec => []Tracked` | `IInv = TypeInv /\ Tracked /\ Emptied`: one step per action; a creation and its record are one step with a faithful daemon, and removal from a list removes the object |
| `!DropLeaksNothing` | `Spec => []NoLeak` | a tracked object is in a list, and `Emptied` says that the lists are empty once Drop is done. That a network can be removed at all needs that no container of its run is left, hence `Emptied`'s clause on `dropNetworks` and `NetsOwned` |
| `!BuiltIsRegistered` | `Spec => []AllRegistered` | what has been registered is exactly what the turn of the loop says |
| `!CallsCount` | `Spec => EveryCallCounts` | what a run has left is a triple of numbers, in lexicographic order: turns of its loops, calls of the turn, and what is on its lists with the attempts it has left. A step goes to a later call or a later turn, or takes one off the third; the lists are finite (`IdsAreFinite`), and while the network is not there an attempt is left (`AttemptsLeft`) |
| `LedgerRefinementProofs!RetriesAgree` | `Spec => []PublicSubnetAgrees` | `SharedInv` adds to `IInv`: `Fresh`, what a run is still to create does not exist and no sweep is after it, so no name is used twice; and `SweepOK`, what a sweep is after was old when it began, and between its listing and the end of its run every container that was old then is one it is after |
| `!SweepTakesOld`, `!OnlyOldIsSwept` | `Spec => []SweepRemovesOld`, `Spec => SweptAreStale` | from `SweepOK`; the second is an action property: a step in which something disappears is the owner's Drop or a sweep's removal of one it is after |
| `!PoolsAreRecovered` | `SequentialSpec => []RecoveredPools` | `SequentialInv` over `SharedInv`: one run at most is in progress (`OneLive`); no network of a run is older than the configuration whose time its name bears (`NamedBefore`); from the sweep's turn to networks on, an old network of another run is still to be removed or a container of its run is left (`PoolsSwept`), because one that is not removed is in use |
| `!ImplementsLedger` | if `~DaemonFaults` and `CleanupOnDrop`: `Spec => KeepsLedger` | each action under `SharedInv` is one action of the ledger or none. `Fresh` makes a creation enter something new; `Tracked` and `Emptied` make `End` find an empty ledger |
| `!LedgerForgetsNothing`, `!BackendForgetsNothing` | `Ledger!LedgerSpec => []Ledger!NothingForgotten`; with `!ImplementsLedger` the same of `Spec` | by the ledger's steps alone: what exists is entered unless its owner crashed, and who has ended has nothing entered (`Entered`). It says what the refinement is good for |
| `ConnectivityWaitProofs!WaitIsBounded` | `Spec => []EndsBy` | `IInv = Typed /\ InRound /\ Began`: `p - 1` probes and the part of the current one account for the time since the round began, and a round begins no later than a round and a pause after the timeout, the last one then being marked `final` |
| `!WaitTypeCorrect` | `Spec => []TypeOK` | `Base`: the count is at most the peers done |
| `!ReadyIsConnected` | `Spec => []ReadyWasConnected` | `Counted`: the count is at most the number of peers, among those the round is done with, that had a link since it began; an answer adds one to both, and what a peer does later does not take it off |
| `!SteadyIsReady` | if `Remote = {}`: `Spec => []SteadyNetworkIsReady` | `Missed`: a peer not counted in this round was in trouble after it began, so a failure at the deadline means that some peer was in trouble within a round and a pause of it |
| `RunDirectoryProofs!DirectoryTypeCorrect` | `Spec => []TypeOK` | `TypeInv`, also for what has been listed, one lemma per group of steps |
| `!RetentionIsBounded` | `Spec => []RetentionBound` | for builders at the same time, `Accounted`: what exists and is not stuck is among `MaxRuns` directories that one listing left (`kept`) or is one that a builder has added since, and a builder that adds a second has listed later than its first, so that this listing takes over as the one that counts. For builders that exclude one another, `InTurn` |
| `!NewestAreKept` | if `Serial`: `Spec => NewestSurvive` | `InTurn`: only one builds, its listing is what exists with its times, and there are `MaxRuns` and the excess it has still to remove; what is removed comes first in the listing, so that at least `MaxRuns` others are no older |
| `!OnlyOwnFiles`, `!FailuresAreMarked` | if `Serial` and `PerSecond <= MaxRuns`: `Spec => []OwnFilesOnly`; if also `Backend = "Local"`: `Spec => []FailureIsMarked` | `FilesInv`: directories changed in this second are at most as many as builds began and removals broke off in it (`FewRecent`), so that what is removed is of an earlier second; hence the name of a builder's directory is nobody else's, even when the directory is gone (`Named`), and what is in it is what that builder has written, or what a removal and a failed write have left of it (`Filled`) |
| `PeerProcessProofs!TypeCorrect` | `Spec => []TypeOK` | inductive by itself |
| `!NoneLeft` | `Spec => []NothingLeftRunning` | every process that has not gone is held, under the kill in progress, or in `lost` (`Accounted`), and nothing is held at the end (`Ended`); that remote processes never become zombies makes a failed `kill -0` mean that they are gone (`RemoteNoZombie`) |
| `KeyDistributionProofs!KeyTypeCorrect` | `Spec => []TypeOK` | `TypeInv` adds which node a program point can be about |
| `!KeysAreDistinct`, `!GatewaysAreOwn` | if `Separate` (no two runs have nodes of one index on one machine): `Spec => []IdentitiesDistinct`, `Spec => []OwnGatewaysKnown` | `OwnInv`: between upload and start a node's files hold what its run has put there, since no other run writes there |
| `!EntriesLeadToGateways` | if `Separate`, and `NumGateways = 1` or every peer is `Here`: `Spec => []GatewaysKnown` | what `keys_two_gateways` finds to fail, where it holds: from `OwnGatewaysKnown` |
| `StartAndDropProofs!StartTypeCorrect` | `StartSpec => []StartTypeOK` | with `Shape`, `InTurn` and `GivenPorts` in one invariant |
| `!TransportsApart` | if `FewLocals` (at most 254 * 256 nodes here): `StartSpec => []OwnTransportsApart` | a socket of a node is at that node's address, and `LocalAddressesApart`: different indices have different addresses, none 127.0.0.1 |
| `!UrlsAreAnswered` | `StartSpec => []RunningAnswersItsUrl` | a running node has both its sockets, and no two sockets are in each other's way |
| `!ContainersApart` | `StartSpec => []RefusedBeyondBounds` | what is placed are addresses of smaller indices (`OwnPlaces`); gateways' third octet is 0, and a router's last is 100: the peer of index 0 has no gateway before it, and gateways keep apart from each other, as routers do, below 256 |
| `!BinaryIsCurrent` | `ResolveSpec => []NeverStale` | `ResolveInv`: no file is of a version that there is not yet (`NoneAhead`), and what cargo wrote stays at least that new until it is looked for (`WhereBuilt`) |
| `!DropTypeCorrect`, `!DropLeavesNothing`, `!DropAbortsForTwo` | `DropSpec => []DropTypeOK`, `[]LeavesNothing`, `[]AbortTakesTwo` | `DropInv`: what exists is listed until Drop takes the lists, then among what it has taken (`Listed`, `Taken`), containers before networks; and a panic was the caller's or a handle's that is gone (`FirstPanic`) |
| `!DropIsFinite` | `DropSpec => DropGoesOn` | the part of Drop that is on, then the handles and what has been taken and not yet removed, in lexicographic order: a panic goes on or aborts, and takes a handle along either way |
| `!TypesCorrect` | `MCSpec => []TypeOK` | each part keeps its variables while the others run |
| `NetworkReportProofs!RingTypeCorrect`, `!AtMostOneAbandoned`, `!EdgesAreLinks` | `RingSpec => []RingTypeOK`, `[]OneClientAbandoned`, `[]EdgesWereLinks` | `RingInv`: one entry of each node asked (`OneEach`), which names what was a connection and, if the node has told of its connections, leaves out none that was there all the time (`Seen`); a client is let go of only at the end (`AtTheEnd`) |
| `!MetricsAreConsistent` | `RingSpec => []MetricsAddUp` | the degrees count each edge at one end or at both (`DegreesOfEdges`), and distances are on the ring (`DistancesOnTheRing`) |
| `!NothingIsLost`, `!GluedToOwnPeers`, `!LogsTypeCorrect` | `LogsSpec => []NothingLost`, `[]GluedToOwnPeer`, `[]LogsTypeOK` | `LogsInv`: the lines in the entries are those that were read, each in one place (`OnlyRead`, `AllRead`, `Once`), of its own peer but at the head of a log that could not be fetched (`Glued`). `Grown` is the same of the lines of one file as they are added, and is proved by induction over them |
| `!LogsAreChronological` | `LogsSpec => []Chronological` | `AsWritten` until the sort, `Sorted` after it: `StableOrder` says that `StableSort` is a permutation, in the order of the comparison, and that equals stay in order |
| `!DumpsShowInOrder` | `LogsSpec => []ShownInOrder` | what is in order by time is in order by the comparison of the dumps, and a stable sort of that changes nothing |
| `!FlowIsAsLogged` | `LogsSpec => []FlowAsLogged` | `FlowRun`: by induction over the entries, what the flow has after the first k of them |
| `!ReportTypesCorrect` | `MCSpec => []TypeOK` | each report keeps to its own variables |

Induction over the places of a sequence is the lemma `Induction` of `NetworkReportProofs`: a set
of numbers that has 0 and with each number the next has them all, since `Nat` is well-founded
(`PrecedesWellFounded`). What a recursive function of the model gives is proved with it, for
logs of any length.

Every invariant and action property that the passing runs check is proved here. Only
model-checked are the liveness properties `BuildEnds`, `DropEnds`, `WaitEnds` and `DropReturns`:
fairness is about when an action is enabled, which is outside the prover's reach. Their other
half is proved: that all of a program's steps, or its time, are finitely many (`CallsCount`,
`DropIsFinite`, `WaitIsBounded`), so that what TLC adds is that it never waits in vain. The
theorems with a condition say so in the second column; the condition is what the property needs,
and section 3 shows for the most of them how it fails without.

## 5. Not modelled

* The image build, container configuration, the iptables rules inside a router and what
  NAT does to packets: there is no state of this crate in them. That the exit status of a
  command in a container is never looked at (`docker.rs:1371`) means that a node may come up
  unconfigured; the wait is what finds it.
* The diagnostics dumps of the backend (`dump_iptables_counters` and the like): reads.
* `is_running`: a read that nothing in the crate decides by.
* Reuse of pids in the half second of a remote kill (`process.rs:93`).
* The default bridge network of a container, which is the same for all.
* The stagger between starts of local nodes: a sleep, on which nothing depends.
* Averages and percentages of the ring metrics, their export as JSON, HTML and reports: text,
  and quotients of numbers that are modelled.
* The targets of an update in the flow of a contract, and `resolve_peer_id`: no property is about
  them.
* SSH sessions, authentication, discovery of an address: I/O.
* Examples, tests and scripts: users of the library.

## 6. Plan

Done, in this order: `DockerNat`, `ConnectivityWait`, `RunDirectory`, `PeerProcess`,
`KeyDistribution`; `AddressPlan` and `NodeStart`, `NetworkDrop`, `NetworkLogs` and
`ContractFlow`, `RingReport`, `BinaryResolve`; `ResourceLedger` and the refinement; the proofs
of section 4. What would be next:

1. An abstract `build`, succeed or leave nothing, implemented by `PeerProcess` as the ledger
   is by `DockerNat`.
