------------------------------ MODULE DockerNat ------------------------------
(***************************************************************************)
(* The Docker NAT backend (src/docker.rs) as it is driven by               *)
(* build_docker_nat (src/builder.rs): several test runs, each a process    *)
(* with a backend of its own, share one Docker daemon.  Every awaited      *)
(* Docker call is one step, so runs interleave between any two calls.      *)
(*                                                                         *)
(* A run makes its configuration, sweeps stale resources, creates the      *)
(* public network, its gateways and its peers, is then in use, and is      *)
(* dropped: after a success by its user, after an error by the return from *)
(* the builder.  A crash (a killed process, or a network kept in a static, *)
(* whose Drop never runs) leaves whatever the daemon holds.                *)
(***************************************************************************)
EXTENDS Naturals, FiniteSets

CONSTANTS
  Runs,                \* test runs; each builds one network
  Gateways,            \* gateways per run (indices 0 .. Gateways - 1)
  Peers,               \* peers per run, each behind a router of its own
  MaxAge,              \* max_age of the startup sweep, in clock ticks
  MaxTime,             \* bound of the clock
  SecondOctets,        \* second octets drawn for the public subnet 172.X/16
  TakenOctets,         \* those that networks outside these runs occupy
  Bases,               \* second octets drawn for the private subnets 10.X/24
  MAX_SUBNET_RETRIES,  \* attempts of create_public_network
  CleanupOnDrop,       \* config.cleanup_on_drop
  DaemonFaults         \* the daemon may fail to list or remove, or lose a reply

ASSUME RunsAssumption == IsFiniteSet(Runs)
ASSUME CountsAssumption == Gateways \in Nat /\ Peers \in Nat
ASSUME ClockAssumption == MaxAge \in Nat /\ MaxTime \in Nat
ASSUME OctetsAssumption == SecondOctets \in SUBSET (0..255) /\ SecondOctets # {}
ASSUME TakenAssumption == TakenOctets \subseteq 0..255
ASSUME BasesAssumption == Bases \in SUBSET (0..255) /\ Bases # {}
ASSUME RetriesAssumption == MAX_SUBNET_RETRIES \in Nat \ {0}
ASSUME FlagsAssumption == CleanupOnDrop \in BOOLEAN /\ DaemonFaults \in BOOLEAN

VARIABLES
  now,                \* the wall clock, shared by the runs and the daemon
  dockerContainers,   \* the daemon's containers, by id
  dockerNetworks,     \* the daemon's networks, by id
  pc,                 \* where each run is
  idx,                \* loop variable of the gateway loop, then of the peer loop
  attempt,            \* loop variable of create_public_network
  stamp,              \* time written in name_prefix
  public_subnet,      \* second octet of config.public_subnet
  base,               \* second octet of config.private_subnet_base
  seen,               \* the clock as cleanup_stale_resources read it
  victims,            \* what the sweep listed and has not yet tried to remove
  containers,         \* DockerNatBackend::containers
  networks,           \* DockerNatBackend::networks
  public_network_id,  \* DockerNatBackend::public_network_id
  peer_containers,    \* DockerNatBackend::peer_containers
  processes           \* DockerProcess handles the run holds

daemon == <<dockerContainers, dockerNetworks>>
config == <<stamp, public_subnet, base>>
sweep == <<seen, victims>>
backend == <<containers, networks, public_network_id, peer_containers>>
vars == <<now, daemon, pc, idx, attempt, config, sweep, backend, processes>>

Index == 0..(Gateways + Peers - 1)
PublicIndex == {0}
ContainerIds == Runs \X {"gw", "router", "peer"} \X Index
NetworkIds == (Runs \X {"public"} \X PublicIndex) \union (Runs \X {"nat"} \X Index)
NoId == <<>>
Owner(id) == id[1]

\* Mutant: the peer loop does not start after the gateways.
PeerIndex_NoOffset(i) == i

\* The index create_peer is given for the i-th turn of the peer loop.
PeerIndex(i) == i + Gateways

Gateway(r, i) == <<r, "gw", i>>
Router(r, i) == <<r, "router", PeerIndex(i)>>
Peer(r, i) == <<r, "peer", PeerIndex(i)>>
PublicNetwork(r) == <<r, "public", 0>>
NatNetwork(r, i) == <<r, "nat", PeerIndex(i)>>

\* Subnets, told apart by their first two octets.
PublicSubnet(octet) == <<172, octet>>
NatSubnet(b, i) == <<10, (b + PeerIndex(i)) % 256>>
Subnets == {172, 10} \X (0..255)

NoContainer == [state |-> "absent", born |-> 0, nets |-> {}]
NoNetwork == [subnet |-> NoId, born |-> 0]
NoPeer == [container |-> NoId, router |-> NoId]

Exists(c) == dockerContainers[c].state # "absent"
Present(n) == dockerNetworks[n].subnet # NoId

\* The daemon refuses a subnet that overlaps one in use.
Overlaps(subnet) ==
  \/ subnet \in {PublicSubnet(o) : o \in TakenOctets}
  \/ \E n \in NetworkIds : dockerNetworks[n].subnet = subnet

\* The daemon refuses to remove a network that a running container is attached to.
InUse(n) == \E c \in ContainerIds : /\ dockerContainers[c].state = "running"
                                    /\ n \in dockerContainers[c].nets

SweepPoints == {"sweepContainers", "sweepNetworks"}
BuildPoints == {"createPublicNetwork", "createGateway", "connectGateway", "startGateway",
                "registerGateway", "createNatNetwork", "createRouter",
                "connectRouterPublic", "connectRouterPrivate", "startRouter",
                "createPeer", "connectPeer", "startPeer", "registerPeer"}
DropPoints == {"dropProcesses", "dropContainers", "dropNetworks"}
Points == {"idle", "configured", "built", "done", "crashed"}
            \union SweepPoints \union BuildPoints \union DropPoints

Goto(r, point) == pc' = [pc EXCEPT ![r] = point]

-----------------------------------------------------------------------------
\* The environment: time passes, and a container's process may exit by itself.

Tick ==
  /\ now < MaxTime
  /\ now' = now + 1
  /\ UNCHANGED <<daemon, pc, idx, attempt, config, sweep, backend, processes>>

ContainerExits(c) ==
  /\ dockerContainers[c].state = "running"
  /\ dockerContainers' = [dockerContainers EXCEPT ![c].state = "exited"]
  /\ UNCHANGED <<now, dockerNetworks, pc, idx, attempt, config, sweep, backend, processes>>

-----------------------------------------------------------------------------
\* Configuration and the sweep of stale resources.

Configure(r) ==
  /\ pc[r] = "idle"
  /\ stamp' = [stamp EXCEPT ![r] = now]
  /\ \E o \in SecondOctets : public_subnet' = [public_subnet EXCEPT ![r] = o]
  /\ \E b \in Bases : base' = [base EXCEPT ![r] = b]
  /\ Goto(r, "configured")
  /\ UNCHANGED <<now, daemon, idx, attempt, sweep, backend, processes>>

\* Mutant: what is exactly max_age old is taken, too.
Stale_AtMaxAge(t, s) == t + MaxAge <= s

\* created < cutoff, for a resource created at time t and the clock read at s.
Stale(t, s) == t + MaxAge < s

\* Mutant: the listing leaves out stopped containers (all: false).
ListedContainers_Running(s) ==
  {c \in ContainerIds : /\ dockerContainers[c].state = "running"
                        /\ Stale(dockerContainers[c].born, s)}

ListedContainers(s) == {c \in ContainerIds : Exists(c) /\ Stale(dockerContainers[c].born, s)}

\* Mutant: the listing finds public networks only.
ListedNetworks_Public(s) ==
  {n \in NetworkIds : n[2] = "public" /\ Present(n) /\ Stale(stamp[Owner(n)], s)}

\* A network's age is read from its name: it is the age of the configuration.
ListedNetworks(s) == {n \in NetworkIds : Present(n) /\ Stale(stamp[Owner(n)], s)}

\* DockerNatBackend::new up to the container listing; a failed listing is only logged.
New(r) ==
  /\ pc[r] = "configured"
  /\ seen' = [seen EXCEPT ![r] = now]
  /\ \/ /\ victims' = [victims EXCEPT ![r] = ListedContainers(now)]
        /\ Goto(r, "sweepContainers")
     \/ /\ DaemonFaults
        /\ victims' = [victims EXCEPT ![r] = {}]
        /\ Goto(r, "sweepContainers")
     \/ /\ UNCHANGED victims          \* the daemon cannot be reached
        /\ Goto(r, "done")
  /\ UNCHANGED <<now, daemon, idx, attempt, config, backend, processes>>

\* stop_container and remove_container(force) as the daemon carries them out; an
\* error, also that the container is gone, is ignored by every caller.
RemoveContainer(c) ==
  \/ dockerContainers' = [dockerContainers EXCEPT ![c] = NoContainer]
  \/ DaemonFaults /\ UNCHANGED dockerContainers

RemoveNetwork(n) ==
  \/ ~InUse(n) /\ dockerNetworks' = [dockerNetworks EXCEPT ![n] = NoNetwork]
  \/ (InUse(n) \/ DaemonFaults) /\ UNCHANGED dockerNetworks

SweepContainer(r, c) ==
  /\ pc[r] = "sweepContainers"
  /\ c \in victims[r]
  /\ RemoveContainer(c)
  /\ victims' = [victims EXCEPT ![r] = @ \ {c}]
  /\ UNCHANGED <<now, dockerNetworks, pc, idx, attempt, config, seen, backend, processes>>

ListNetworks(r) ==
  /\ pc[r] = "sweepContainers"
  /\ victims[r] = {}
  /\ \/ victims' = [victims EXCEPT ![r] = ListedNetworks(seen[r])]
     \/ DaemonFaults /\ UNCHANGED victims
  /\ Goto(r, "sweepNetworks")
  /\ UNCHANGED <<now, daemon, idx, attempt, config, seen, backend, processes>>

SweepNetwork(r, n) ==
  /\ pc[r] = "sweepNetworks"
  /\ n \in victims[r]
  /\ RemoveNetwork(n)
  /\ victims' = [victims EXCEPT ![r] = @ \ {n}]
  /\ UNCHANGED <<now, dockerContainers, pc, idx, attempt, config, seen, backend, processes>>

SweepDone(r) ==
  /\ pc[r] = "sweepNetworks"
  /\ victims[r] = {}
  /\ Goto(r, "createPublicNetwork")
  /\ UNCHANGED <<now, daemon, idx, attempt, config, sweep, backend, processes>>

-----------------------------------------------------------------------------
\* The Docker calls of the build.  Each is a step of its own; when a call returns
\* an error the builder returns, which drops everything it holds.

ApiError(r) ==
  /\ pc[r] \in BuildPoints
  /\ Goto(r, "dropProcesses")
  /\ UNCHANGED <<now, daemon, idx, attempt, config, sweep, backend, processes>>

\* create_network: the id is recorded when the reply arrives.
CreateNetwork(r, n, subnet) ==
  /\ ~Overlaps(subnet)
  /\ dockerNetworks' = [dockerNetworks EXCEPT ![n] = [subnet |-> subnet, born |-> now]]
  /\ UNCHANGED dockerContainers

RecordNetwork(r, n) == networks' = [networks EXCEPT ![r] = @ \union {n}]

\* Mutant: the ids of routers are not pushed.
RecordContainer_NoRouters(r, c) ==
  containers' = IF c[2] = "router" THEN containers
                ELSE [containers EXCEPT ![r] = @ \union {c}]

RecordContainer(r, c) == containers' = [containers EXCEPT ![r] = @ \union {c}]

\* create_container, whose id is recorded at once: before it is connected or started.
CreateContainer(r, at, c, next) ==
  /\ pc[r] = at
  /\ ~Exists(c)
  /\ dockerContainers' =
       [dockerContainers EXCEPT ![c] = [state |-> "created", born |-> now, nets |-> {}]]
  /\ \/ RecordContainer(r, c) /\ Goto(r, next)
     \/ DaemonFaults /\ UNCHANGED containers /\ Goto(r, "dropProcesses")
  /\ UNCHANGED <<now, dockerNetworks, idx, attempt, config, sweep, networks,
                 public_network_id, peer_containers, processes>>

ConnectNetwork(r, at, c, n, next) ==
  /\ pc[r] = at
  /\ Exists(c) /\ Present(n)
  /\ dockerContainers' = [dockerContainers EXCEPT ![c].nets = @ \union {n}]
  /\ Goto(r, next)
  /\ UNCHANGED <<now, dockerNetworks, idx, attempt, config, sweep, backend, processes>>

\* The uploads, if any, and start_container.
StartContainer(r, at, c, next) ==
  /\ pc[r] = at
  /\ Exists(c)
  /\ \A n \in dockerContainers[c].nets : Present(n)
  /\ dockerContainers' = [dockerContainers EXCEPT ![c].state = "running"]
  /\ Goto(r, next)
  /\ UNCHANGED <<now, dockerNetworks, idx, attempt, config, sweep, backend, processes>>

\* Mutant: a retry asks for another subnet than the one written to the configuration.
RequestedSubnet_Offset(r) == PublicSubnet(public_subnet[r] + attempt[r])

RequestedSubnet(r) == PublicSubnet(public_subnet[r])

CreatePublicNetwork(r) ==
  /\ pc[r] = "createPublicNetwork"
  /\ CreateNetwork(r, PublicNetwork(r), RequestedSubnet(r))
  /\ \/ /\ RecordNetwork(r, PublicNetwork(r))
        /\ public_network_id' = [public_network_id EXCEPT ![r] = PublicNetwork(r)]
        /\ Goto(r, IF Gateways > 0 THEN "createGateway"
                   ELSE IF Peers > 0 THEN "createNatNetwork" ELSE "built")
     \/ DaemonFaults /\ UNCHANGED <<networks, public_network_id>> /\ Goto(r, "dropProcesses")
  /\ UNCHANGED <<now, idx, attempt, config, sweep, containers, peer_containers, processes>>

\* Mutant: a retry walks on to the next octet.
Redraws_Next(old) == {old + 1}

\* The octets a retry may draw: any of the range, the one that overlapped included.
Redraws(old) == SecondOctets

\* Mutant: the attempts are not counted.
NextAttempt_Same(a) == a

NextAttempt(a) == a + 1

\* "Pool overlaps": draw again, at most MAX_SUBNET_RETRIES times in all.
RetryPublicSubnet(r) ==
  /\ pc[r] = "createPublicNetwork"
  /\ Overlaps(RequestedSubnet(r))
  /\ \E o \in Redraws(public_subnet[r]) : public_subnet' = [public_subnet EXCEPT ![r] = o]
  /\ attempt' = [attempt EXCEPT ![r] = NextAttempt(@)]
  /\ Goto(r, IF NextAttempt(attempt[r]) < MAX_SUBNET_RETRIES THEN "createPublicNetwork"
             ELSE "dropProcesses")
  /\ UNCHANGED <<now, daemon, idx, stamp, base, sweep, backend, processes>>

\* create_gateway, one action per Docker call.
CreateGateway(r) ==
  /\ public_network_id[r] # NoId
  /\ CreateContainer(r, "createGateway", Gateway(r, idx[r]), "connectGateway")

ConnectGateway(r) ==
  ConnectNetwork(r, "connectGateway", Gateway(r, idx[r]), public_network_id[r], "startGateway")

StartGateway(r) ==
  StartContainer(r, "startGateway", Gateway(r, idx[r]), "registerGateway")

\* Network emulation and the host port need a running container; then the gateway is
\* recorded and its handle returned to the builder, whose loop goes on.
RegisterGateway(r) ==
  LET c == Gateway(r, idx[r])
      more == idx[r] + 1 < Gateways
  IN  /\ pc[r] = "registerGateway"
      /\ dockerContainers[c].state = "running"
      /\ peer_containers' =
           [peer_containers EXCEPT ![r][idx[r]] = [container |-> c, router |-> NoId]]
      /\ processes' = [processes EXCEPT ![r] = @ \union {c}]
      /\ idx' = [idx EXCEPT ![r] = IF more THEN @ + 1 ELSE 0]
      /\ Goto(r, IF more THEN "createGateway"
                 ELSE IF Peers > 0 THEN "createNatNetwork" ELSE "built")
      /\ UNCHANGED <<now, daemon, attempt, config, sweep, containers, networks,
                     public_network_id>>

\* create_nat_network, called by create_peer: no retry when the subnet is taken.
CreateNatNetwork(r) ==
  LET n == NatNetwork(r, idx[r])
  IN  /\ pc[r] = "createNatNetwork"
      /\ CreateNetwork(r, n, NatSubnet(base[r], idx[r]))
      /\ \/ RecordNetwork(r, n) /\ Goto(r, "createRouter")
         \/ DaemonFaults /\ UNCHANGED networks /\ Goto(r, "dropProcesses")
      /\ UNCHANGED <<now, idx, attempt, config, sweep, containers, public_network_id,
                     peer_containers, processes>>

CreateRouter(r) ==
  /\ public_network_id[r] # NoId
  /\ CreateContainer(r, "createRouter", Router(r, idx[r]), "connectRouterPublic")

ConnectRouterPublic(r) ==
  ConnectNetwork(r, "connectRouterPublic", Router(r, idx[r]), public_network_id[r],
                 "connectRouterPrivate")

ConnectRouterPrivate(r) ==
  ConnectNetwork(r, "connectRouterPrivate", Router(r, idx[r]), NatNetwork(r, idx[r]),
                 "startRouter")

StartRouter(r) == StartContainer(r, "startRouter", Router(r, idx[r]), "createPeer")

\* The rest of create_peer.
CreatePeer(r) == CreateContainer(r, "createPeer", Peer(r, idx[r]), "connectPeer")

ConnectPeer(r) ==
  ConnectNetwork(r, "connectPeer", Peer(r, idx[r]), NatNetwork(r, idx[r]), "startPeer")

StartPeer(r) == StartContainer(r, "startPeer", Peer(r, idx[r]), "registerPeer")

RegisterPeer(r) ==
  LET c == Peer(r, idx[r])
      more == idx[r] + 1 < Peers
  IN  /\ pc[r] = "registerPeer"
      /\ dockerContainers[c].state = "running"
      /\ peer_containers' =
           [peer_containers EXCEPT ![r][PeerIndex(idx[r])] =
              [container |-> c, router |-> Router(r, idx[r])]]
      /\ processes' = [processes EXCEPT ![r] = @ \union {c}]
      /\ idx' = [idx EXCEPT ![r] = IF more THEN @ + 1 ELSE @]
      /\ Goto(r, IF more THEN "createNatNetwork" ELSE "built")
      /\ UNCHANGED <<now, daemon, attempt, config, sweep, containers, networks,
                     public_network_id>>

-----------------------------------------------------------------------------
\* Drop, after the user or a failed build lets the network go.

Release(r) ==
  /\ pc[r] = "built"
  /\ Goto(r, "dropProcesses")
  /\ UNCHANGED <<now, daemon, idx, attempt, config, sweep, backend, processes>>

\* DockerProcess::drop stops its container and ignores an error.
DropProcess(r, c) ==
  /\ pc[r] = "dropProcesses"
  /\ c \in processes[r]
  /\ \/ /\ dockerContainers[c].state = "running"
        /\ dockerContainers' = [dockerContainers EXCEPT ![c].state = "exited"]
     \/ /\ dockerContainers[c].state = "running" => DaemonFaults
        /\ UNCHANGED dockerContainers
  /\ processes' = [processes EXCEPT ![r] = @ \ {c}]
  /\ UNCHANGED <<now, dockerNetworks, pc, idx, attempt, config, sweep, backend>>

\* Drop of the backend, declared last and so dropped last.
DropBackend(r) ==
  /\ pc[r] = "dropProcesses"
  /\ processes[r] = {}
  /\ Goto(r, IF CleanupOnDrop THEN "dropContainers" ELSE "done")
  /\ UNCHANGED <<now, daemon, idx, attempt, config, sweep, backend, processes>>

\* The containers are removed in parallel, so in any order; join_all waits for all.
DropContainer(r, c) ==
  /\ pc[r] = "dropContainers"
  /\ c \in containers[r]
  /\ RemoveContainer(c)
  /\ containers' = [containers EXCEPT ![r] = @ \ {c}]
  /\ UNCHANGED <<now, dockerNetworks, pc, idx, attempt, config, sweep, networks,
                 public_network_id, peer_containers, processes>>

\* Mutant: the networks are removed without waiting for the containers (no join_all).
AllContainersDropped_NoJoin(r) ==
  /\ pc[r] = "dropContainers"
  /\ Goto(r, "dropNetworks")
  /\ UNCHANGED <<now, daemon, idx, attempt, config, sweep, backend, processes>>

\* Mutant: Drop waits until the daemon has really removed them all.
AllContainersDropped_Confirmed(r) ==
  /\ pc[r] = "dropContainers"
  /\ containers[r] = {} /\ \A c \in ContainerIds : Owner(c) = r => ~Exists(c)
  /\ Goto(r, "dropNetworks")
  /\ UNCHANGED <<now, daemon, idx, attempt, config, sweep, backend, processes>>

AllContainersDropped(r) ==
  /\ pc[r] = "dropContainers"
  /\ containers[r] = {}
  /\ Goto(r, "dropNetworks")
  /\ UNCHANGED <<now, daemon, idx, attempt, config, sweep, backend, processes>>

\* Mutant: when a removal is refused, the cleanup starts over.
DropNetwork_StartsOver(r, n) ==
  /\ pc[r] = "dropNetworks"
  /\ n \in networks[r]
  /\ RemoveNetwork(n)
  /\ IF dockerNetworks'[n] = NoNetwork
     THEN networks' = [networks EXCEPT ![r] = @ \ {n}] /\ UNCHANGED pc
     ELSE Goto(r, "dropContainers") /\ UNCHANGED networks
  /\ UNCHANGED <<now, dockerContainers, idx, attempt, config, sweep, containers,
                 public_network_id, peer_containers, processes>>

DropNetwork(r, n) ==
  /\ pc[r] = "dropNetworks"
  /\ n \in networks[r]
  /\ RemoveNetwork(n)
  /\ networks' = [networks EXCEPT ![r] = @ \ {n}]
  /\ UNCHANGED <<now, dockerContainers, pc, idx, attempt, config, sweep, containers,
                 public_network_id, peer_containers, processes>>

\* Mutant: the networks are not waited for.
AllNetworksDropped_NoWait(r) ==
  /\ pc[r] = "dropNetworks"
  /\ Goto(r, "done")
  /\ UNCHANGED <<now, daemon, idx, attempt, config, sweep, backend, processes>>

AllNetworksDropped(r) ==
  /\ pc[r] = "dropNetworks"
  /\ networks[r] = {}
  /\ Goto(r, "done")
  /\ UNCHANGED <<now, daemon, idx, attempt, config, sweep, backend, processes>>

\* The process dies without Drop: its memory is gone, the daemon's state is not.
Crash(r) ==
  /\ pc[r] \notin {"idle", "configured", "done", "crashed"}
  /\ Goto(r, "crashed")
  /\ victims' = [victims EXCEPT ![r] = {}]
  /\ containers' = [containers EXCEPT ![r] = {}]
  /\ networks' = [networks EXCEPT ![r] = {}]
  /\ public_network_id' = [public_network_id EXCEPT ![r] = NoId]
  /\ peer_containers' = [peer_containers EXCEPT ![r] = [i \in Index |-> NoPeer]]
  /\ processes' = [processes EXCEPT ![r] = {}]
  /\ UNCHANGED <<now, daemon, idx, attempt, config, seen>>

-----------------------------------------------------------------------------
Init ==
  /\ now = 0
  /\ dockerContainers = [c \in ContainerIds |-> NoContainer]
  /\ dockerNetworks = [n \in NetworkIds |-> NoNetwork]
  /\ pc = [r \in Runs |-> "idle"]
  /\ idx = [r \in Runs |-> 0]
  /\ attempt = [r \in Runs |-> 0]
  /\ stamp = [r \in Runs |-> 0]
  /\ public_subnet = [r \in Runs |-> CHOOSE o \in SecondOctets : TRUE]
  /\ base = [r \in Runs |-> CHOOSE b \in Bases : TRUE]
  /\ seen = [r \in Runs |-> 0]
  /\ victims = [r \in Runs |-> {}]
  /\ containers = [r \in Runs |-> {}]
  /\ networks = [r \in Runs |-> {}]
  /\ public_network_id = [r \in Runs |-> NoId]
  /\ peer_containers = [r \in Runs |-> [i \in Index |-> NoPeer]]
  /\ processes = [r \in Runs |-> {}]

SweepStep(r) ==
  \/ New(r)
  \/ \E c \in victims[r] : SweepContainer(r, c)
  \/ ListNetworks(r)
  \/ \E n \in victims[r] : SweepNetwork(r, n)
  \/ SweepDone(r)

BuildStep(r) ==
  \/ CreatePublicNetwork(r) \/ RetryPublicSubnet(r)
  \/ CreateGateway(r) \/ ConnectGateway(r) \/ StartGateway(r) \/ RegisterGateway(r)
  \/ CreateNatNetwork(r)
  \/ CreateRouter(r) \/ ConnectRouterPublic(r) \/ ConnectRouterPrivate(r) \/ StartRouter(r)
  \/ CreatePeer(r) \/ ConnectPeer(r) \/ StartPeer(r) \/ RegisterPeer(r)
  \/ ApiError(r)

DropStep(r) ==
  \/ \E c \in processes[r] : DropProcess(r, c)
  \/ DropBackend(r)
  \/ \E c \in containers[r] : DropContainer(r, c)
  \/ AllContainersDropped(r)
  \/ \E n \in networks[r] : DropNetwork(r, n)
  \/ AllNetworksDropped(r)

\* What the process does of its own accord once build is called.
RunStep(r) == SweepStep(r) \/ BuildStep(r) \/ DropStep(r)

Next ==
  \/ Tick
  \/ \E c \in ContainerIds : ContainerExits(c)
  \/ \E r \in Runs : Configure(r) \/ RunStep(r) \/ Release(r) \/ Crash(r)

Spec == Init /\ [][Next]_vars

\* Every awaited call returns (the client times out), and nothing else blocks a run;
\* when a user releases a network, or whether it crashes, is left open.
Fairness == \A r \in Runs : WF_vars(RunStep(r))
FairSpec == Spec /\ Fairness

-----------------------------------------------------------------------------
\* Properties

\* The meaning of max_age, apart from the comparison the sweep makes.
OlderThanMaxAge(t, s) == s > t + MaxAge

ContainerStates == {"absent", "created", "running", "exited"}

ContainerRecords == [state : ContainerStates, born : Nat, nets : SUBSET NetworkIds]
NetworkRecords == [subnet : Subnets \union {NoId}, born : Nat]
PeerInfos == [container : ContainerIds \union {NoId}, router : ContainerIds \union {NoId}]

DaemonTypeOK ==
  /\ dockerContainers \in [ContainerIds -> ContainerRecords]
  /\ dockerNetworks \in [NetworkIds -> NetworkRecords]

RunTypeOK ==
  /\ pc \in [Runs -> Points]
  /\ idx \in [Runs -> Nat]
  /\ attempt \in [Runs -> Nat]
  /\ stamp \in [Runs -> Nat]
  /\ public_subnet \in [Runs -> SecondOctets]
  /\ base \in [Runs -> Bases]
  /\ seen \in [Runs -> Nat]
  /\ victims \in [Runs -> SUBSET (ContainerIds \union NetworkIds)]
  /\ containers \in [Runs -> SUBSET ContainerIds]
  /\ networks \in [Runs -> SUBSET NetworkIds]
  /\ public_network_id \in [Runs -> NetworkIds \union {NoId}]
  /\ peer_containers \in [Runs -> [Index -> PeerInfos]]
  /\ processes \in [Runs -> SUBSET ContainerIds]

\* The type invariant.
TypeOK == now \in 0..MaxTime /\ DaemonTypeOK /\ RunTypeOK

\* Whatever a run has created and not crashed on is in the lists its Drop works from, at
\* every await: ids are pushed before the calls that can fail (docker.rs:538, 616, 749, 1036).
Tracked ==
  ~DaemonFaults =>
    \A r \in Runs : pc[r] # "crashed" =>
      /\ \A c \in ContainerIds : Exists(c) /\ Owner(c) = r => c \in containers[r]
      /\ \A n \in NetworkIds : Present(n) /\ Owner(n) = r => n \in networks[r]

\* A run that ended by Drop, however far its build had come, leaves no container and no
\* network in the daemon: "must happen after containers are disconnected" (docker.rs:1709).
NoLeak ==
  ~DaemonFaults /\ CleanupOnDrop =>
    \A r \in Runs : pc[r] = "done" =>
      /\ \A c \in ContainerIds : Exists(c) => Owner(c) # r
      /\ \A n \in NetworkIds : Present(n) => Owner(n) # r

\* The configuration a run derives its gateway and router addresses from names the subnet
\* its public network really has, also after "Pool overlaps" retries (docker.rs:552-555).
PublicSubnetAgrees ==
  \A r \in Runs : Present(PublicNetwork(r)) =>
    dockerNetworks[PublicNetwork(r)].subnet = PublicSubnet(public_subnet[r])

\* A network that was built has one entry per gateway and peer in peer_containers, a peer's
\* with its router, and every container named there is one Drop removes (docker.rs:1093, 1291).
AllRegistered ==
  \A r \in Runs : pc[r] = "built" =>
    \A i \in Index :
      LET info == peer_containers[r][i]
      IN  /\ info.container \in containers[r] \intersect processes[r]
          /\ IF i < Gateways THEN info.router = NoId ELSE info.router \in containers[r]

\* Only its own Drop removes a container younger than max_age, or a network whose run was
\* configured less than max_age ago: a sweep never reaches a run that has just begun.
SweptAreStale ==
  [][/\ \A c \in ContainerIds : Exists(c) /\ ~Exists(c)' =>
          pc[Owner(c)] = "dropContainers" \/ OlderThanMaxAge(dockerContainers[c].born, now)
     /\ \A n \in NetworkIds : Present(n) /\ ~Present(n)' =>
          pc[Owner(n)] = "dropNetworks" \/ OlderThanMaxAge(stamp[Owner(n)], now)]_vars

\* Once a run has swept, no container that was older than max_age at its start is left,
\* running or not, whichever run it belonged to (docker.rs:406-452).
SweepRemovesOld ==
  ~DaemonFaults =>
    \A r \in Runs : pc[r] \in BuildPoints \union {"built"} =>
      \A c \in ContainerIds : Exists(c) => ~OlderThanMaxAge(dockerContainers[c].born, seen[r])

\* For runs one after the other: a later run meets an old network of an earlier one, and so
\* perhaps "Pool overlaps", only together with a container that was too young to sweep.
RecoveredPools ==
  ~DaemonFaults =>
    \A r \in Runs : pc[r] \in BuildPoints =>
      \A n \in NetworkIds :
        Present(n) /\ Owner(n) # r /\ OlderThanMaxAge(dockerNetworks[n].born, seen[r]) =>
          \E c \in ContainerIds : Exists(c) /\ Owner(c) = Owner(n)

BeforeLoops == {"idle", "configured", "sweepContainers", "sweepNetworks", "createPublicNetwork"}
GatewayPoints == {"createGateway", "connectGateway", "startGateway", "registerGateway"}
PeerPoints == {"createNatNetwork", "createRouter", "connectRouterPublic",
               "connectRouterPrivate", "startRouter", "createPeer", "connectPeer",
               "startPeer", "registerPeer"}

\* What a run has still to do: turns of its loops, calls after the one it is at, and what is
\* left of the lists, and of the attempts, that it works off.
TurnsLeft(point, i) ==
  IF point \in BeforeLoops THEN Gateways + Peers
  ELSE IF point \in GatewayPoints THEN Gateways - i + Peers
  ELSE IF point \in PeerPoints THEN Peers - i
  ELSE 0

CallsLeft ==
  [idle |-> 22, configured |-> 21, sweepContainers |-> 20, sweepNetworks |-> 19,
   createPublicNetwork |-> 18,
   createGateway |-> 17, connectGateway |-> 16, startGateway |-> 15, registerGateway |-> 14,
   createNatNetwork |-> 13, createRouter |-> 12, connectRouterPublic |-> 11,
   connectRouterPrivate |-> 10, startRouter |-> 9, createPeer |-> 8, connectPeer |-> 7,
   startPeer |-> 6, registerPeer |-> 5,
   built |-> 4, dropProcesses |-> 3, dropContainers |-> 2, dropNetworks |-> 1,
   done |-> 0, crashed |-> 0]

ListLeft(r) ==
  Cardinality(victims[r]) + Cardinality(processes[r]) + Cardinality(containers[r])
    + Cardinality(networks[r]) + MAX_SUBNET_RETRIES - attempt[r]

Remaining(r) == <<TurnsLeft(pc[r], idx[r]), CallsLeft[pc[r]], ListLeft(r)>>

\* Triples of numbers in lexicographic order, in which nothing gets less for ever.
Triples == Nat \X Nat \X Nat
Less(m, n) ==
  \/ m[1] < n[1]
  \/ m[1] = n[1] /\ m[2] < n[2]
  \/ m[1] = n[1] /\ m[2] = n[2] /\ m[3] < n[3]

\* Whatever comes of a call that a run makes, its step leaves less to do, and nothing that
\* others do leaves a run more: no error makes it go round (docker.rs:517-519, 1680-1745).
EveryCallCounts ==
  [][\A r \in Runs : /\ Remaining(r) \in Triples
                     /\ \/ Less(Remaining(r)', Remaining(r))
                        \/ Remaining(r)' = Remaining(r) /\ ~RunStep(r)]_vars

\* build returns, with a network or an error, even if every subnet is taken, because the
\* retries are bounded (docker.rs:517-519).
BuildEnds == \A r \in Runs : pc[r] = "configured" ~> pc[r] \in {"built", "done", "crashed"}

\* A dropped network's cleanup ends, also when the daemon refuses every removal.
DropEnds == \A r \in Runs : pc[r] = "dropProcesses" ~> pc[r] \in {"done", "crashed"}

\* What the comment at docker.rs:359-363 says of the sweep: it preserves resources of
\* sessions still under way.  The code compares ages only.
SweepSparesLiveRuns ==
  [][\A c \in ContainerIds : Exists(c) /\ ~Exists(c)' =>
       pc[Owner(c)] \notin BuildPoints \union {"built"}]_vars
=============================================================================
