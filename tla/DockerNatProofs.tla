--------------------------- MODULE DockerNatProofs ---------------------------
(***************************************************************************)
(* Proofs about DockerNat: the type invariant, that a run that ends by     *)
(* Drop leaks nothing, that both loops register what they create, and that *)
(* every call leaves a run less to do, for any number of runs, gateways    *)
(* and peers.                                                              *)
(***************************************************************************)
EXTENDS DockerNat, FiniteSetTheorems, TLAPS

\* The loop variable is in range inside its loop, and the public network is known there.
LoopOK ==
  \A r \in Runs : /\ pc[r] \in GatewayPoints => idx[r] < Gateways
                  /\ pc[r] \in PeerPoints => idx[r] < Peers
                  /\ pc[r] \in GatewayPoints \union PeerPoints => public_network_id[r] # NoId
                  /\ pc[r] \in BeforeLoops => idx[r] = 0

\* A run's lists name its own resources.
ListsOwned ==
  \A r \in Runs : /\ \A c \in containers[r] : Owner(c) = r
                  /\ \A n \in networks[r] : Owner(n) = r
                  /\ public_network_id[r] \in {NoId, PublicNetwork(r)}

\* A container is only ever attached to networks of its own run.
NetsOwned == \A c \in ContainerIds : \A n \in dockerContainers[c].nets : Owner(n) = Owner(c)

DaemonInv == DaemonTypeOK /\ NetsOwned
RunInv == RunTypeOK /\ LoopOK /\ ListsOwned
TypeInv == now \in 0..MaxTime /\ DaemonInv /\ RunInv

\* When the lists are empty: before the build, and as Drop leaves them.
Emptied ==
  \A r \in Runs :
    /\ pc[r] \in {"idle", "configured"} \union SweepPoints =>
         containers[r] = {} /\ networks[r] = {}
    /\ pc[r] = "dropNetworks" => containers[r] = {}
    /\ CleanupOnDrop /\ pc[r] = "done" => containers[r] = {} /\ networks[r] = {}

IInv == TypeInv /\ Tracked /\ Emptied

-----------------------------------------------------------------------------
\* The names a run gives are ids of the right kind and are its own.
LEMMA Ids ==
  ASSUME NEW r \in Runs
  PROVE  /\ PublicNetwork(r) \in NetworkIds /\ Owner(PublicNetwork(r)) = r
         /\ \A i \in Nat : /\ Owner(Gateway(r, i)) = r /\ Owner(Router(r, i)) = r
                           /\ Owner(Peer(r, i)) = r /\ Owner(NatNetwork(r, i)) = r
         /\ \A i \in Nat : i < Gateways => Gateway(r, i) \in ContainerIds
         /\ \A i \in Nat : i < Peers => /\ Router(r, i) \in ContainerIds
                                       /\ Peer(r, i) \in ContainerIds
                                       /\ NatNetwork(r, i) \in NetworkIds
  BY CountsAssumption
     DEF PublicNetwork, Gateway, Router, Peer, NatNetwork, PeerIndex, Owner, ContainerIds,
         NetworkIds, Index, PublicIndex

\* The absent id is no id.
LEMMA NoIdIsNone == NoId \notin NetworkIds /\ NoId \notin ContainerIds
  BY DEF NoId, NetworkIds, ContainerIds

LEMMA SubnetTypes ==
  /\ \A o \in SecondOctets : PublicSubnet(o) \in Subnets
  /\ \A b \in Bases, i \in Nat : NatSubnet(b, i) \in Subnets
  BY CountsAssumption, OctetsAssumption, BasesAssumption
     DEF PublicSubnet, NatSubnet, PeerIndex, Subnets

LEMMA TypeInit == Init => TypeInv
  BY CountsAssumption, ClockAssumption, OctetsAssumption, BasesAssumption
     DEF Init, TypeInv, DaemonInv, RunInv, DaemonTypeOK, RunTypeOK, LoopOK, ListsOwned,
         NetsOwned, NoContainer, NoNetwork, NoPeer, ContainerStates, ContainerRecords,
         NetworkRecords, PeerInfos, Points, GatewayPoints, PeerPoints, BeforeLoops,
         DropPoints, NoId

\* Changing one container, or one network, keeps the daemon's state well formed.
LEMMA ContainerChange ==
  ASSUME DaemonInv, NEW c, NEW rec,
         c \in ContainerIds => rec \in ContainerRecords /\ \A n \in rec.nets : Owner(n) = Owner(c),
         dockerContainers' = [dockerContainers EXCEPT ![c] = rec],
         UNCHANGED dockerNetworks
  PROVE  DaemonInv'
  BY DEF DaemonInv, DaemonTypeOK, NetsOwned

LEMMA NetworkChange ==
  ASSUME DaemonInv, NEW n, NEW rec \in NetworkRecords,
         dockerNetworks' = [dockerNetworks EXCEPT ![n] = rec],
         UNCHANGED dockerContainers
  PROVE  DaemonInv'
  BY DEF DaemonInv, DaemonTypeOK, NetsOwned

LEMMA RemoveContainerDaemon ==
  ASSUME DaemonInv, NEW c, RemoveContainer(c), UNCHANGED dockerNetworks
  PROVE  DaemonInv'
<1>1. NoContainer \in ContainerRecords /\ NoContainer.nets = {}
  BY DEF NoContainer, ContainerRecords, ContainerStates
<1>2. CASE dockerContainers' = [dockerContainers EXCEPT ![c] = NoContainer]
  BY <1>1, <1>2, ContainerChange
<1>3. CASE UNCHANGED dockerContainers
  BY <1>3 DEF DaemonInv, DaemonTypeOK, NetsOwned
<1> QED
  BY <1>2, <1>3 DEF RemoveContainer

LEMMA RemoveNetworkDaemon ==
  ASSUME DaemonInv, NEW n, RemoveNetwork(n), UNCHANGED dockerContainers
  PROVE  DaemonInv'
<1>1. NoNetwork \in NetworkRecords
  BY DEF NoNetwork, NetworkRecords, NoId
<1>2. CASE dockerNetworks' = [dockerNetworks EXCEPT ![n] = NoNetwork]
  BY <1>1, <1>2, NetworkChange
<1>3. CASE UNCHANGED dockerNetworks
  BY <1>3 DEF DaemonInv, DaemonTypeOK, NetsOwned
<1> QED
  BY <1>2, <1>3 DEF RemoveNetwork

LEMMA CreateContainerDaemon ==
  ASSUME TypeInv, NEW r, NEW at, NEW c, NEW next, CreateContainer(r, at, c, next)
  PROVE  DaemonInv'
<1> DEFINE rec == [state |-> "created", born |-> now, nets |-> {}]
<1>1. rec \in ContainerRecords /\ rec.nets = {}
  BY ClockAssumption DEF TypeInv, ContainerRecords, ContainerStates
<1> QED
  BY <1>1, ContainerChange DEF CreateContainer, TypeInv

LEMMA ConnectNetworkDaemon ==
  ASSUME TypeInv, NEW r, NEW at, NEW c \in ContainerIds, NEW n \in NetworkIds, NEW next,
         Owner(n) = Owner(c), ConnectNetwork(r, at, c, n, next)
  PROVE  DaemonInv'
<1> DEFINE rec == [dockerContainers[c] EXCEPT !.nets = @ \union {n}]
<1>1. rec \in ContainerRecords /\ rec.nets = dockerContainers[c].nets \union {n}
  BY DEF TypeInv, DaemonInv, DaemonTypeOK, ContainerRecords
<1>2. \A m \in rec.nets : Owner(m) = Owner(c)
  BY <1>1 DEF TypeInv, DaemonInv, NetsOwned
<1>3. dockerContainers' = [dockerContainers EXCEPT ![c] = rec] /\ UNCHANGED dockerNetworks
  BY DEF ConnectNetwork
<1> QED
  BY <1>1, <1>2, <1>3, ContainerChange DEF TypeInv

\* Only the state of a container changes when it starts, is stopped or exits.
LEMMA StateChangeDaemon ==
  ASSUME TypeInv, NEW c \in ContainerIds, NEW s \in ContainerStates,
         dockerContainers' = [dockerContainers EXCEPT ![c].state = s],
         UNCHANGED dockerNetworks
  PROVE  DaemonInv'
<1> DEFINE rec == [dockerContainers[c] EXCEPT !.state = s]
<1>1. rec \in ContainerRecords /\ rec.nets = dockerContainers[c].nets
  BY DEF TypeInv, DaemonInv, DaemonTypeOK, ContainerRecords
<1>2. \A m \in rec.nets : Owner(m) = Owner(c)
  BY <1>1 DEF TypeInv, DaemonInv, NetsOwned
<1> QED
  BY <1>1, <1>2, ContainerChange DEF TypeInv

-----------------------------------------------------------------------------
\* Every step keeps the daemon's state well formed.
LEMMA DaemonStep ==
  ASSUME TypeInv, Next
  PROVE  DaemonInv'
<1>1. ASSUME UNCHANGED daemon PROVE DaemonInv'
  BY <1>1 DEF daemon, TypeInv, DaemonInv, DaemonTypeOK, NetsOwned
<1>2. CASE Tick
  BY <1>1, <1>2 DEF Tick
<1>3. ASSUME NEW c \in ContainerIds, ContainerExits(c) PROVE DaemonInv'
  BY <1>3, StateChangeDaemon DEF ContainerExits, ContainerStates
<1>4. ASSUME NEW r \in Runs, Configure(r) \/ Release(r) \/ Crash(r) PROVE DaemonInv'
  BY <1>1, <1>4 DEF Configure, Release, Crash
<1>5. ASSUME NEW r \in Runs, SweepStep(r) PROVE DaemonInv'
  <2>1. CASE New(r) \/ ListNetworks(r) \/ SweepDone(r)
    BY <1>1, <2>1 DEF New, ListNetworks, SweepDone
  <2>2. ASSUME NEW c \in victims[r], SweepContainer(r, c) PROVE DaemonInv'
    BY <2>2, RemoveContainerDaemon DEF SweepContainer, TypeInv
  <2>3. ASSUME NEW n \in victims[r], SweepNetwork(r, n) PROVE DaemonInv'
    BY <2>3, RemoveNetworkDaemon DEF SweepNetwork, TypeInv
  <2> QED
    BY <1>5, <2>1, <2>2, <2>3 DEF SweepStep
<1>6. ASSUME NEW r \in Runs, BuildStep(r) PROVE DaemonInv'
  <2> DEFINE i == idx[r]
  <2>1. /\ i \in Nat /\ pc[r] \in Points
        /\ pc[r] \in GatewayPoints => i < Gateways
        /\ pc[r] \in PeerPoints => i < Peers
        /\ pc[r] \in GatewayPoints \union PeerPoints => public_network_id[r] = PublicNetwork(r)
        /\ public_subnet[r] \in SecondOctets /\ base[r] \in Bases
    BY DEF TypeInv, RunInv, RunTypeOK, LoopOK, ListsOwned
  <2>2. ASSUME NEW n, NEW subnet \in Subnets, CreateNetwork(r, n, subnet) PROVE DaemonInv'
    <3>1. [subnet |-> subnet, born |-> now] \in NetworkRecords
      BY ClockAssumption DEF TypeInv, NetworkRecords
    <3> QED
      BY <2>2, <3>1, NetworkChange DEF CreateNetwork, TypeInv
  <2>3. CASE CreatePublicNetwork(r)
    BY <2>1, <2>2, <2>3, SubnetTypes DEF CreatePublicNetwork, RequestedSubnet
  <2>4. CASE CreateNatNetwork(r)
    BY <2>1, <2>2, <2>4, SubnetTypes DEF CreateNatNetwork
  <2>5. CASE CreateGateway(r) \/ CreateRouter(r) \/ CreatePeer(r)
    BY <2>5, CreateContainerDaemon DEF CreateGateway, CreateRouter, CreatePeer
  <2>6. CASE ConnectGateway(r)
    <3>1. i < Gateways
      BY <2>1, <2>6 DEF ConnectGateway, ConnectNetwork, GatewayPoints
    <3>2. public_network_id[r] = PublicNetwork(r)
      BY <2>1, <2>6 DEF ConnectGateway, ConnectNetwork, GatewayPoints
    <3> QED
      BY <2>1, <2>6, <3>1, <3>2, Ids, ConnectNetworkDaemon DEF ConnectGateway
  <2>7. CASE ConnectRouterPublic(r)
    <3>1. i < Peers /\ public_network_id[r] = PublicNetwork(r)
      BY <2>1, <2>7 DEF ConnectRouterPublic, ConnectNetwork, PeerPoints
    <3> QED
      BY <2>1, <2>7, <3>1, Ids, ConnectNetworkDaemon DEF ConnectRouterPublic
  <2>8. CASE ConnectRouterPrivate(r)
    <3>1. i < Peers
      BY <2>1, <2>8 DEF ConnectRouterPrivate, ConnectNetwork, PeerPoints
    <3> QED
      BY <2>1, <2>8, <3>1, Ids, ConnectNetworkDaemon DEF ConnectRouterPrivate
  <2>9. CASE ConnectPeer(r)
    <3>1. i < Peers
      BY <2>1, <2>9 DEF ConnectPeer, ConnectNetwork, PeerPoints
    <3> QED
      BY <2>1, <2>9, <3>1, Ids, ConnectNetworkDaemon DEF ConnectPeer
  <2>10. CASE StartGateway(r)
    <3>1. i < Gateways
      BY <2>1, <2>10 DEF StartGateway, StartContainer, GatewayPoints
    <3> QED
      BY <2>1, <2>10, <3>1, Ids, StateChangeDaemon DEF StartGateway, StartContainer, ContainerStates
  <2>11. CASE StartRouter(r) \/ StartPeer(r)
    <3>1. i < Peers
      BY <2>1, <2>11 DEF StartRouter, StartPeer, StartContainer, PeerPoints
    <3> QED
      BY <2>1, <2>11, <3>1, Ids, StateChangeDaemon
         DEF StartRouter, StartPeer, StartContainer, ContainerStates
  <2>12. CASE RetryPublicSubnet(r) \/ RegisterGateway(r) \/ RegisterPeer(r) \/ ApiError(r)
    BY <1>1, <2>12 DEF RetryPublicSubnet, RegisterGateway, RegisterPeer, ApiError
  <2> QED
    BY <1>6, <2>3, <2>4, <2>5, <2>6, <2>7, <2>8, <2>9, <2>10, <2>11, <2>12 DEF BuildStep
<1>7. ASSUME NEW r \in Runs, DropStep(r) PROVE DaemonInv'
  <2>1. ASSUME NEW c \in processes[r], DropProcess(r, c) PROVE DaemonInv'
    <3>1. c \in ContainerIds
      BY <2>1 DEF TypeInv, RunInv, RunTypeOK
    <3>2. CASE dockerContainers' = [dockerContainers EXCEPT ![c].state = "exited"]
      BY <2>1, <3>1, <3>2, StateChangeDaemon DEF DropProcess, ContainerStates
    <3>3. CASE UNCHANGED dockerContainers
      BY <1>1, <2>1, <3>3 DEF DropProcess, daemon
    <3> QED
      BY <2>1, <3>2, <3>3 DEF DropProcess
  <2>2. ASSUME NEW c \in containers[r], DropContainer(r, c) PROVE DaemonInv'
    BY <2>2, RemoveContainerDaemon DEF DropContainer, TypeInv
  <2>3. ASSUME NEW n \in networks[r], DropNetwork(r, n) PROVE DaemonInv'
    BY <2>3, RemoveNetworkDaemon DEF DropNetwork, TypeInv
  <2>4. CASE DropBackend(r) \/ AllContainersDropped(r) \/ AllNetworksDropped(r)
    BY <1>1, <2>4 DEF DropBackend, AllContainersDropped, AllNetworksDropped
  <2> QED
    BY <1>7, <2>1, <2>2, <2>3, <2>4 DEF DropStep
<1> QED
  BY <1>2, <1>3, <1>4, <1>5, <1>6, <1>7 DEF Next, RunStep

-----------------------------------------------------------------------------
\* Every step keeps the state of the runs well formed.
LEMMA RunInvStep ==
  ASSUME TypeInv, Next
  PROVE  now' \in 0..MaxTime /\ RunInv'
<1> USE CountsAssumption DEF TypeInv, RunInv, RunTypeOK, LoopOK, ListsOwned
<1> DEFINE runvars == <<pc, idx, attempt, config, sweep, backend, processes>>
<1>1. ASSUME UNCHANGED runvars PROVE RunInv'
  BY <1>1 DEF config, sweep, backend
<1>2. CASE Tick
  BY <1>1, <1>2, ClockAssumption DEF Tick
<1>3. ASSUME NEW c \in ContainerIds, ContainerExits(c) PROVE RunInv'
  BY <1>1, <1>3 DEF ContainerExits
<1>4. ASSUME NEW r \in Runs, Configure(r) PROVE RunInv'
  BY <1>4, ClockAssumption
     DEF Configure, Goto, sweep, backend, Points, GatewayPoints, PeerPoints, BeforeLoops
<1>5. ASSUME NEW r \in Runs, Release(r) PROVE RunInv'
  BY <1>5 DEF Release, Goto, config, sweep, backend, Points, GatewayPoints, PeerPoints,
              BeforeLoops, DropPoints
<1>6. ASSUME NEW r \in Runs, Crash(r) PROVE RunInv'
  BY <1>6 DEF Crash, Goto, config, Points, GatewayPoints, PeerPoints, BeforeLoops, NoPeer,
              PeerInfos
<1>7. ASSUME NEW r \in Runs, New(r) PROVE RunInv'
  <2>1. now \in Nat /\ ListedContainers(now) \subseteq ContainerIds
    BY ClockAssumption DEF ListedContainers
  <2>2. /\ victims' \in [Runs -> SUBSET (ContainerIds \union NetworkIds)]
        /\ seen' \in [Runs -> Nat]
    BY <1>7, <2>1 DEF New
  <2>3. pc' \in [Runs -> Points] /\ LoopOK'
    BY <1>7 DEF New, Goto, backend, Points, GatewayPoints, PeerPoints, BeforeLoops,
                SweepPoints
  <2> QED
    BY <1>7, <2>2, <2>3 DEF New, config, backend
<1>8. ASSUME NEW r \in Runs, NEW c \in victims[r], SweepContainer(r, c) PROVE RunInv'
  BY <1>8 DEF SweepContainer, config, backend
<1>9. ASSUME NEW r \in Runs, ListNetworks(r) PROVE RunInv'
  <2>1. ListedNetworks(seen[r]) \subseteq NetworkIds
    BY DEF ListedNetworks
  <2>2. victims' \in [Runs -> SUBSET (ContainerIds \union NetworkIds)]
    BY <1>9, <2>1 DEF ListNetworks
  <2>3. pc' \in [Runs -> Points] /\ LoopOK'
    BY <1>9 DEF ListNetworks, Goto, backend, Points, GatewayPoints, PeerPoints, BeforeLoops,
                SweepPoints
  <2> QED
    BY <1>9, <2>2, <2>3 DEF ListNetworks, config, backend
<1>10. ASSUME NEW r \in Runs, NEW n \in victims[r], SweepNetwork(r, n) PROVE RunInv'
  BY <1>10 DEF SweepNetwork, config, backend
<1>11. ASSUME NEW r \in Runs, SweepDone(r) PROVE RunInv'
  BY <1>11 DEF SweepDone, Goto, config, sweep, backend, Points, GatewayPoints, PeerPoints,
               BeforeLoops, BuildPoints
<1>12. ASSUME NEW r \in Runs, ApiError(r) PROVE RunInv'
  BY <1>12 DEF ApiError, Goto, config, sweep, backend, Points, GatewayPoints, PeerPoints,
               BeforeLoops, DropPoints
<1>13. ASSUME NEW r \in Runs, CreatePublicNetwork(r) PROVE RunInv'
  <2>1. CASE /\ RecordNetwork(r, PublicNetwork(r))
             /\ public_network_id' = [public_network_id EXCEPT ![r] = PublicNetwork(r)]
             /\ Goto(r, IF Gateways > 0 THEN "createGateway"
                        ELSE IF Peers > 0 THEN "createNatNetwork" ELSE "built")
    <3>1. RunTypeOK' /\ ListsOwned'
      BY <1>13, <2>1, Ids
         DEF CreatePublicNetwork, RecordNetwork, Goto, config, sweep, Points, BuildPoints
    <3>2. LoopOK'
      BY <1>13, <2>1, Ids, NoIdIsNone
         DEF CreatePublicNetwork, Goto, GatewayPoints, PeerPoints, BeforeLoops
    <3> QED
      BY <3>1, <3>2
  <2>2. CASE UNCHANGED <<networks, public_network_id>> /\ Goto(r, "dropProcesses")
    BY <1>13, <2>2
       DEF CreatePublicNetwork, Goto, config, sweep, Points, GatewayPoints, PeerPoints,
           BeforeLoops, DropPoints
  <2> QED
    BY <1>13, <2>1, <2>2 DEF CreatePublicNetwork
<1>14. ASSUME NEW r \in Runs, RetryPublicSubnet(r) PROVE RunInv'
  BY <1>14 DEF RetryPublicSubnet, Redraws, NextAttempt, Goto, sweep, backend, Points,
               GatewayPoints, PeerPoints, BeforeLoops, BuildPoints, DropPoints
<1>15. ASSUME NEW r \in Runs, CreateNatNetwork(r) PROVE RunInv'
  <2>1. idx[r] < Peers
    BY <1>15 DEF CreateNatNetwork, PeerPoints
  <2>2. CASE RecordNetwork(r, NatNetwork(r, idx[r])) /\ Goto(r, "createRouter")
    <3>1. RunTypeOK' /\ ListsOwned'
      BY <1>15, <2>1, <2>2, Ids
         DEF CreateNatNetwork, RecordNetwork, Goto, config, sweep, Points, BuildPoints
    <3>2. LoopOK'
      BY <1>15, <2>1, <2>2
         DEF CreateNatNetwork, Goto, GatewayPoints, PeerPoints, BeforeLoops
    <3> QED
      BY <3>1, <3>2
  <2>3. CASE UNCHANGED networks /\ Goto(r, "dropProcesses")
    BY <1>15, <2>3
       DEF CreateNatNetwork, Goto, config, sweep, Points, GatewayPoints, PeerPoints,
           BeforeLoops, DropPoints
  <2> QED
    BY <1>15, <2>2, <2>3 DEF CreateNatNetwork
<1>16. ASSUME NEW r \in Runs, NEW at, NEW c \in ContainerIds, NEW next \in BuildPoints,
              Owner(c) = r, CreateContainer(r, at, c, next),
              {at, next} \subseteq GatewayPoints \/ {at, next} \subseteq PeerPoints
       PROVE  RunInv'
  <2>1. CASE RecordContainer(r, c) /\ Goto(r, next)
    <3>1. RunTypeOK' /\ ListsOwned'
      BY <1>16, <2>1 DEF CreateContainer, RecordContainer, Goto, config, sweep, Points
    <3>2. LoopOK'
      BY <1>16, <2>1 DEF CreateContainer, Goto, GatewayPoints, PeerPoints, BeforeLoops
    <3> QED
      BY <3>1, <3>2
  <2>2. CASE UNCHANGED containers /\ Goto(r, "dropProcesses")
    BY <1>16, <2>2
       DEF CreateContainer, Goto, config, sweep, Points, GatewayPoints, PeerPoints,
           BeforeLoops, DropPoints
  <2> QED
    BY <1>16, <2>1, <2>2 DEF CreateContainer
<1>17. ASSUME NEW r \in Runs, NEW at, NEW next \in BuildPoints, pc[r] = at, Goto(r, next),
              UNCHANGED <<now, idx, attempt, config, sweep, backend, processes>>,
              {at, next} \subseteq GatewayPoints \/ {at, next} \subseteq PeerPoints
       PROVE  RunInv'
  BY <1>17 DEF Goto, config, sweep, backend, Points, GatewayPoints, PeerPoints, BeforeLoops
<1>18. ASSUME NEW r \in Runs, CreateGateway(r) \/ CreateRouter(r) \/ CreatePeer(r) PROVE RunInv'
  <2>1. CASE CreateGateway(r)
    <3>1. idx[r] < Gateways
      BY <2>1 DEF CreateGateway, CreateContainer, GatewayPoints
    <3> QED
      BY <1>16, <2>1, <3>1, Ids DEF CreateGateway, BuildPoints, GatewayPoints
  <2>2. CASE CreateRouter(r)
    <3>1. idx[r] < Peers
      BY <2>2 DEF CreateRouter, CreateContainer, PeerPoints
    <3> QED
      BY <1>16, <2>2, <3>1, Ids DEF CreateRouter, BuildPoints, PeerPoints
  <2>3. CASE CreatePeer(r)
    <3>1. idx[r] < Peers
      BY <2>3 DEF CreatePeer, CreateContainer, PeerPoints
    <3> QED
      BY <1>16, <2>3, <3>1, Ids DEF CreatePeer, BuildPoints, PeerPoints
  <2> QED
    BY <1>18, <2>1, <2>2, <2>3
<1>19. ASSUME NEW r \in Runs, ConnectGateway(r) \/ StartGateway(r) PROVE RunInv'
  BY <1>17, <1>19 DEF ConnectGateway, StartGateway, ConnectNetwork, StartContainer, BuildPoints,
                      GatewayPoints
<1>20. ASSUME NEW r \in Runs,
              \/ ConnectRouterPublic(r) \/ ConnectRouterPrivate(r) \/ StartRouter(r)
              \/ ConnectPeer(r) \/ StartPeer(r)
       PROVE  RunInv'
  BY <1>17, <1>20 DEF ConnectRouterPublic, ConnectRouterPrivate, StartRouter, ConnectPeer,
                      StartPeer, ConnectNetwork, StartContainer, BuildPoints, PeerPoints
<1>21. ASSUME NEW r \in Runs, RegisterGateway(r) PROVE RunInv'
  <2>1. idx[r] < Gateways
    BY <1>21 DEF RegisterGateway, GatewayPoints
  <2>2. Gateway(r, idx[r]) \in ContainerIds
    BY <2>1, Ids
  <2>3. peer_containers' \in [Runs -> [Index -> PeerInfos]]
    BY <1>21, <2>2 DEF RegisterGateway, PeerInfos
  <2>4. RunTypeOK' /\ ListsOwned'
    BY <1>21, <2>2, <2>3 DEF RegisterGateway, Goto, config, sweep, Points, BuildPoints
  <2>5. LoopOK'
    BY <1>21, <2>1 DEF RegisterGateway, Goto, GatewayPoints, PeerPoints, BeforeLoops
  <2> QED
    BY <2>4, <2>5
<1>22. ASSUME NEW r \in Runs, RegisterPeer(r) PROVE RunInv'
  <2>1. idx[r] < Peers
    BY <1>22 DEF RegisterPeer, PeerPoints
  <2>2. Peer(r, idx[r]) \in ContainerIds /\ Router(r, idx[r]) \in ContainerIds
    BY <2>1, Ids
  <2>3. peer_containers' \in [Runs -> [Index -> PeerInfos]]
    BY <1>22, <2>2 DEF RegisterPeer, PeerInfos
  <2>4. RunTypeOK' /\ ListsOwned'
    BY <1>22, <2>2, <2>3 DEF RegisterPeer, Goto, config, sweep, Points, BuildPoints
  <2>5. LoopOK'
    BY <1>22, <2>1 DEF RegisterPeer, Goto, GatewayPoints, PeerPoints, BeforeLoops
  <2> QED
    BY <2>4, <2>5
<1>23. ASSUME NEW r \in Runs, DropStep(r) PROVE RunInv'
  <2>1. ASSUME NEW c \in processes[r], DropProcess(r, c) PROVE RunInv'
    BY <2>1 DEF DropProcess, config, sweep, backend
  <2>2. ASSUME NEW c \in containers[r], DropContainer(r, c) PROVE RunInv'
    BY <2>2 DEF DropContainer, config, sweep
  <2>3. ASSUME NEW n \in networks[r], DropNetwork(r, n) PROVE RunInv'
    BY <2>3 DEF DropNetwork, config, sweep
  <2>4. CASE DropBackend(r)
    BY <2>4 DEF DropBackend, Goto, config, sweep, backend, Points, GatewayPoints, PeerPoints,
                BeforeLoops, DropPoints
  <2>5. CASE AllContainersDropped(r)
    BY <2>5 DEF AllContainersDropped, Goto, config, sweep, backend, Points, GatewayPoints,
                PeerPoints, BeforeLoops, DropPoints
  <2>6. CASE AllNetworksDropped(r)
    BY <2>6 DEF AllNetworksDropped, Goto, config, sweep, backend, Points, GatewayPoints,
                PeerPoints, BeforeLoops
  <2> QED
    BY <1>23, <2>1, <2>2, <2>3, <2>4, <2>5, <2>6 DEF DropStep
<1>24. ASSUME NEW r \in Runs, SweepStep(r) PROVE RunInv'
  BY <1>7, <1>8, <1>9, <1>10, <1>11, <1>24 DEF SweepStep
<1>25. ASSUME NEW r \in Runs, BuildStep(r) PROVE RunInv'
  BY <1>12, <1>13, <1>14, <1>15, <1>18, <1>19, <1>20, <1>21, <1>22, <1>25 DEF BuildStep
<1>26. RunInv'
  BY <1>2, <1>3, <1>4, <1>5, <1>6, <1>23, <1>24, <1>25 DEF Next, RunStep
<1>27. now' \in 0..MaxTime
  <2>1. CASE Tick
    BY <2>1, ClockAssumption DEF Tick
  <2>2. CASE UNCHANGED now
    BY <2>2
  <2>3. ASSUME NEW r \in Runs, SweepStep(r) PROVE UNCHANGED now
    BY <2>3 DEF SweepStep, New, SweepContainer, ListNetworks, SweepNetwork, SweepDone
  <2>4. ASSUME NEW r \in Runs, BuildStep(r) PROVE UNCHANGED now
    <3>1. CASE CreateGateway(r) \/ CreateRouter(r) \/ CreatePeer(r)
      BY <3>1 DEF CreateGateway, CreateRouter, CreatePeer, CreateContainer
    <3>2. CASE \/ ConnectGateway(r) \/ ConnectRouterPublic(r) \/ ConnectRouterPrivate(r)
               \/ ConnectPeer(r)
      BY <3>2 DEF ConnectGateway, ConnectRouterPublic, ConnectRouterPrivate, ConnectPeer,
                  ConnectNetwork
    <3>3. CASE StartGateway(r) \/ StartRouter(r) \/ StartPeer(r)
      BY <3>3 DEF StartGateway, StartRouter, StartPeer, StartContainer
    <3>4. CASE \/ CreatePublicNetwork(r) \/ RetryPublicSubnet(r) \/ CreateNatNetwork(r)
               \/ RegisterGateway(r) \/ RegisterPeer(r) \/ ApiError(r)
      BY <3>4 DEF CreatePublicNetwork, RetryPublicSubnet, CreateNatNetwork, RegisterGateway,
                  RegisterPeer, ApiError
    <3> QED
      BY <2>4, <3>1, <3>2, <3>3, <3>4 DEF BuildStep
  <2>5. ASSUME NEW r \in Runs, DropStep(r) PROVE UNCHANGED now
    BY <2>5 DEF DropStep, DropProcess, DropBackend, DropContainer, AllContainersDropped,
                DropNetwork, AllNetworksDropped
  <2>6. Tick \/ UNCHANGED now
    BY <2>3, <2>4, <2>5 DEF Next, RunStep, ContainerExits, Configure, Release, Crash
  <2> QED
    BY <2>1, <2>2, <2>6
<1> QED
  BY <1>26, <1>27

LEMMA TypeStep ==
  ASSUME TypeInv, [Next]_vars
  PROVE  TypeInv'
<1>1. CASE UNCHANGED vars
  BY <1>1 DEF vars, daemon, config, sweep, backend, TypeInv, DaemonInv, RunInv, DaemonTypeOK,
              RunTypeOK, NetsOwned, LoopOK, ListsOwned
<1> QED
  BY <1>1, DaemonStep, RunInvStep DEF TypeInv

\* The type invariant holds throughout, for every number of runs, gateways and peers.
THEOREM TypeCorrect == Spec => []TypeOK
<1>1. TypeInv => TypeOK
  BY DEF TypeInv, TypeOK, DaemonInv, RunInv
<1> QED
  BY <1>1, TypeInit, TypeStep, PTL DEF Spec

-----------------------------------------------------------------------------
\* Emptied is kept by every step, whatever the daemon does.
LEMMA EmptiedStep ==
  ASSUME TypeInv, Emptied, Next
  PROVE  Emptied'
<1> USE DEF TypeInv, RunInv, RunTypeOK, Emptied, SweepPoints
<1>1. ASSUME UNCHANGED <<pc, containers, networks>> PROVE Emptied'
  BY <1>1
<1>2. CASE Tick \/ \E c \in ContainerIds : ContainerExits(c)
  BY <1>1, <1>2 DEF Tick, ContainerExits, backend
<1>3. ASSUME NEW r \in Runs, Configure(r) \/ Release(r) \/ Crash(r) PROVE Emptied'
  BY <1>3 DEF Configure, Release, Crash, Goto, backend
<1>4. ASSUME NEW r \in Runs, SweepStep(r) PROVE Emptied'
  <2>1. CASE New(r) \/ ListNetworks(r) \/ SweepDone(r)
    BY <2>1 DEF New, ListNetworks, SweepDone, Goto, backend
  <2>2. CASE \/ \E c \in victims[r] : SweepContainer(r, c)
             \/ \E n \in victims[r] : SweepNetwork(r, n)
    BY <1>1, <2>2 DEF SweepContainer, SweepNetwork, backend
  <2> QED
    BY <1>4, <2>1, <2>2 DEF SweepStep
<1>5. ASSUME NEW r \in Runs, BuildStep(r) PROVE Emptied'
  <2>1. /\ pc[r] \in BuildPoints
        /\ pc'[r] \in BuildPoints \union {"built", "dropProcesses"}
        /\ \A q \in Runs \ {r} : /\ pc'[q] = pc[q] /\ containers'[q] = containers[q]
                                 /\ networks'[q] = networks[q]
    <3>1. CASE CreateGateway(r) \/ CreateRouter(r) \/ CreatePeer(r)
      BY <3>1 DEF CreateGateway, CreateRouter, CreatePeer, CreateContainer, RecordContainer,
                  Goto, BuildPoints
    <3>2. CASE \/ ConnectGateway(r) \/ ConnectRouterPublic(r) \/ ConnectRouterPrivate(r)
               \/ ConnectPeer(r)
      BY <3>2 DEF ConnectGateway, ConnectRouterPublic, ConnectRouterPrivate, ConnectPeer,
                  ConnectNetwork, Goto, BuildPoints, backend
    <3>3. CASE StartGateway(r) \/ StartRouter(r) \/ StartPeer(r)
      BY <3>3 DEF StartGateway, StartRouter, StartPeer, StartContainer, Goto, BuildPoints,
                  backend
    <3>4. CASE CreatePublicNetwork(r) \/ CreateNatNetwork(r)
      BY <3>4 DEF CreatePublicNetwork, CreateNatNetwork, RecordNetwork, Goto, BuildPoints
    <3>5. CASE RetryPublicSubnet(r) \/ RegisterGateway(r) \/ RegisterPeer(r) \/ ApiError(r)
      BY <3>5 DEF RetryPublicSubnet, RegisterGateway, RegisterPeer, ApiError, Goto,
                  BuildPoints, backend
    <3> QED
      BY <1>5, <3>1, <3>2, <3>3, <3>4, <3>5 DEF BuildStep
  <2> QED
    BY <2>1 DEF BuildPoints
<1>6. ASSUME NEW r \in Runs, DropStep(r) PROVE Emptied'
  <2>1. CASE \E c \in processes[r] : DropProcess(r, c)
    BY <1>1, <2>1 DEF DropProcess, backend
  <2>2. CASE \/ \E c \in containers[r] : DropContainer(r, c)
             \/ \E n \in networks[r] : DropNetwork(r, n)
    BY <2>2 DEF DropContainer, DropNetwork
  <2>3. CASE DropBackend(r) \/ AllContainersDropped(r) \/ AllNetworksDropped(r)
    BY <2>3 DEF DropBackend, AllContainersDropped, AllNetworksDropped, Goto, backend
  <2> QED
    BY <1>6, <2>1, <2>2, <2>3 DEF DropStep
<1> QED
  BY <1>2, <1>3, <1>4, <1>5, <1>6 DEF Next, RunStep

\* A step that adds nothing to the daemon and takes nothing off the lists of a run that
\* goes on keeps Tracked.
LEMMA TrackedFrame ==
  ASSUME Tracked,
         \A c \in ContainerIds : Exists(c)' => Exists(c),
         \A n \in NetworkIds : Present(n)' => Present(n),
         \A q \in Runs : pc'[q] # "crashed" =>
           /\ pc[q] # "crashed"
           /\ containers[q] \subseteq containers'[q]
           /\ networks[q] \subseteq networks'[q]
  PROVE  Tracked'
  BY DEF Tracked

\* Without daemon faults, every step keeps Tracked.
LEMMA TrackedStep ==
  ASSUME TypeInv, Tracked, Emptied, Next
  PROVE  Tracked'
<1> SUFFICES ASSUME ~DaemonFaults PROVE Tracked'
  BY DEF Tracked
<1> USE DEF TypeInv, RunInv, RunTypeOK, DaemonInv, DaemonTypeOK
<1>1. ASSUME UNCHANGED daemon, UNCHANGED <<pc, backend>> PROVE Tracked'
  BY <1>1 DEF Tracked, daemon, backend, Exists, Present
<1>2. CASE Tick
  BY <1>1, <1>2 DEF Tick
<1>3. ASSUME NEW c \in ContainerIds, ContainerExits(c) PROVE Tracked'
  <2>1. \A d \in ContainerIds : Exists(d)' => Exists(d)
    BY <1>3 DEF ContainerExits, Exists
  <2> QED
    BY <1>3, <2>1 DEF ContainerExits, Tracked, Present, backend
<1>4. ASSUME NEW r \in Runs, Configure(r) \/ Release(r) \/ Crash(r) PROVE Tracked'
  BY <1>4, TrackedFrame DEF Configure, Release, Crash, Goto, backend, daemon, Exists, Present
<1>5. ASSUME NEW c, NEW rec, rec.state # "absent", Exists(c),
             dockerContainers' = [dockerContainers EXCEPT ![c] = rec],
             UNCHANGED dockerNetworks
      PROVE  /\ \A d \in ContainerIds : Exists(d)' => Exists(d)
             /\ \A n \in NetworkIds : Present(n)' => Present(n)
  BY <1>5 DEF Exists, Present
<1>6. ASSUME NEW c, RemoveContainer(c), UNCHANGED dockerNetworks
      PROVE  /\ \A d \in ContainerIds : Exists(d)' => Exists(d)
             /\ \A n \in NetworkIds : Present(n)' => Present(n)
             /\ c \in ContainerIds => ~Exists(c)'
  BY <1>6 DEF RemoveContainer, NoContainer, Exists, Present
<1>7. ASSUME NEW n, RemoveNetwork(n), UNCHANGED dockerContainers
      PROVE  /\ \A d \in ContainerIds : Exists(d)' => Exists(d)
             /\ \A m \in NetworkIds : Present(m)' => Present(m)
             /\ n \in NetworkIds /\ ~InUse(n) => ~Present(n)'
  <2>1. CASE ~InUse(n) /\ dockerNetworks' = [dockerNetworks EXCEPT ![n] = NoNetwork]
    BY <1>7, <2>1 DEF NoNetwork, Exists, Present
  <2>2. CASE InUse(n) /\ UNCHANGED dockerNetworks
    BY <1>7, <2>2 DEF Exists, Present
  <2> QED
    BY <1>7, <2>1, <2>2 DEF RemoveNetwork
<1>8. ASSUME NEW r \in Runs, SweepStep(r) PROVE Tracked'
  <2>1. CASE New(r) \/ ListNetworks(r) \/ SweepDone(r)
    BY <2>1, TrackedFrame DEF New, ListNetworks, SweepDone, Goto, backend, daemon, Exists,
                              Present
  <2>2. ASSUME NEW c \in victims[r], SweepContainer(r, c) PROVE Tracked'
    BY <1>6, <2>2, TrackedFrame DEF SweepContainer, backend
  <2>3. ASSUME NEW n \in victims[r], SweepNetwork(r, n) PROVE Tracked'
    BY <1>7, <2>3, TrackedFrame DEF SweepNetwork, backend
  <2> QED
    BY <1>8, <2>1, <2>2, <2>3 DEF SweepStep
<1>9. ASSUME NEW r \in Runs, NEW at \in BuildPoints, NEW c \in ContainerIds, NEW next,
             Owner(c) = r, CreateContainer(r, at, c, next)
      PROVE  Tracked'
  <2>1. RecordContainer(r, c)
    BY <1>9 DEF CreateContainer
  <2>2. \A d \in ContainerIds : Exists(d)' => Exists(d) \/ d = c
    BY <1>9 DEF CreateContainer, Exists
  <2>3. \A n \in NetworkIds : Present(n)' => Present(n)
    BY <1>9 DEF CreateContainer, Present
  <2>4. \A q \in Runs : pc'[q] # "crashed" => pc[q] # "crashed"
    BY <1>9 DEF CreateContainer, Goto, BuildPoints
  <2> QED
    BY <1>9, <2>1, <2>2, <2>3, <2>4 DEF Tracked, RecordContainer, CreateContainer
<1>10. ASSUME NEW r \in Runs, NEW n \in NetworkIds, NEW subnet, Owner(n) = r,
              CreateNetwork(r, n, subnet), RecordNetwork(r, n), UNCHANGED containers,
              \A q \in Runs : pc'[q] # "crashed" => pc[q] # "crashed"
      PROVE  Tracked'
  <2>1. \A m \in NetworkIds : Present(m)' => Present(m) \/ m = n
    BY <1>10 DEF CreateNetwork, Present
  <2>2. \A d \in ContainerIds : Exists(d)' => Exists(d)
    BY <1>10 DEF CreateNetwork, Exists
  <2> QED
    BY <1>10, <2>1, <2>2 DEF Tracked, RecordNetwork
<1>11. ASSUME NEW r \in Runs, BuildStep(r) PROVE Tracked'
  <2>1. /\ pc[r] \in GatewayPoints => idx[r] < Gateways
        /\ pc[r] \in PeerPoints => idx[r] < Peers
    BY DEF LoopOK
  <2>2. CASE CreateGateway(r)
    <3>1. idx[r] < Gateways
      BY <2>1, <2>2 DEF CreateGateway, CreateContainer, GatewayPoints
    <3> QED
      BY <1>9, <2>2, <3>1, Ids DEF CreateGateway, BuildPoints
  <2>3. CASE CreateRouter(r) \/ CreatePeer(r)
    <3>1. idx[r] < Peers
      BY <2>1, <2>3 DEF CreateRouter, CreatePeer, CreateContainer, PeerPoints
    <3> QED
      BY <1>9, <2>3, <3>1, Ids DEF CreateRouter, CreatePeer, BuildPoints
  <2>4. CASE CreatePublicNetwork(r)
    <3>1. \A q \in Runs : pc'[q] # "crashed" => pc[q] # "crashed"
      BY <2>4 DEF CreatePublicNetwork, Goto
    <3> QED
      BY <1>10, <2>4, <3>1, Ids DEF CreatePublicNetwork
  <2>5. CASE CreateNatNetwork(r)
    <3>1. idx[r] < Peers
      BY <2>1, <2>5 DEF CreateNatNetwork, PeerPoints
    <3>2. \A q \in Runs : pc'[q] # "crashed" => pc[q] # "crashed"
      BY <2>5 DEF CreateNatNetwork, Goto
    <3> QED
      BY <1>10, <2>5, <3>1, <3>2, Ids DEF CreateNatNetwork
  <2>6. CASE RetryPublicSubnet(r) \/ RegisterGateway(r) \/ RegisterPeer(r) \/ ApiError(r)
    BY <2>6, TrackedFrame DEF RetryPublicSubnet, RegisterGateway, RegisterPeer, ApiError, Goto,
                              BuildPoints, backend, daemon, Exists, Present
  <2>7. ASSUME NEW at \in BuildPoints, NEW c, NEW n, NEW next, ConnectNetwork(r, at, c, n, next)
        PROVE  Tracked'
    <3>1. \A d \in ContainerIds : Exists(d)' => Exists(d)
      BY <2>7 DEF ConnectNetwork, Exists
    <3> QED
      BY <2>7, <3>1, TrackedFrame DEF ConnectNetwork, Goto, BuildPoints, backend, Present
  <2>8. ASSUME NEW at \in BuildPoints, NEW c, NEW next, StartContainer(r, at, c, next)
        PROVE  Tracked'
    <3>1. \A d \in ContainerIds : Exists(d)' => Exists(d)
      BY <2>8 DEF StartContainer, Exists
    <3> QED
      BY <2>8, <3>1, TrackedFrame DEF StartContainer, Goto, BuildPoints, backend, Present
  <2>9. CASE \/ ConnectGateway(r) \/ ConnectRouterPublic(r) \/ ConnectRouterPrivate(r)
             \/ ConnectPeer(r)
    BY <2>7, <2>9 DEF ConnectGateway, ConnectRouterPublic, ConnectRouterPrivate, ConnectPeer,
                      BuildPoints
  <2>10. CASE StartGateway(r) \/ StartRouter(r) \/ StartPeer(r)
    BY <2>8, <2>10 DEF StartGateway, StartRouter, StartPeer, BuildPoints
  <2> QED
    BY <1>11, <2>2, <2>3, <2>4, <2>5, <2>6, <2>9, <2>10 DEF BuildStep
<1>12. ASSUME NEW r \in Runs, DropStep(r) PROVE Tracked'
  <2>1. CASE DropBackend(r) \/ AllContainersDropped(r) \/ AllNetworksDropped(r)
    BY <2>1, TrackedFrame DEF DropBackend, AllContainersDropped, AllNetworksDropped, Goto,
                              backend, daemon, Exists, Present
  <2>2. ASSUME NEW c \in processes[r], DropProcess(r, c) PROVE Tracked'
    <3>1. \A d \in ContainerIds : Exists(d)' => Exists(d)
      BY <2>2 DEF DropProcess, Exists
    <3> QED
      BY <2>2, <3>1, TrackedFrame DEF DropProcess, backend, Present
  <2>3. ASSUME NEW c \in containers[r], DropContainer(r, c) PROVE Tracked'
    <3>1. c \in ContainerIds
      BY <2>3
    <3>2. /\ \A d \in ContainerIds : Exists(d)' => Exists(d)
          /\ \A n \in NetworkIds : Present(n)' => Present(n)
          /\ ~Exists(c)'
      BY <1>6, <2>3, <3>1 DEF DropContainer
    <3> QED
      BY <2>3, <3>2 DEF DropContainer, Tracked
  <2>4. ASSUME NEW n \in networks[r], DropNetwork(r, n) PROVE Tracked'
    <3>1. n \in NetworkIds /\ Owner(n) = r /\ pc[r] = "dropNetworks"
      BY <2>4 DEF ListsOwned, DropNetwork
    <3>2. \A c \in ContainerIds : Exists(c) => Owner(c) # r
      BY <3>1 DEF Emptied, Tracked
    <3>3. ~InUse(n)
      BY <3>1, <3>2 DEF InUse, Exists, NetsOwned
    <3>4. /\ \A d \in ContainerIds : Exists(d)' => Exists(d)
          /\ \A m \in NetworkIds : Present(m)' => Present(m)
          /\ ~Present(n)'
      BY <1>7, <2>4, <3>1, <3>3 DEF DropNetwork
    <3> QED
      BY <2>4, <3>4 DEF DropNetwork, Tracked
  <2> QED
    BY <1>12, <2>1, <2>2, <2>3, <2>4 DEF DropStep
<1> QED
  BY <1>2, <1>3, <1>4, <1>8, <1>11, <1>12 DEF Next, RunStep

-----------------------------------------------------------------------------
LEMMA Inductive == Spec => []IInv
<1>1. Init => IInv
  BY TypeInit DEF Init, IInv, Tracked, Emptied, Exists, Present, NoContainer, NoNetwork
<1>2. IInv /\ [Next]_vars => IInv'
  <2>1. CASE UNCHANGED vars
    BY <2>1 DEF vars, daemon, config, sweep, backend, IInv, TypeInv, DaemonInv, RunInv,
                DaemonTypeOK, RunTypeOK, NetsOwned, LoopOK, ListsOwned, Tracked, Emptied,
                Exists, Present
  <2>2. CASE IInv /\ Next
    BY <2>2, DaemonStep, RunInvStep, EmptiedStep, TrackedStep DEF IInv, TypeInv
  <2> QED
    BY <2>1, <2>2
<1> QED
  BY <1>1, <1>2, PTL DEF Spec

\* A run that has not crashed can find everything it created in the lists of its backend.
THEOREM TrackedThroughout == Spec => []Tracked
  BY Inductive, PTL DEF IInv

\* A run that ended by Drop has left nothing in the daemon: its lists are empty by then, and
\* whatever it created would be in them.
THEOREM DropLeaksNothing == Spec => []NoLeak
<1>1. IInv => NoLeak
  BY DEF IInv, Tracked, Emptied, NoLeak
<1> QED
  BY <1>1, Inductive, PTL

-----------------------------------------------------------------------------
\* Each gateway and peer the loops have passed has its entry; and what is being built of the
\* next one is in the list of containers.
Entry(r, i) ==
  LET info == peer_containers[r][i]
  IN  /\ info.container \in containers[r] \intersect processes[r]
      /\ IF i < Gateways THEN info.router = NoId ELSE info.router \in containers[r]

RegisteredAt(r) ==
  /\ pc[r] \in GatewayPoints => \A i \in Index : i < idx[r] => Entry(r, i)
  /\ pc[r] \in PeerPoints => \A i \in Index : i < PeerIndex(idx[r]) => Entry(r, i)
  /\ pc[r] = "built" => \A i \in Index : Entry(r, i)
  /\ pc[r] \in GatewayPoints \ {"createGateway"} => Gateway(r, idx[r]) \in containers[r]
  /\ pc[r] \in PeerPoints \ {"createNatNetwork", "createRouter"} =>
       Router(r, idx[r]) \in containers[r]
  /\ pc[r] \in {"connectPeer", "startPeer", "registerPeer"} => Peer(r, idx[r]) \in containers[r]

Registered == \A r \in Runs : RegisteredAt(r)

LEMMA RegisteredBuild ==
  ASSUME TypeInv, Registered, NEW r \in Runs, BuildStep(r)
  PROVE  RegisteredAt(r)'
<1> DEFINE i == idx[r]
<1>0. /\ pc \in [Runs -> Points] /\ idx \in [Runs -> Nat] /\ i \in Nat
      /\ containers \in [Runs -> SUBSET ContainerIds]
      /\ processes \in [Runs -> SUBSET ContainerIds]
      /\ peer_containers \in [Runs -> [Index -> PeerInfos]]
      /\ RegisteredAt(r)
      /\ pc[r] \in GatewayPoints => i < Gateways
      /\ pc[r] \in PeerPoints => i < Peers
      /\ pc[r] \in BeforeLoops => i = 0
      /\ Gateways \in Nat /\ Peers \in Nat
  BY CountsAssumption DEF TypeInv, RunInv, RunTypeOK, LoopOK, Registered
<1>1. ASSUME NEW at, NEW c, NEW next, CreateContainer(r, at, c, next)
      PROVE  /\ pc[r] = at /\ idx' = idx /\ processes' = processes
             /\ peer_containers' = peer_containers
             /\ \/ pc'[r] = next /\ containers'[r] = containers[r] \union {c}
                \/ pc'[r] = "dropProcesses"
  BY <1>0, <1>1 DEF CreateContainer, RecordContainer, Goto
<1>2. ASSUME NEW at, pc[r] = at, pc'[r] # at, UNCHANGED <<idx, backend, processes>>,
             \/ at \in GatewayPoints \ {"createGateway"} /\ pc'[r] \in GatewayPoints \ {"createGateway"}
             \/ at \in {"connectRouterPublic", "connectRouterPrivate", "startRouter"}
                /\ pc'[r] \in {"connectRouterPrivate", "startRouter", "createPeer"}
             \/ at \in {"connectPeer", "startPeer"} /\ pc'[r] \in {"startPeer", "registerPeer"}
      PROVE  RegisteredAt(r)'
  BY <1>0, <1>2 DEF RegisteredAt, Entry, backend, GatewayPoints, PeerPoints, PeerIndex, Gateway,
                    Router, Peer
<1>3. CASE CreatePublicNetwork(r)
  <2>1. /\ pc[r] = "createPublicNetwork" /\ i = 0 /\ idx' = idx
        /\ pc'[r] \in {IF Gateways > 0 THEN "createGateway"
                       ELSE IF Peers > 0 THEN "createNatNetwork" ELSE "built", "dropProcesses"}
    BY <1>0, <1>3 DEF CreatePublicNetwork, Goto, BeforeLoops
  <2> QED
    BY <1>0, <2>1 DEF RegisteredAt, GatewayPoints, PeerPoints, PeerIndex, Index
<1>4. CASE RetryPublicSubnet(r) \/ ApiError(r)
  BY <1>0, <1>4 DEF RetryPublicSubnet, ApiError, Goto, RegisteredAt, GatewayPoints, PeerPoints
<1>5. CASE CreateGateway(r)
  <2>1. /\ pc[r] = "createGateway" /\ idx' = idx /\ processes' = processes
        /\ peer_containers' = peer_containers
        /\ \/ /\ pc'[r] = "connectGateway"
              /\ containers'[r] = containers[r] \union {Gateway(r, i)}
           \/ pc'[r] = "dropProcesses"
    BY <1>1, <1>5 DEF CreateGateway
  <2>2. \A j \in Index : j < i => Entry(r, j)
    BY <1>0, <2>1 DEF RegisteredAt, GatewayPoints
  <2>3. CASE pc'[r] = "connectGateway"
    <3>1. \A j \in Index : j < i => Entry(r, j)'
      BY <2>1, <2>2, <2>3 DEF Entry
    <3>2. Gateway(r, i) \in containers'[r]
      BY <2>1, <2>3
    <3> QED
      BY <2>1, <2>3, <3>1, <3>2 DEF RegisteredAt, GatewayPoints, PeerPoints, Gateway
  <2>4. CASE pc'[r] = "dropProcesses"
    BY <2>4 DEF RegisteredAt, GatewayPoints, PeerPoints
  <2> QED
    BY <2>1, <2>3, <2>4
<1>6. CASE ConnectGateway(r) \/ StartGateway(r)
  BY <1>0, <1>2, <1>6 DEF ConnectGateway, StartGateway, ConnectNetwork, StartContainer, Goto,
                          GatewayPoints
<1>7. CASE RegisterGateway(r)
  <2>1. /\ pc[r] = "registerGateway" /\ containers' = containers /\ i < Gateways
        /\ Gateway(r, i) \in containers[r]
        /\ processes'[r] = processes[r] \union {Gateway(r, i)}
        /\ peer_containers'[r] =
             [peer_containers[r] EXCEPT ![i] = [container |-> Gateway(r, i), router |-> NoId]]
    BY <1>0, <1>7 DEF RegisterGateway, RegisteredAt, GatewayPoints, backend
  <2>2. \A j \in Index : j < i + 1 => Entry(r, j)'
    BY <1>0, <2>1 DEF RegisteredAt, GatewayPoints, Entry, Index
  <2>3. \/ pc'[r] = "createGateway" /\ idx'[r] = i + 1
        \/ pc'[r] = "createNatNetwork" /\ idx'[r] = 0 /\ i + 1 = Gateways
        \/ pc'[r] = "built" /\ i + 1 = Gateways /\ Peers = 0
    BY <1>0, <1>7, <2>1 DEF RegisterGateway, Goto
  <2> QED
    BY <1>0, <2>2, <2>3 DEF RegisteredAt, GatewayPoints, PeerPoints, PeerIndex, Index
<1>8. CASE CreateNatNetwork(r)
  BY <1>0, <1>8 DEF CreateNatNetwork, Goto, RegisteredAt, Entry, GatewayPoints, PeerPoints, PeerIndex
<1>9. CASE CreateRouter(r)
  BY <1>0, <1>1, <1>9 DEF CreateRouter, RegisteredAt, Entry, GatewayPoints, PeerPoints, PeerIndex,
                          Router
<1>10. CASE CreatePeer(r)
  <2>1. /\ pc[r] = "createPeer" /\ idx' = idx /\ processes' = processes
        /\ peer_containers' = peer_containers
        /\ \/ /\ pc'[r] = "connectPeer"
              /\ containers'[r] = containers[r] \union {Peer(r, i)}
           \/ pc'[r] = "dropProcesses"
    BY <1>1, <1>10 DEF CreatePeer
  <2>2. /\ \A j \in Index : j < PeerIndex(i) => Entry(r, j)
        /\ Router(r, i) \in containers[r]
    BY <1>0, <2>1 DEF RegisteredAt, PeerPoints
  <2>3. CASE pc'[r] = "connectPeer"
    <3>1. \A j \in Index : j < PeerIndex(i) => Entry(r, j)'
      BY <2>1, <2>2, <2>3 DEF Entry
    <3>2. Router(r, i) \in containers'[r] /\ Peer(r, i) \in containers'[r]
      BY <2>1, <2>2, <2>3
    <3> QED
      BY <2>1, <2>3, <3>1, <3>2 DEF RegisteredAt, GatewayPoints, PeerPoints, PeerIndex, Router, Peer
  <2>4. CASE pc'[r] = "dropProcesses"
    BY <2>4 DEF RegisteredAt, GatewayPoints, PeerPoints
  <2> QED
    BY <2>1, <2>3, <2>4
<1>11. CASE \/ ConnectRouterPublic(r) \/ ConnectRouterPrivate(r) \/ StartRouter(r)
            \/ ConnectPeer(r) \/ StartPeer(r)
  BY <1>0, <1>2, <1>11 DEF ConnectRouterPublic, ConnectRouterPrivate, StartRouter, ConnectPeer,
                           StartPeer, ConnectNetwork, StartContainer, Goto
<1>12. CASE RegisterPeer(r)
  <2> DEFINE k == PeerIndex(i)
  <2>1. pc[r] = "registerPeer" /\ i < Peers /\ k \in Index /\ k >= Gateways
    BY <1>0, <1>12 DEF RegisterPeer, PeerPoints, PeerIndex, Index
  <2>2. /\ containers' = containers
        /\ Peer(r, i) \in containers[r] /\ Router(r, i) \in containers[r]
        /\ processes'[r] = processes[r] \union {Peer(r, i)}
        /\ peer_containers'[r] =
             [peer_containers[r] EXCEPT ![k] = [container |-> Peer(r, i), router |-> Router(r, i)]]
    BY <1>0, <1>12, <2>1 DEF RegisterPeer, RegisteredAt, PeerPoints
  <2>3. \A j \in Index : j < k + 1 => Entry(r, j)'
    BY <1>0, <2>1, <2>2 DEF RegisteredAt, PeerPoints, Entry, Index
  <2>4. \/ pc'[r] = "createNatNetwork" /\ idx'[r] = i + 1
        \/ pc'[r] = "built" /\ i + 1 = Peers
    BY <1>0, <1>12, <2>1 DEF RegisterPeer, Goto
  <2>5. CASE pc'[r] = "createNatNetwork" /\ idx'[r] = i + 1
    BY <1>0, <2>3, <2>5 DEF RegisteredAt, GatewayPoints, PeerPoints, PeerIndex
  <2>6. CASE pc'[r] = "built" /\ i + 1 = Peers
    BY <1>0, <2>3, <2>6 DEF RegisteredAt, GatewayPoints, PeerPoints, PeerIndex, Index
  <2> QED
    BY <2>4, <2>5, <2>6
<1> QED
  BY <1>3, <1>4, <1>5, <1>6, <1>7, <1>8, <1>9, <1>10, <1>11, <1>12 DEF BuildStep

LEMMA RegisteredStep ==
  ASSUME TypeInv, Registered, Next
  PROVE  Registered'
<1>0. /\ pc \in [Runs -> Points] /\ idx \in [Runs -> Nat] /\ Registered
      /\ containers \in [Runs -> SUBSET ContainerIds]
      /\ processes \in [Runs -> SUBSET ContainerIds]
      /\ peer_containers \in [Runs -> [Index -> PeerInfos]]
  BY DEF TypeInv, RunInv, RunTypeOK
<1>1. ASSUME NEW r \in Runs,
             /\ pc'[r] = pc[r] /\ idx'[r] = idx[r]
             /\ peer_containers'[r] = peer_containers[r]
             /\ containers'[r] = containers[r] /\ processes'[r] = processes[r]
      PROVE  RegisteredAt(r)'
  BY <1>0, <1>1 DEF Registered, RegisteredAt, Entry, Gateway, Router, Peer
<1>2. CASE Tick \/ \E c \in ContainerIds : ContainerExits(c)
  BY <1>1, <1>2 DEF Tick, ContainerExits, backend, Registered
<1>3. ASSUME NEW r \in Runs, Configure(r) \/ RunStep(r) \/ Release(r) \/ Crash(r),
             NEW q \in Runs \ {r}
      PROVE  RegisteredAt(q)'
  <2>1. CASE Configure(r) \/ Release(r) \/ Crash(r)
    BY <1>0, <1>1, <2>1 DEF Configure, Release, Crash, Goto, backend
  <2>2. CASE SweepStep(r)
    BY <1>0, <1>1, <2>2 DEF SweepStep, New, SweepContainer, ListNetworks, SweepNetwork, SweepDone,
                            Goto, backend
  <2>3. CASE BuildStep(r)
    <3>1. CASE CreateGateway(r) \/ CreateRouter(r) \/ CreatePeer(r)
      BY <1>0, <1>1, <3>1 DEF CreateGateway, CreateRouter, CreatePeer, CreateContainer,
                              RecordContainer, Goto
    <3>2. CASE \/ ConnectGateway(r) \/ ConnectRouterPublic(r) \/ ConnectRouterPrivate(r)
               \/ ConnectPeer(r) \/ StartGateway(r) \/ StartRouter(r) \/ StartPeer(r)
      BY <1>0, <1>1, <3>2 DEF ConnectGateway, ConnectRouterPublic, ConnectRouterPrivate,
                              ConnectPeer, StartGateway, StartRouter, StartPeer, ConnectNetwork,
                              StartContainer, Goto, backend
    <3>3. CASE \/ CreatePublicNetwork(r) \/ CreateNatNetwork(r) \/ RetryPublicSubnet(r)
               \/ RegisterGateway(r) \/ RegisterPeer(r) \/ ApiError(r)
      BY <1>0, <1>1, <3>3 DEF CreatePublicNetwork, CreateNatNetwork, RetryPublicSubnet,
                              RegisterGateway, RegisterPeer, ApiError, Goto, backend
    <3> QED
      BY <2>3, <3>1, <3>2, <3>3 DEF BuildStep
  <2>4. CASE DropStep(r)
    BY <1>0, <1>1, <2>4 DEF DropStep, DropProcess, DropBackend, DropContainer,
                            AllContainersDropped, DropNetwork, AllNetworksDropped, Goto, backend
  <2> QED
    BY <1>3, <2>1, <2>2, <2>3, <2>4 DEF RunStep
<1>4. ASSUME NEW r \in Runs, Configure(r) \/ RunStep(r) \/ Release(r) \/ Crash(r)
      PROVE  RegisteredAt(r)'
  <2>1. ASSUME pc'[r] \notin GatewayPoints \union PeerPoints \union {"built"}
        PROVE  RegisteredAt(r)'
    BY <2>1 DEF RegisteredAt, GatewayPoints, PeerPoints
  <2>2. CASE Configure(r) \/ Release(r) \/ Crash(r)
    BY <1>0, <2>1, <2>2 DEF Configure, Release, Crash, Goto, GatewayPoints, PeerPoints
  <2>3. CASE SweepStep(r)
    BY <1>0, <2>1, <2>3 DEF SweepStep, New, SweepContainer, ListNetworks, SweepNetwork, SweepDone,
                            Goto, GatewayPoints, PeerPoints
  <2>4. CASE DropStep(r)
    BY <1>0, <2>1, <2>4 DEF DropStep, DropProcess, DropBackend, DropContainer,
                            AllContainersDropped, DropNetwork, AllNetworksDropped, Goto,
                            GatewayPoints, PeerPoints
  <2> QED
    BY <1>4, <2>2, <2>3, <2>4, RegisteredBuild DEF RunStep
<1> QED
  BY <1>2, <1>3, <1>4 DEF Next, Registered

\* A network that was built has an entry for each gateway and each peer, whose containers are
\* those that Drop removes.
THEOREM BuiltIsRegistered == Spec => []AllRegistered
<1>1. Init => Registered
  BY DEF Init, Registered, RegisteredAt, GatewayPoints, PeerPoints
<1>2. TypeInv /\ Registered /\ [Next]_vars => Registered'
  <2>1. CASE UNCHANGED vars
    BY <2>1 DEF vars, backend, Registered, RegisteredAt, Entry, Gateway, Router, Peer
  <2> QED
    BY <2>1, RegisteredStep
<1>3. IInv => TypeInv
  BY DEF IInv
<1>4. Registered => AllRegistered
  BY DEF Registered, RegisteredAt, Entry, AllRegistered
<1> QED
  BY <1>1, <1>2, <1>3, <1>4, Inductive, PTL DEF Spec

-----------------------------------------------------------------------------
\* What a run has left to do.  The lists are finite, and an attempt is left until the network
\* is there.
AttemptsLeft ==
  \A r \in Runs : /\ attempt[r] \in 0..MAX_SUBNET_RETRIES
                  /\ pc[r] \in BeforeLoops => attempt[r] < MAX_SUBNET_RETRIES

LEMMA AttemptsInit == Init => AttemptsLeft
  BY RetriesAssumption DEF Init, AttemptsLeft

LEMMA AttemptsStep ==
  ASSUME TypeInv, AttemptsLeft, [Next]_vars
  PROVE  AttemptsLeft'
<1> USE RetriesAssumption DEF AttemptsLeft
<1>0. attempt \in [Runs -> Nat] /\ pc \in [Runs -> Points]
  BY DEF TypeInv, RunInv, RunTypeOK
<1>1. CASE UNCHANGED vars \/ Tick \/ \E c \in ContainerIds : ContainerExits(c)
  BY <1>1 DEF vars, Tick, ContainerExits
<1>2. ASSUME NEW r \in Runs, NEW next, UNCHANGED attempt, Goto(r, next),
             pc[r] \in BeforeLoops \/ next \notin BeforeLoops
      PROVE  AttemptsLeft'
  BY <1>0, <1>2 DEF Goto
<1>3. ASSUME NEW r \in Runs, Configure(r) \/ Release(r) \/ Crash(r) PROVE AttemptsLeft'
  <2>1. CASE Configure(r)
    BY <1>2, <2>1 DEF Configure, BeforeLoops
  <2>2. CASE Release(r)
    BY <1>2, <2>2 DEF Release, BeforeLoops
  <2>3. CASE Crash(r)
    BY <1>2, <2>3 DEF Crash, BeforeLoops
  <2> QED
    BY <1>3, <2>1, <2>2, <2>3
<1>4. ASSUME NEW r \in Runs, SweepStep(r) PROVE AttemptsLeft'
  <2>1. CASE New(r) \/ ListNetworks(r) \/ SweepDone(r)
    BY <1>2, <2>1 DEF New, ListNetworks, SweepDone, BeforeLoops
  <2>2. CASE \E x \in victims[r] : SweepContainer(r, x) \/ SweepNetwork(r, x)
    BY <2>2 DEF SweepContainer, SweepNetwork
  <2> QED
    BY <1>4, <2>1, <2>2 DEF SweepStep
<1>5. ASSUME NEW r \in Runs, BuildStep(r) PROVE AttemptsLeft'
  <2>1. CASE RetryPublicSubnet(r)
    <3>1. /\ attempt[r] \in Nat /\ attempt[r] < MAX_SUBNET_RETRIES
          /\ attempt' = [attempt EXCEPT ![r] = @ + 1]
          /\ pc' = [pc EXCEPT ![r] = IF attempt[r] + 1 < MAX_SUBNET_RETRIES
                                     THEN "createPublicNetwork" ELSE "dropProcesses"]
      BY <1>0, <2>1 DEF RetryPublicSubnet, NextAttempt, Goto, BeforeLoops
    <3> QED
      BY <1>0, <3>1 DEF BeforeLoops
  <2>2. CASE CreatePublicNetwork(r) \/ CreateNatNetwork(r)
    BY <1>2, <2>2 DEF CreatePublicNetwork, CreateNatNetwork, BeforeLoops
  <2>3. CASE CreateGateway(r) \/ CreateRouter(r) \/ CreatePeer(r)
    BY <1>2, <2>3 DEF CreateGateway, CreateRouter, CreatePeer, CreateContainer, BeforeLoops
  <2>4. CASE \/ ConnectGateway(r) \/ ConnectRouterPublic(r) \/ ConnectRouterPrivate(r)
             \/ ConnectPeer(r)
    BY <1>2, <2>4 DEF ConnectGateway, ConnectRouterPublic, ConnectRouterPrivate, ConnectPeer,
                      ConnectNetwork, BeforeLoops
  <2>5. CASE StartGateway(r) \/ StartRouter(r) \/ StartPeer(r)
    BY <1>2, <2>5 DEF StartGateway, StartRouter, StartPeer, StartContainer, BeforeLoops
  <2>6. CASE RegisterGateway(r) \/ RegisterPeer(r) \/ ApiError(r)
    BY <1>2, <2>6 DEF RegisterGateway, RegisterPeer, ApiError, BeforeLoops
  <2> QED
    BY <1>5, <2>1, <2>2, <2>3, <2>4, <2>5, <2>6 DEF BuildStep
<1>6. ASSUME NEW r \in Runs, DropStep(r) PROVE AttemptsLeft'
  <2>1. CASE DropBackend(r) \/ AllContainersDropped(r) \/ AllNetworksDropped(r)
    BY <1>2, <2>1 DEF DropBackend, AllContainersDropped, AllNetworksDropped, BeforeLoops
  <2>2. CASE \/ \E c \in processes[r] : DropProcess(r, c)
             \/ \E c \in containers[r] : DropContainer(r, c)
             \/ \E n \in networks[r] : DropNetwork(r, n)
    BY <2>2 DEF DropProcess, DropContainer, DropNetwork
  <2> QED
    BY <1>6, <2>1, <2>2 DEF DropStep
<1> QED
  BY <1>1, <1>3, <1>4, <1>5, <1>6 DEF Next, RunStep

-----------------------------------------------------------------------------
\* The ids are finitely many, so that what is listed can be counted.
LEMMA TriplesFinite ==
  ASSUME NEW A, NEW B, NEW C, IsFiniteSet(A), IsFiniteSet(B), IsFiniteSet(C)
  PROVE  IsFiniteSet(A \X B \X C)
<1> DEFINE f == [p \in A \X (B \X C) |-> <<p[1], p[2][1], p[2][2]>>]
<1>1. IsFiniteSet(B \X C)
  BY FS_Product
<1>2. IsFiniteSet(A \X (B \X C))
  BY <1>1, FS_Product
<1>3. f \in Surjection(A \X (B \X C), A \X B \X C)
  <2>1. f \in [A \X (B \X C) -> A \X B \X C]
    OBVIOUS
  <2>2. ASSUME NEW t \in A \X B \X C PROVE \E p \in A \X (B \X C) : f[p] = t
    <3>1. f[<<t[1], <<t[2], t[3]>>>>] = t
      BY <2>2
    <3> QED
      BY <2>2, <3>1
  <2> QED
    BY <2>1, <2>2 DEF Surjection
<1> QED
  BY <1>2, <1>3, FS_Surjection

LEMMA IdsAreFinite == IsFiniteSet(ContainerIds) /\ IsFiniteSet(NetworkIds)
<1>1. IsFiniteSet(Index) /\ IsFiniteSet(PublicIndex)
  <2>1. 0 \in Int /\ Gateways + Peers - 1 \in Int
    BY CountsAssumption
  <2> QED
    BY <2>1, FS_Interval, FS_Singleton DEF Index, PublicIndex
<1>2. /\ IsFiniteSet({"gw"} \union {"router"} \union {"peer"})
      /\ IsFiniteSet({"public"}) /\ IsFiniteSet({"nat"})
  <2>1. IsFiniteSet({"gw"}) /\ IsFiniteSet({"public"}) /\ IsFiniteSet({"nat"})
    BY FS_Singleton
  <2>2. IsFiniteSet({"gw"} \union {"router"})
    BY <2>1, FS_AddElement
  <2> QED
    BY <2>1, <2>2, FS_AddElement
<1>3. {"gw", "router", "peer"} = {"gw"} \union {"router"} \union {"peer"}
  OBVIOUS
<1>4. /\ IsFiniteSet(Runs \X {"gw", "router", "peer"} \X Index)
      /\ IsFiniteSet(Runs \X {"public"} \X PublicIndex) /\ IsFiniteSet(Runs \X {"nat"} \X Index)
  <2>1. IsFiniteSet(Runs \X {"gw", "router", "peer"} \X Index)
    BY <1>1, <1>2, <1>3, TriplesFinite, RunsAssumption
  <2>2. IsFiniteSet(Runs \X {"public"} \X PublicIndex)
    BY <1>1, <1>2, TriplesFinite, RunsAssumption
  <2>3. IsFiniteSet(Runs \X {"nat"} \X Index)
    BY <1>1, <1>2, TriplesFinite, RunsAssumption
  <2> QED
    BY <2>1, <2>2, <2>3
<1> QED
  BY <1>4, FS_Union DEF ContainerIds, NetworkIds

LEMMA ListsAreFinite ==
  ASSUME TypeInv, NEW r \in Runs
  PROVE  /\ IsFiniteSet(victims[r]) /\ Cardinality(victims[r]) \in Nat
         /\ IsFiniteSet(processes[r]) /\ Cardinality(processes[r]) \in Nat
         /\ IsFiniteSet(containers[r]) /\ Cardinality(containers[r]) \in Nat
         /\ IsFiniteSet(networks[r]) /\ Cardinality(networks[r]) \in Nat
<1>1. /\ victims[r] \subseteq ContainerIds \union NetworkIds
      /\ processes[r] \subseteq ContainerIds
      /\ containers[r] \subseteq ContainerIds /\ networks[r] \subseteq NetworkIds
  BY DEF TypeInv, RunInv, RunTypeOK
<1>2. IsFiniteSet(ContainerIds \union NetworkIds)
  BY IdsAreFinite, FS_Union
<1>3. /\ IsFiniteSet(victims[r]) /\ IsFiniteSet(processes[r])
      /\ IsFiniteSet(containers[r]) /\ IsFiniteSet(networks[r])
  BY <1>1, <1>2, IdsAreFinite, FS_Subset
<1> QED
  BY <1>3, FS_CardinalityType

LEMMA Shorter ==
  ASSUME NEW S, IsFiniteSet(S), NEW x \in S
  PROVE  Cardinality(S \ {x}) \in Nat /\ Cardinality(S \ {x}) < Cardinality(S)
<1>1. Cardinality(S \ {x}) = Cardinality(S) - 1
  BY FS_RemoveElement
<1>2. IsFiniteSet(S \ {x})
  BY FS_RemoveElement
<1> QED
  BY <1>1, <1>2, FS_CardinalityType

LEMMA TurnsTypes ==
  ASSUME NEW p, NEW i \in Nat, p \in GatewayPoints => i < Gateways, p \in PeerPoints => i < Peers
  PROVE  TurnsLeft(p, i) \in Nat
  BY CountsAssumption DEF TurnsLeft

LEMMA RemainingTypes ==
  ASSUME TypeInv, AttemptsLeft, NEW r \in Runs
  PROVE  /\ TurnsLeft(pc[r], idx[r]) \in Nat /\ CallsLeft[pc[r]] \in Nat
         /\ ListLeft(r) \in Nat
<1>1. TurnsLeft(pc[r], idx[r]) \in Nat
  BY TurnsTypes DEF TypeInv, RunInv, RunTypeOK, LoopOK
<1>2. pc[r] \in Points
  BY DEF TypeInv, RunInv, RunTypeOK
<1>3. CallsLeft[pc[r]] \in Nat
  BY <1>2 DEF CallsLeft, Points, SweepPoints, BuildPoints, DropPoints
<1>4. ListLeft(r) \in Nat
  BY ListsAreFinite, RetriesAssumption DEF ListLeft, AttemptsLeft
<1> QED
  BY <1>1, <1>3, <1>4

\* A step to another point, or to another turn of a loop.
LEMMA GoesOn ==
  ASSUME NEW r \in Runs,
         \/ TurnsLeft(pc'[r], idx'[r]) < TurnsLeft(pc[r], idx[r])
         \/ /\ TurnsLeft(pc'[r], idx'[r]) = TurnsLeft(pc[r], idx[r])
            /\ CallsLeft[pc'[r]] < CallsLeft[pc[r]]
  PROVE  Less(Remaining(r)', Remaining(r))
  BY DEF Less, Remaining

\* A step that takes something off a list.
LEMMA WorksOff ==
  ASSUME NEW r \in Runs, pc'[r] = pc[r], idx'[r] = idx[r], ListLeft(r)' < ListLeft(r)
  PROVE  Less(Remaining(r)', Remaining(r))
  BY DEF Less, Remaining

\* A step out of the loops.
LEMMA Leaves ==
  ASSUME TypeInv, AttemptsLeft, NEW r \in Runs,
         pc'[r] \notin BeforeLoops \union GatewayPoints \union PeerPoints,
         CallsLeft[pc'[r]] < CallsLeft[pc[r]]
  PROVE  Less(Remaining(r)', Remaining(r))
<1>1. TurnsLeft(pc'[r], idx'[r]) = 0
  BY DEF TurnsLeft
<1>2. TurnsLeft(pc[r], idx[r]) \in Nat
  BY RemainingTypes
<1> QED
  BY <1>1, <1>2, GoesOn

\* Calls are made in this order.
LEMMA Order ==
  /\ \A p \in BuildPoints \union {"built"} : CallsLeft["dropProcesses"] < CallsLeft[p]
  /\ \A p \in GatewayPoints : CallsLeft["createNatNetwork"] < CallsLeft[p]
  /\ \A p \in BuildPoints : CallsLeft["built"] < CallsLeft[p]
  /\ \A p \in Points \ {"done", "crashed"} :
       CallsLeft["done"] < CallsLeft[p] /\ CallsLeft["crashed"] < CallsLeft[p]
  BY DEF CallsLeft, Points, SweepPoints, BuildPoints, GatewayPoints, DropPoints

LEMMA SweepCounts ==
  ASSUME TypeInv, AttemptsLeft, NEW r \in Runs, Configure(r) \/ SweepStep(r)
  PROVE  Less(Remaining(r)', Remaining(r))
<1>0. /\ pc \in [Runs -> Points] /\ idx \in [Runs -> Nat]
      /\ victims \in [Runs -> SUBSET (ContainerIds \union NetworkIds)]
  BY DEF TypeInv, RunInv, RunTypeOK
<1>1. ASSUME NEW p, NEW q, {p, q} \subseteq BeforeLoops, CallsLeft[q] < CallsLeft[p],
             pc[r] = p, Goto(r, q)
      PROVE  Less(Remaining(r)', Remaining(r))
  <2>1. pc'[r] = q
    BY <1>0, <1>1 DEF Goto
  <2>2. TurnsLeft(pc'[r], idx'[r]) = TurnsLeft(pc[r], idx[r])
    BY <1>1, <2>1 DEF TurnsLeft
  <2> QED
    BY <1>1, <2>1, <2>2, GoesOn
<1>2. ASSUME NEW x \in victims[r], SweepContainer(r, x) \/ SweepNetwork(r, x)
      PROVE  Less(Remaining(r)', Remaining(r))
  <2>1. /\ victims'[r] = victims[r] \ {x}
        /\ UNCHANGED <<pc, idx, attempt, containers, networks, processes>>
    BY <1>0, <1>2 DEF SweepContainer, SweepNetwork, backend
  <2>2. ListLeft(r)' < ListLeft(r)
    BY <1>2, <2>1, ListsAreFinite, Shorter, RetriesAssumption DEF ListLeft, AttemptsLeft
  <2> QED
    BY <2>1, <2>2, WorksOff
<1>3. CASE Configure(r)
  BY <1>1, <1>3 DEF Configure, BeforeLoops, CallsLeft
<1>4. CASE New(r)
  <2>1. CASE Goto(r, "sweepContainers")
    BY <1>1, <1>4, <2>1 DEF New, BeforeLoops, CallsLeft
  <2>2. CASE Goto(r, "done")
    <3>1. pc[r] = "configured" /\ pc'[r] = "done"
      BY <1>0, <1>4, <2>2 DEF New, Goto
    <3> QED
      BY <3>1, Leaves DEF CallsLeft, BeforeLoops, GatewayPoints, PeerPoints
  <2> QED
    BY <1>4, <2>1, <2>2 DEF New
<1>5. CASE ListNetworks(r)
  BY <1>1, <1>5 DEF ListNetworks, BeforeLoops, CallsLeft
<1>6. CASE SweepDone(r)
  BY <1>1, <1>6 DEF SweepDone, BeforeLoops, CallsLeft
<1> QED
  BY <1>2, <1>3, <1>4, <1>5, <1>6 DEF SweepStep

LEMMA DropCounts ==
  ASSUME TypeInv, AttemptsLeft, NEW r \in Runs, Release(r) \/ DropStep(r) \/ Crash(r)
  PROVE  Less(Remaining(r)', Remaining(r))
<1>0. /\ pc \in [Runs -> Points] /\ idx \in [Runs -> Nat]
      /\ processes \in [Runs -> SUBSET ContainerIds]
      /\ containers \in [Runs -> SUBSET ContainerIds] /\ networks \in [Runs -> SUBSET NetworkIds]
  BY DEF TypeInv, RunInv, RunTypeOK
<1>1. ASSUME NEW q \in {"dropProcesses", "dropContainers", "dropNetworks", "done", "crashed"},
             Goto(r, q), CallsLeft[q] < CallsLeft[pc[r]]
      PROVE  Less(Remaining(r)', Remaining(r))
  <2>1. pc'[r] = q
    BY <1>0, <1>1 DEF Goto
  <2> QED
    BY <1>1, <2>1, Leaves DEF BeforeLoops, GatewayPoints, PeerPoints
<1>2. CASE Release(r)
  BY <1>1, <1>2 DEF Release, CallsLeft
<1>3. CASE Crash(r)
  BY <1>0, <1>1, <1>3, Order DEF Crash
<1>4. CASE DropBackend(r)
  BY <1>1, <1>4 DEF DropBackend, CallsLeft
<1>5. CASE AllContainersDropped(r)
  BY <1>1, <1>5 DEF AllContainersDropped, CallsLeft
<1>6. CASE AllNetworksDropped(r)
  BY <1>1, <1>6 DEF AllNetworksDropped, CallsLeft
<1>7. ASSUME NEW c \in processes[r], DropProcess(r, c) PROVE Less(Remaining(r)', Remaining(r))
  <2>1. /\ processes'[r] = processes[r] \ {c}
        /\ UNCHANGED <<pc, idx, attempt, victims, containers, networks>>
    BY <1>0, <1>7 DEF DropProcess, backend, sweep
  <2>2. ListLeft(r)' < ListLeft(r)
    BY <1>7, <2>1, ListsAreFinite, Shorter, RetriesAssumption DEF ListLeft, AttemptsLeft
  <2> QED
    BY <2>1, <2>2, WorksOff
<1>8. ASSUME NEW c \in containers[r], DropContainer(r, c)
      PROVE  Less(Remaining(r)', Remaining(r))
  <2>1. /\ containers'[r] = containers[r] \ {c}
        /\ UNCHANGED <<pc, idx, attempt, victims, networks, processes>>
    BY <1>0, <1>8 DEF DropContainer, sweep
  <2>2. ListLeft(r)' < ListLeft(r)
    BY <1>8, <2>1, ListsAreFinite, Shorter, RetriesAssumption DEF ListLeft, AttemptsLeft
  <2> QED
    BY <2>1, <2>2, WorksOff
<1>9. ASSUME NEW n \in networks[r], DropNetwork(r, n) PROVE Less(Remaining(r)', Remaining(r))
  <2>1. /\ networks'[r] = networks[r] \ {n}
        /\ UNCHANGED <<pc, idx, attempt, victims, containers, processes>>
    BY <1>0, <1>9 DEF DropNetwork, sweep
  <2>2. ListLeft(r)' < ListLeft(r)
    BY <1>9, <2>1, ListsAreFinite, Shorter, RetriesAssumption DEF ListLeft, AttemptsLeft
  <2> QED
    BY <2>1, <2>2, WorksOff
<1> QED
  BY <1>2, <1>3, <1>4, <1>5, <1>6, <1>7, <1>8, <1>9 DEF DropStep

LEMMA BuildCounts ==
  ASSUME TypeInv, AttemptsLeft, NEW r \in Runs, BuildStep(r)
  PROVE  Less(Remaining(r)', Remaining(r))
<1>0. /\ pc \in [Runs -> Points] /\ idx \in [Runs -> Nat] /\ attempt \in [Runs -> Nat]
      /\ pc[r] \in GatewayPoints => idx[r] < Gateways
      /\ pc[r] \in PeerPoints => idx[r] < Peers
      /\ pc[r] \in BeforeLoops => idx[r] = 0
  BY DEF TypeInv, RunInv, RunTypeOK, LoopOK
<1>1. ASSUME NEW p, NEW q, {p, q} \subseteq GatewayPoints \/ {p, q} \subseteq PeerPoints,
             CallsLeft[q] < CallsLeft[p], pc[r] = p, Goto(r, q), UNCHANGED idx
      PROVE  Less(Remaining(r)', Remaining(r))
  <2>1. pc'[r] = q
    BY <1>0, <1>1 DEF Goto
  <2>2. TurnsLeft(pc'[r], idx'[r]) = TurnsLeft(pc[r], idx[r])
    BY <1>1, <2>1 DEF TurnsLeft, BeforeLoops, GatewayPoints, PeerPoints
  <2> QED
    BY <1>1, <2>1, <2>2, GoesOn
<1>2. ASSUME pc[r] \in BuildPoints, Goto(r, "dropProcesses")
      PROVE  Less(Remaining(r)', Remaining(r))
  <2>1. pc'[r] = "dropProcesses"
    BY <1>0, <1>2 DEF Goto
  <2> QED
    BY <1>2, <2>1, Leaves, Order DEF BeforeLoops, GatewayPoints, PeerPoints
<1>3. ASSUME pc[r] \in BuildPoints, Goto(r, "built")
      PROVE  Less(Remaining(r)', Remaining(r))
  <2>1. pc'[r] = "built"
    BY <1>0, <1>3 DEF Goto
  <2> QED
    BY <1>3, <2>1, Leaves, Order DEF BeforeLoops, GatewayPoints, PeerPoints
<1>4. CASE ApiError(r)
  BY <1>2, <1>4 DEF ApiError
<1>5. CASE CreatePublicNetwork(r)
  <2>1. pc[r] = "createPublicNetwork" /\ UNCHANGED idx
    BY <1>5 DEF CreatePublicNetwork
  <2>2. TurnsLeft(pc[r], idx[r]) = Gateways + Peers /\ idx[r] = 0 /\ pc[r] \in BuildPoints
    BY <1>0, <2>1 DEF TurnsLeft, BeforeLoops, BuildPoints
  <2>3. CASE Gateways > 0 /\ Goto(r, "createGateway")
    <3>1. pc'[r] = "createGateway"
      BY <1>0, <2>3 DEF Goto
    <3>2. TurnsLeft(pc'[r], idx'[r]) = Gateways - 0 + Peers
      BY <2>1, <2>2, <3>1 DEF TurnsLeft, BeforeLoops, GatewayPoints
    <3>3. CallsLeft[pc'[r]] < CallsLeft[pc[r]]
      BY <2>1, <3>1 DEF CallsLeft
    <3> QED
      BY <2>2, <3>2, <3>3, GoesOn, CountsAssumption
  <2>4. CASE ~(Gateways > 0) /\ Goto(r, "createNatNetwork")
    <3>1. pc'[r] = "createNatNetwork"
      BY <1>0, <2>4 DEF Goto
    <3>2. TurnsLeft(pc'[r], idx'[r]) = Peers - 0
      BY <2>1, <2>2, <3>1 DEF TurnsLeft, BeforeLoops, GatewayPoints, PeerPoints
    <3>3. CallsLeft[pc'[r]] < CallsLeft[pc[r]]
      BY <2>1, <3>1 DEF CallsLeft
    <3> QED
      BY <2>2, <2>4, <3>2, <3>3, GoesOn, CountsAssumption
  <2> QED
    BY <1>2, <1>3, <1>5, <2>2, <2>3, <2>4 DEF CreatePublicNetwork
<1>6. CASE RetryPublicSubnet(r)
  <2>1. CASE Goto(r, "dropProcesses")
    BY <1>2, <1>6, <2>1 DEF RetryPublicSubnet, BuildPoints
  <2>2. CASE Goto(r, "createPublicNetwork")
    <3>1. /\ pc'[r] = pc[r] /\ UNCHANGED <<idx, victims, containers, networks, processes>>
          /\ attempt'[r] = attempt[r] + 1
      BY <1>0, <1>6, <2>2 DEF RetryPublicSubnet, NextAttempt, Goto, sweep, backend
    <3>2. ListLeft(r)' < ListLeft(r)
      BY <3>1, ListsAreFinite, RetriesAssumption DEF ListLeft, AttemptsLeft
    <3> QED
      BY <3>1, <3>2, WorksOff
  <2> QED
    BY <1>6, <2>1, <2>2 DEF RetryPublicSubnet
<1>7. ASSUME NEW p, NEW q, NEW c, CreateContainer(r, p, c, q), CallsLeft[q] < CallsLeft[p],
             {p, q} \subseteq GatewayPoints \/ {p, q} \subseteq PeerPoints
      PROVE  Less(Remaining(r)', Remaining(r))
  <2>1. pc[r] = p /\ UNCHANGED idx /\ (Goto(r, q) \/ Goto(r, "dropProcesses"))
    BY <1>7 DEF CreateContainer
  <2>2. pc[r] \in BuildPoints
    BY <1>7, <2>1 DEF GatewayPoints, PeerPoints, BuildPoints
  <2> QED
    BY <1>1, <1>2, <1>7, <2>1, <2>2
<1>8. CASE CreateGateway(r) \/ CreateRouter(r) \/ CreatePeer(r)
  BY <1>7, <1>8 DEF CreateGateway, CreateRouter, CreatePeer, CallsLeft, GatewayPoints, PeerPoints
<1>9. CASE ConnectGateway(r) \/ StartGateway(r)
  BY <1>1, <1>9 DEF ConnectGateway, StartGateway, ConnectNetwork, StartContainer, CallsLeft,
                    GatewayPoints
<1>10. CASE \/ ConnectRouterPublic(r) \/ ConnectRouterPrivate(r) \/ StartRouter(r)
            \/ ConnectPeer(r) \/ StartPeer(r)
  BY <1>1, <1>10 DEF ConnectRouterPublic, ConnectRouterPrivate, StartRouter, ConnectPeer, StartPeer,
                     ConnectNetwork, StartContainer, CallsLeft, PeerPoints
<1>11. CASE CreateNatNetwork(r)
  <2>1. pc[r] = "createNatNetwork" /\ UNCHANGED idx
        /\ (Goto(r, "createRouter") \/ Goto(r, "dropProcesses"))
    BY <1>11 DEF CreateNatNetwork
  <2>2. CASE Goto(r, "createRouter")
    BY <1>1, <2>1, <2>2 DEF CallsLeft, PeerPoints
  <2> QED
    BY <1>2, <2>1, <2>2 DEF BuildPoints
<1>12. CASE RegisterGateway(r)
  <2>1. pc[r] = "registerGateway" /\ pc[r] \in BuildPoints /\ idx[r] < Gateways
    BY <1>0, <1>12 DEF RegisterGateway, GatewayPoints, BuildPoints
  <2>2. TurnsLeft(pc[r], idx[r]) = Gateways - idx[r] + Peers
    BY <2>1 DEF TurnsLeft, BeforeLoops, GatewayPoints
  <2>3. CASE idx[r] + 1 < Gateways
    <3>1. pc'[r] = "createGateway" /\ idx'[r] = idx[r] + 1
      BY <1>0, <1>12, <2>3 DEF RegisterGateway, Goto
    <3>2. TurnsLeft(pc'[r], idx'[r]) = Gateways - (idx[r] + 1) + Peers
      BY <3>1 DEF TurnsLeft, BeforeLoops, GatewayPoints
    <3> QED
      BY <1>0, <2>1, <2>2, <3>2, GoesOn, CountsAssumption
  <2>4. CASE ~(idx[r] + 1 < Gateways) /\ Peers > 0
    <3>1. pc'[r] = "createNatNetwork" /\ idx'[r] = 0
      BY <1>0, <1>12, <2>4 DEF RegisterGateway, Goto
    <3>2. TurnsLeft(pc'[r], idx'[r]) = Peers - 0
      BY <3>1 DEF TurnsLeft, BeforeLoops, GatewayPoints, PeerPoints
    <3> QED
      BY <1>0, <2>1, <2>2, <3>2, GoesOn, CountsAssumption
  <2> QED
    BY <1>3, <1>12, <2>1, <2>3, <2>4 DEF RegisterGateway
<1>13. CASE RegisterPeer(r)
  <2>1. pc[r] = "registerPeer" /\ pc[r] \in BuildPoints /\ idx[r] < Peers
    BY <1>0, <1>13 DEF RegisterPeer, PeerPoints, BuildPoints
  <2>2. TurnsLeft(pc[r], idx[r]) = Peers - idx[r]
    BY <2>1 DEF TurnsLeft, BeforeLoops, GatewayPoints, PeerPoints
  <2>3. CASE idx[r] + 1 < Peers
    <3>1. pc'[r] = "createNatNetwork" /\ idx'[r] = idx[r] + 1
      BY <1>0, <1>13, <2>3 DEF RegisterPeer, Goto
    <3>2. TurnsLeft(pc'[r], idx'[r]) = Peers - (idx[r] + 1)
      BY <3>1 DEF TurnsLeft, BeforeLoops, GatewayPoints, PeerPoints
    <3> QED
      BY <1>0, <2>1, <2>2, <3>2, GoesOn, CountsAssumption
  <2> QED
    BY <1>3, <1>13, <2>1, <2>3 DEF RegisterPeer
<1> QED
  BY <1>4, <1>5, <1>6, <1>8, <1>9, <1>10, <1>11, <1>12, <1>13 DEF BuildStep

\* What others do, and the daemon, changes nothing of what a run has left.
LEMMA OthersKeep ==
  ASSUME TypeInv, Next, NEW r \in Runs, ~RunStep(r),
         ~(Configure(r) \/ Release(r) \/ Crash(r))
  PROVE  Remaining(r)' = Remaining(r)
<1> DEFINE same == /\ pc'[r] = pc[r] /\ idx'[r] = idx[r] /\ attempt'[r] = attempt[r]
                   /\ victims'[r] = victims[r] /\ processes'[r] = processes[r]
                   /\ containers'[r] = containers[r] /\ networks'[r] = networks[r]
<1>0. /\ pc \in [Runs -> Points] /\ idx \in [Runs -> Nat] /\ attempt \in [Runs -> Nat]
      /\ victims \in [Runs -> SUBSET (ContainerIds \union NetworkIds)]
      /\ processes \in [Runs -> SUBSET ContainerIds]
      /\ containers \in [Runs -> SUBSET ContainerIds] /\ networks \in [Runs -> SUBSET NetworkIds]
  BY DEF TypeInv, RunInv, RunTypeOK
<1>1. ASSUME Tick \/ \E c \in ContainerIds : ContainerExits(c) PROVE same
  BY <1>1 DEF Tick, ContainerExits, sweep, backend
<1>2. ASSUME NEW q \in Runs, q # r, Configure(q) \/ Release(q) \/ Crash(q) PROVE same
  BY <1>0, <1>2 DEF Configure, Release, Crash, Goto, sweep, backend
<1>3. ASSUME NEW q \in Runs, q # r, SweepStep(q) PROVE same
  <2>1. CASE New(q)
    BY <1>0, <1>3, <2>1 DEF New, Goto, backend
  <2>2. CASE ListNetworks(q) \/ SweepDone(q)
    BY <1>0, <1>3, <2>2 DEF ListNetworks, SweepDone, Goto, sweep, backend
  <2>3. CASE \E x \in victims[q] : SweepContainer(q, x) \/ SweepNetwork(q, x)
    BY <1>0, <1>3, <2>3 DEF SweepContainer, SweepNetwork, backend
  <2> QED
    BY <1>3, <2>1, <2>2, <2>3 DEF SweepStep
<1>4. ASSUME NEW q \in Runs, q # r, DropStep(q) PROVE same
  BY <1>0, <1>4 DEF DropStep, DropProcess, DropBackend, DropContainer, AllContainersDropped,
                    DropNetwork, AllNetworksDropped, Goto, sweep, backend
<1>5. ASSUME NEW q \in Runs, q # r, BuildStep(q) PROVE same
  <2>1. CASE CreatePublicNetwork(q) \/ CreateNatNetwork(q)
    BY <1>0, <1>5, <2>1 DEF CreatePublicNetwork, CreateNatNetwork, RecordNetwork, Goto, sweep
  <2>2. CASE RetryPublicSubnet(q) \/ ApiError(q)
    BY <1>0, <1>5, <2>2 DEF RetryPublicSubnet, ApiError, Goto, sweep, backend
  <2>3. CASE CreateGateway(q) \/ CreateRouter(q) \/ CreatePeer(q)
    BY <1>0, <1>5, <2>3 DEF CreateGateway, CreateRouter, CreatePeer, CreateContainer,
                            RecordContainer, Goto, sweep
  <2>4. CASE \/ ConnectGateway(q) \/ ConnectRouterPublic(q) \/ ConnectRouterPrivate(q)
             \/ ConnectPeer(q)
    BY <1>0, <1>5, <2>4 DEF ConnectGateway, ConnectRouterPublic, ConnectRouterPrivate, ConnectPeer,
                            ConnectNetwork, Goto, sweep, backend
  <2>5. CASE StartGateway(q) \/ StartRouter(q) \/ StartPeer(q)
    BY <1>0, <1>5, <2>5 DEF StartGateway, StartRouter, StartPeer, StartContainer, Goto, sweep,
                            backend
  <2>6. CASE RegisterGateway(q) \/ RegisterPeer(q)
    BY <1>0, <1>5, <2>6 DEF RegisterGateway, RegisterPeer, Goto, sweep
  <2> QED
    BY <1>5, <2>1, <2>2, <2>3, <2>4, <2>5, <2>6 DEF BuildStep
<1>6. same
  BY <1>1, <1>2, <1>3, <1>4, <1>5 DEF Next, RunStep
<1>7. ListLeft(r)' = ListLeft(r)
  BY <1>6 DEF ListLeft
<1> QED
  BY <1>6, <1>7 DEF Remaining

\* A run comes to an end after finitely many calls, for any number of runs, gateways, peers and
\* attempts and whatever the daemon does: what is left to do goes down with each.
THEOREM CallsCount == Spec => EveryCallCounts
<1> DEFINE counts(r) == /\ Remaining(r) \in Triples
                        /\ \/ Less(Remaining(r)', Remaining(r))
                           \/ Remaining(r)' = Remaining(r) /\ ~RunStep(r)
<1>1. TypeInv /\ AttemptsLeft /\ [Next]_vars => [\A r \in Runs : counts(r)]_vars
  <2> SUFFICES ASSUME TypeInv, AttemptsLeft, Next, NEW r \in Runs PROVE counts(r)
    OBVIOUS
  <2>1. Remaining(r) \in Triples
    BY RemainingTypes DEF Remaining, Triples
  <2>2. CASE RunStep(r) \/ Configure(r) \/ Release(r) \/ Crash(r)
    BY <2>1, <2>2, SweepCounts, BuildCounts, DropCounts DEF RunStep
  <2>3. CASE ~(RunStep(r) \/ Configure(r) \/ Release(r) \/ Crash(r))
    BY <2>1, <2>3, OthersKeep
  <2> QED
    BY <2>2, <2>3
<1>2. Spec => [](TypeInv /\ AttemptsLeft)
  <2>1. Init => TypeInv /\ AttemptsLeft
    BY TypeInit, AttemptsInit
  <2>2. TypeInv /\ AttemptsLeft /\ [Next]_vars => (TypeInv /\ AttemptsLeft)'
    BY TypeStep, AttemptsStep
  <2> QED
    BY <2>1, <2>2, PTL DEF Spec
<1> QED
  BY <1>1, <1>2, PTL DEF Spec, EveryCallCounts
=============================================================================
