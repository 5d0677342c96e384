------------------------ MODULE LedgerRefinementProofs ------------------------
(***************************************************************************)
(* Proofs about what runs do to one another, for any number of runs,       *)
(* gateways and peers: that a sweep takes only what is old and all of it,  *)
(* that the backend implements the ledger of its resources, what such a    *)
(* ledger promises, and that runs one after the other get back the subnets *)
(* of those before.                                                        *)
(***************************************************************************)
EXTENDS MCDockerNat, DockerNatProofs

\* The points up to which the creation of a peer's network, router or container is to come.
Until(kind) ==
  CASE kind = "nat"    -> {"createNatNetwork"}
    [] kind = "router" -> {"createNatNetwork", "createRouter"}
    [] OTHER           -> {"createNatNetwork", "createRouter", "connectRouterPublic",
                           "connectRouterPrivate", "startRouter", "createPeer"}

PeerKinds == {"nat", "router", "peer"}

\* The creation of x is still to come: its run has not got that far.
Later(x) ==
  LET point == pc[Owner(x)]
      i == idx[Owner(x)]
  IN  \/ point \in BeforeLoops
      \/ point \in GatewayPoints /\ x[2] \in PeerKinds
      \/ point \in GatewayPoints /\ x[2] = "gw"
           /\ (x[3] > i \/ (x[3] = i /\ point = "createGateway"))
      \/ point \in PeerPoints /\ x[2] \in PeerKinds
           /\ (x[3] > PeerIndex(i) \/ (x[3] = PeerIndex(i) /\ point \in Until(x[2])))

\* What is still to be created is not there, and no sweep is after it.
Fresh ==
  /\ \A c \in ContainerIds : Later(c) => ~Exists(c) /\ \A r \in Runs : c \notin victims[r]
  /\ \A n \in NetworkIds : Later(n) => ~Present(n) /\ \A r \in Runs : n \notin victims[r]

\* What a sweep is after was old when it began; and between its listing and the end of the
\* run whatever container was old then is one it is after.
SweepOK ==
  \A r \in Runs :
    /\ seen[r] <= now
    /\ \A c \in victims[r] \intersect ContainerIds :
         Exists(c) => Stale(dockerContainers[c].born, seen[r])
    /\ \A n \in victims[r] \intersect NetworkIds : Stale(stamp[Owner(n)], seen[r])
    /\ ~DaemonFaults /\ pc[r] \in SweepPoints \union BuildPoints \union {"built"} =>
         \A c \in ContainerIds : Exists(c) /\ Stale(dockerContainers[c].born, seen[r]) =>
           pc[r] = "sweepContainers" /\ c \in victims[r]

PhaseOf == [r \in Runs |-> Phase(pc[r])]
BornOf == [x \in ContainerIds \union NetworkIds |-> Born(x)]
LedgerOf == [r \in Runs |-> containers[r] \union networks[r]]

LEMMA Quiet ==
  ASSUME UNCHANGED <<now, stamp>>, UNCHANGED <<PhaseOf, BornOf, LedgerOf>>
  PROVE  Ledger!LedgerNext
  BY DEF Ledger!LedgerNext, Ledger!Elsewhere, Ledger!ledgerVars, PhaseOf, BornOf, LedgerOf

LEMMA IdParts ==
  ASSUME NEW x \in ContainerIds \union NetworkIds
  PROVE  /\ Owner(x) \in Runs /\ x[3] \in Nat
         /\ x \in ContainerIds => x[2] \in {"gw", "router", "peer"}
         /\ x \in NetworkIds => x[2] \in {"public", "nat"}
  BY CountsAssumption DEF ContainerIds, NetworkIds, Index, PublicIndex, Owner

LEMMA Parts ==
  ASSUME NEW r, NEW i
  PROVE  /\ Gateway(r, i)[2] = "gw" /\ Gateway(r, i)[3] = i
         /\ Router(r, i)[2] = "router" /\ Router(r, i)[3] = PeerIndex(i)
         /\ Peer(r, i)[2] = "peer" /\ Peer(r, i)[3] = PeerIndex(i)
         /\ NatNetwork(r, i)[2] = "nat" /\ NatNetwork(r, i)[3] = PeerIndex(i)
         /\ PublicNetwork(r)[2] = "public"
  BY DEF Gateway, Router, Peer, NatNetwork, PublicNetwork

-----------------------------------------------------------------------------
\* Building goes one way: no step puts a creation back into the future.
LEMMA LaterShrinks ==
  ASSUME TypeInv, Next, NEW x \in ContainerIds \union NetworkIds, Later(x)'
  PROVE  Later(x)
<1> DEFINE q == Owner(x)
<1>0. /\ q \in Runs /\ x[3] \in Nat
      /\ pc \in [Runs -> Points] /\ idx \in [Runs -> Nat]
  BY IdParts DEF TypeInv, RunInv, RunTypeOK
<1> USE <1>0, CountsAssumption
<1>1. ASSUME pc'[q] = pc[q], idx'[q] = idx[q] PROVE Later(x)
  BY <1>1 DEF Later
<1>2. ASSUME pc'[q] \notin BeforeLoops \union GatewayPoints \union PeerPoints PROVE FALSE
  BY <1>2 DEF Later
<1>3. CASE Tick \/ \E c \in ContainerIds : ContainerExits(c)
  BY <1>1, <1>3 DEF Tick, ContainerExits
<1>4. ASSUME NEW r \in Runs, Configure(r) \/ Release(r) \/ Crash(r) PROVE Later(x)
  BY <1>1, <1>2, <1>4 DEF Configure, Release, Crash, Goto, Later, BeforeLoops, GatewayPoints,
                          PeerPoints
<1>5. ASSUME NEW r \in Runs, SweepStep(r) PROVE Later(x)
  BY <1>1, <1>5 DEF SweepStep, New, SweepContainer, ListNetworks, SweepNetwork, SweepDone, Goto,
                    Later, BeforeLoops
<1>6. ASSUME NEW r \in Runs, BuildStep(r) PROVE Later(x)
  <2>1. CASE CreatePublicNetwork(r)
    BY <1>1, <2>1 DEF CreatePublicNetwork, Goto, Later, BeforeLoops
  <2>2. CASE RetryPublicSubnet(r) \/ ApiError(r)
    BY <1>1, <1>2, <2>2 DEF RetryPublicSubnet, ApiError, Goto, Later, BeforeLoops, GatewayPoints, PeerPoints
  <2>3. CASE CreateGateway(r) \/ ConnectGateway(r) \/ StartGateway(r)
    BY <1>1, <1>2, <2>3
       DEF CreateGateway, ConnectGateway, StartGateway, CreateContainer, ConnectNetwork,
           StartContainer, Goto, Later, BeforeLoops, GatewayPoints, PeerPoints
  <2>4. CASE RegisterGateway(r)
    <3>1. CASE q # r
      BY <1>1, <2>4, <3>1 DEF RegisterGateway, Goto
    <3>2. CASE q = r
      <4>1. /\ pc[q] = "registerGateway" /\ x[3] \in Nat /\ idx[q] \in Nat
            /\ \/ pc'[q] = "createGateway" /\ idx'[q] = idx[q] + 1
               \/ pc'[q] \in {"createNatNetwork", "built"}
        BY <2>4, <3>2 DEF RegisterGateway, Goto
      <4>2. CASE pc'[q] = "createGateway" /\ idx'[q] = idx[q] + 1
        <5>1. x[2] \in PeerKinds \/ (x[2] = "gw" /\ x[3] > idx[q])
          BY <4>1, <4>2 DEF Later, BeforeLoops, GatewayPoints, PeerPoints
        <5> QED
          BY <4>1, <5>1 DEF Later, GatewayPoints
      <4>3. CASE pc'[q] = "createNatNetwork"
        <5>1. x[2] \in PeerKinds
          BY <4>3 DEF Later, BeforeLoops, GatewayPoints
        <5> QED
          BY <4>1, <5>1 DEF Later, GatewayPoints
      <4> QED
        BY <1>2, <4>1, <4>2, <4>3 DEF BeforeLoops, GatewayPoints, PeerPoints
    <3> QED
      BY <3>1, <3>2
  <2>5. CASE CreateNatNetwork(r) \/ CreateRouter(r) \/ CreatePeer(r)
    BY <1>1, <1>2, <2>5
       DEF CreateNatNetwork, CreateRouter, CreatePeer, CreateContainer, Goto, Later,
           BeforeLoops, GatewayPoints, PeerPoints, Until
  <2>6. CASE \/ ConnectRouterPublic(r) \/ ConnectRouterPrivate(r) \/ StartRouter(r)
             \/ ConnectPeer(r) \/ StartPeer(r)
    BY <1>1, <1>2, <2>6
       DEF ConnectRouterPublic, ConnectRouterPrivate, StartRouter, ConnectPeer, StartPeer,
           ConnectNetwork, StartContainer, Goto, Later, BeforeLoops, GatewayPoints,
           PeerPoints, Until
  <2>7. CASE RegisterPeer(r)
    <3>1. CASE q # r
      BY <1>1, <2>7, <3>1 DEF RegisterPeer, Goto
    <3>2. CASE q = r
      <4>1. /\ pc[q] = "registerPeer" /\ x[3] \in Nat /\ idx[q] \in Nat
            /\ \/ pc'[q] = "createNatNetwork" /\ idx'[q] = idx[q] + 1
               \/ pc'[q] = "built"
        BY <2>7, <3>2 DEF RegisterPeer, Goto
      <4>2. pc'[q] = "createNatNetwork" /\ idx'[q] = idx[q] + 1
        BY <1>2, <4>1 DEF BeforeLoops, GatewayPoints, PeerPoints
      <4>3. x[2] \in PeerKinds /\ x[3] >= PeerIndex(idx[q] + 1)
        BY <4>1, <4>2, CountsAssumption DEF Later, BeforeLoops, GatewayPoints, PeerIndex
      <4>4. x[3] > PeerIndex(idx[q])
        BY <4>1, <4>3, CountsAssumption DEF PeerIndex
      <4> QED
        BY <4>1, <4>3, <4>4 DEF Later, PeerPoints
    <3> QED
      BY <3>1, <3>2
  <2> QED
    BY <1>6, <2>1, <2>2, <2>3, <2>4, <2>5, <2>6, <2>7 DEF BuildStep
<1>7. ASSUME NEW r \in Runs, DropStep(r) PROVE Later(x)
  BY <1>1, <1>2, <1>7
     DEF DropStep, DropProcess, DropBackend, DropContainer, AllContainersDropped, DropNetwork,
         AllNetworksDropped, Goto, BeforeLoops, GatewayPoints, PeerPoints
<1> QED
  BY <1>3, <1>4, <1>5, <1>6, <1>7 DEF Next, RunStep

\* A container that is there after a step was there before, and is as old as it was, or it
\* has just been created, in its turn.
LEMMA ContainerEffects ==
  ASSUME TypeInv, Next, NEW c \in ContainerIds, Exists(c)'
  PROVE  \/ Exists(c) /\ dockerContainers'[c].born = dockerContainers[c].born
         \/ dockerContainers'[c].born = now /\ Later(c) /\ ~Later(c)'
<1> DEFINE Same == Exists(c) /\ dockerContainers'[c].born = dockerContainers[c].born
           Made == dockerContainers'[c].born = now /\ Later(c) /\ ~Later(c)'
<1>0. /\ dockerContainers \in [ContainerIds -> ContainerRecords]
      /\ dockerContainers[c] \in ContainerRecords
      /\ pc \in [Runs -> Points] /\ idx \in [Runs -> Nat]
      /\ \A r \in Runs : processes[r] \subseteq ContainerIds
  BY DEF TypeInv, DaemonInv, DaemonTypeOK, RunInv, RunTypeOK
<1>1. ASSUME UNCHANGED dockerContainers PROVE Same
  BY <1>1 DEF Exists
<1>2. ASSUME NEW d \in ContainerIds, NEW s,
             Exists(d), dockerContainers' = [dockerContainers EXCEPT ![d].state = s]
      PROVE  Same
  BY <1>0, <1>2 DEF Exists, ContainerRecords
<1>3. ASSUME NEW d, RemoveContainer(d) PROVE Same
  <2>1. CASE UNCHANGED dockerContainers
    BY <1>1, <2>1
  <2>2. CASE dockerContainers' = [dockerContainers EXCEPT ![d] = NoContainer]
    <3>1. c # d
      BY <1>0, <2>2 DEF NoContainer, Exists
    <3> QED
      BY <1>0, <2>2, <3>1 DEF Exists
  <2> QED
    BY <1>3, <2>1, <2>2 DEF RemoveContainer
<1>4. CASE Tick \/ \E d \in ContainerIds : ContainerExits(d)
  BY <1>1, <1>2, <1>4 DEF Tick, ContainerExits, daemon, Exists
<1>5. ASSUME NEW r \in Runs, Configure(r) \/ Release(r) \/ Crash(r) PROVE Same
  BY <1>1, <1>5 DEF Configure, Release, Crash, daemon
<1>6. ASSUME NEW r \in Runs, SweepStep(r) PROVE Same
  BY <1>1, <1>3, <1>6
     DEF SweepStep, New, SweepContainer, ListNetworks, SweepNetwork, SweepDone, daemon
<1>7. ASSUME NEW r \in Runs, NEW at, NEW d \in ContainerIds, NEW next,
             CreateContainer(r, at, d, next), Later(d), ~Later(d)'
      PROVE  Same \/ Made
  <2>1. CASE c = d
    BY <1>0, <1>7, <2>1 DEF CreateContainer
  <2>2. CASE c # d
    BY <1>0, <1>7, <2>2 DEF CreateContainer, Exists
  <2> QED
    BY <2>1, <2>2
<1>8. ASSUME NEW r \in Runs, BuildStep(r)
      PROVE  Same \/ Made
  <2> DEFINE i == idx[r]
  <2>1. /\ i \in Nat
        /\ pc[r] \in GatewayPoints => i < Gateways
        /\ pc[r] \in PeerPoints => i < Peers
    BY DEF LoopOK, TypeInv, RunInv, RunTypeOK
  <2>2. CASE CreateGateway(r)
    <3>1. /\ pc[r] = "createGateway" /\ pc[r] \in GatewayPoints
          /\ idx' = idx /\ pc'[r] \in {"connectGateway", "dropProcesses"}
      BY <1>0, <2>2 DEF CreateGateway, CreateContainer, Goto, GatewayPoints
    <3>2. PICK d \in ContainerIds : d = Gateway(r, i)
      BY <2>1, <3>1, Ids
    <3>3. Owner(d) = r /\ d[2] = "gw" /\ d[3] = i
      BY <2>1, <3>2, Ids, Parts
    <3>4. Later(d) /\ ~Later(d)'
      BY <2>1, <3>1, <3>3 DEF Later, BeforeLoops, GatewayPoints, PeerPoints, PeerKinds
    <3> QED
      BY <1>7, <2>2, <3>2, <3>4 DEF CreateGateway
  <2>3. CASE CreateRouter(r)
    <3>1. /\ pc[r] = "createRouter" /\ pc[r] \in PeerPoints
          /\ idx' = idx /\ pc'[r] \in {"connectRouterPublic", "dropProcesses"}
      BY <1>0, <2>3 DEF CreateRouter, CreateContainer, Goto, PeerPoints
    <3>2. PICK d \in ContainerIds : d = Router(r, i)
      BY <2>1, <3>1, Ids
    <3>3. Owner(d) = r /\ d[2] = "router" /\ d[3] = PeerIndex(i) /\ d[3] \in Nat
      BY <2>1, <3>2, Ids, Parts, IdParts
    <3>4. Later(d)
      BY <3>1, <3>3 DEF Later, PeerKinds, Until
    <3>5. ~Later(d)'
      BY <3>1, <3>3 DEF Later, BeforeLoops, GatewayPoints, PeerPoints, Until
    <3> QED
      BY <1>7, <2>3, <3>2, <3>4, <3>5 DEF CreateRouter
  <2>4. CASE CreatePeer(r)
    <3>1. /\ pc[r] = "createPeer" /\ pc[r] \in PeerPoints
          /\ idx' = idx /\ pc'[r] \in {"connectPeer", "dropProcesses"}
      BY <1>0, <2>4 DEF CreatePeer, CreateContainer, Goto, PeerPoints
    <3>2. PICK d \in ContainerIds : d = Peer(r, i)
      BY <2>1, <3>1, Ids
    <3>3. Owner(d) = r /\ d[2] = "peer" /\ d[3] = PeerIndex(i) /\ d[3] \in Nat
      BY <2>1, <3>2, Ids, Parts, IdParts
    <3>4. Later(d)
      BY <3>1, <3>3 DEF Later, PeerKinds, Until
    <3>5. ~Later(d)'
      BY <3>1, <3>3 DEF Later, BeforeLoops, GatewayPoints, PeerPoints, Until
    <3> QED
      BY <1>7, <2>4, <3>2, <3>4, <3>5 DEF CreatePeer
  <2>5. ASSUME NEW at, NEW d, NEW n, NEW next, ConnectNetwork(r, at, d, n, next) PROVE Same
    BY <1>0, <2>5 DEF ConnectNetwork, Exists, ContainerRecords
  <2>6. ASSUME NEW at, NEW d, NEW next, StartContainer(r, at, d, next) PROVE Same
    BY <1>0, <2>6 DEF StartContainer, Exists, ContainerRecords
  <2>7. CASE \/ ConnectGateway(r) \/ ConnectRouterPublic(r) \/ ConnectRouterPrivate(r)
             \/ ConnectPeer(r)
    BY <2>5, <2>7 DEF ConnectGateway, ConnectRouterPublic, ConnectRouterPrivate, ConnectPeer
  <2>8. CASE StartGateway(r) \/ StartRouter(r) \/ StartPeer(r)
    BY <2>6, <2>8 DEF StartGateway, StartRouter, StartPeer
  <2>9. CASE \/ CreatePublicNetwork(r) \/ CreateNatNetwork(r) \/ RetryPublicSubnet(r)
             \/ RegisterGateway(r) \/ RegisterPeer(r) \/ ApiError(r)
    BY <1>1, <2>9 DEF CreatePublicNetwork, CreateNatNetwork, CreateNetwork, RetryPublicSubnet,
                      RegisterGateway, RegisterPeer, ApiError, daemon
  <2> QED
    BY <1>8, <2>2, <2>3, <2>4, <2>7, <2>8, <2>9 DEF BuildStep
<1>9. ASSUME NEW r \in Runs, DropStep(r) PROVE Same
  <2>1. ASSUME NEW d \in processes[r], DropProcess(r, d) PROVE Same
    <3>1. d \in ContainerIds
      BY <1>0
    <3>2. CASE dockerContainers[d].state = "running"
      BY <1>1, <1>2, <2>1, <3>1, <3>2 DEF DropProcess, Exists
    <3>3. CASE UNCHANGED dockerContainers
      BY <1>1, <3>3
    <3> QED
      BY <2>1, <3>2, <3>3 DEF DropProcess
  <2>2. ASSUME NEW d \in containers[r], DropContainer(r, d) PROVE Same
    BY <1>3, <2>2 DEF DropContainer
  <2>3. CASE \/ DropBackend(r) \/ AllContainersDropped(r) \/ AllNetworksDropped(r)
             \/ \E n \in networks[r] : DropNetwork(r, n)
    BY <1>1, <2>3 DEF DropBackend, AllContainersDropped, AllNetworksDropped, DropNetwork, daemon
  <2> QED
    BY <1>9, <2>1, <2>2, <2>3 DEF DropStep
<1> QED
  BY <1>4, <1>5, <1>6, <1>8, <1>9 DEF Next, RunStep

\* The same of a network, which is given the subnet its run's configuration names.
LEMMA NetworkEffects ==
  ASSUME TypeInv, Next, NEW n \in NetworkIds, Present(n)'
  PROVE  \/ Present(n) /\ dockerNetworks'[n] = dockerNetworks[n]
         \/ /\ Later(n) /\ ~Later(n)' /\ dockerNetworks'[n].born = now
            /\ n[2] = "public" => /\ dockerNetworks'[n].subnet = PublicSubnet(public_subnet[Owner(n)])
                                  /\ UNCHANGED public_subnet
<1> DEFINE Same == Present(n) /\ dockerNetworks'[n] = dockerNetworks[n]
           Made == /\ Later(n) /\ ~Later(n)' /\ dockerNetworks'[n].born = now
                   /\ n[2] = "public" =>
                        /\ dockerNetworks'[n].subnet = PublicSubnet(public_subnet[Owner(n)])
                        /\ UNCHANGED public_subnet
<1>0. /\ dockerNetworks \in [NetworkIds -> NetworkRecords]
      /\ pc \in [Runs -> Points] /\ idx \in [Runs -> Nat]
  BY DEF TypeInv, DaemonInv, DaemonTypeOK, RunInv, RunTypeOK
<1>1. ASSUME UNCHANGED dockerNetworks PROVE Same
  BY <1>1 DEF Present
<1>2. ASSUME NEW m, RemoveNetwork(m) PROVE Same
  <2>1. CASE UNCHANGED dockerNetworks
    BY <1>1, <2>1
  <2>2. CASE dockerNetworks' = [dockerNetworks EXCEPT ![m] = NoNetwork]
    <3>1. n # m
      BY <1>0, <2>2 DEF NoNetwork, Present
    <3> QED
      BY <1>0, <2>2, <3>1 DEF Present
  <2> QED
    BY <1>2, <2>1, <2>2 DEF RemoveNetwork
<1>3. CASE Tick \/ \E d \in ContainerIds : ContainerExits(d)
  BY <1>1, <1>3 DEF Tick, ContainerExits, daemon
<1>4. ASSUME NEW r \in Runs, Configure(r) \/ Release(r) \/ Crash(r) PROVE Same
  BY <1>1, <1>4 DEF Configure, Release, Crash, daemon
<1>5. ASSUME NEW r \in Runs, SweepStep(r) PROVE Same
  BY <1>1, <1>2, <1>5
     DEF SweepStep, New, SweepContainer, ListNetworks, SweepNetwork, SweepDone, daemon
<1>6. ASSUME NEW r \in Runs, NEW m \in NetworkIds, NEW subnet,
             CreateNetwork(r, m, subnet), Later(m), ~Later(m)',
             m[2] = "public" => /\ subnet = PublicSubnet(public_subnet[Owner(m)])
                                /\ UNCHANGED public_subnet
      PROVE  Same \/ Made
  <2>1. CASE n = m
    BY <1>0, <1>6, <2>1 DEF CreateNetwork
  <2>2. CASE n # m
    BY <1>0, <1>6, <2>2 DEF CreateNetwork, Present
  <2> QED
    BY <2>1, <2>2
<1>7. ASSUME NEW r \in Runs, BuildStep(r) PROVE Same \/ Made
  <2> DEFINE i == idx[r]
  <2>1. /\ i \in Nat
        /\ pc[r] \in PeerPoints => i < Peers
    BY DEF LoopOK, TypeInv, RunInv, RunTypeOK
  <2>2. CASE CreatePublicNetwork(r)
    <3>1. PICK m \in NetworkIds : m = PublicNetwork(r)
      BY Ids
    <3>2. Owner(m) = r /\ m[2] = "public"
      BY <3>1, Ids, Parts
    <3>3. /\ pc[r] = "createPublicNetwork" /\ UNCHANGED public_subnet
          /\ pc'[r] \in {"createGateway", "createNatNetwork", "built", "dropProcesses"}
          /\ CreateNetwork(r, m, PublicSubnet(public_subnet[r]))
      BY <1>0, <2>2, <3>1 DEF CreatePublicNetwork, RequestedSubnet, Goto, config
    <3>4. Later(m) /\ ~Later(m)'
      BY <3>2, <3>3 DEF Later, BeforeLoops, GatewayPoints, PeerPoints, PeerKinds
    <3> QED
      BY <1>6, <3>2, <3>3, <3>4
  <2>3. CASE CreateNatNetwork(r)
    <3>1. /\ pc[r] = "createNatNetwork" /\ pc[r] \in PeerPoints
          /\ idx' = idx /\ pc'[r] \in {"createRouter", "dropProcesses"}
      BY <1>0, <2>3 DEF CreateNatNetwork, Goto, PeerPoints
    <3>2. PICK m \in NetworkIds : m = NatNetwork(r, i)
      BY <2>1, <3>1, Ids
    <3>3. Owner(m) = r /\ m[2] = "nat" /\ m[3] = PeerIndex(i) /\ m[3] \in Nat
      BY <2>1, <3>2, Ids, Parts, IdParts
    <3>4. Later(m)
      BY <3>1, <3>3 DEF Later, PeerKinds, Until
    <3>5. ~Later(m)'
      BY <3>1, <3>3 DEF Later, BeforeLoops, GatewayPoints, PeerPoints, Until
    <3> QED
      BY <1>6, <2>3, <3>2, <3>3, <3>4, <3>5 DEF CreateNatNetwork
  <2>4. CASE CreateGateway(r) \/ CreateRouter(r) \/ CreatePeer(r)
    BY <1>1, <2>4 DEF CreateGateway, CreateRouter, CreatePeer, CreateContainer
  <2>5. CASE \/ ConnectGateway(r) \/ ConnectRouterPublic(r) \/ ConnectRouterPrivate(r)
             \/ ConnectPeer(r) \/ StartGateway(r) \/ StartRouter(r) \/ StartPeer(r)
    BY <1>1, <2>5 DEF ConnectGateway, ConnectRouterPublic, ConnectRouterPrivate, ConnectPeer,
                      StartGateway, StartRouter, StartPeer, ConnectNetwork, StartContainer
  <2>6. CASE RetryPublicSubnet(r) \/ RegisterGateway(r) \/ RegisterPeer(r) \/ ApiError(r)
    BY <1>1, <2>6 DEF RetryPublicSubnet, RegisterGateway, RegisterPeer, ApiError, daemon
  <2> QED
    BY <1>7, <2>2, <2>3, <2>4, <2>5, <2>6 DEF BuildStep
<1>8. ASSUME NEW r \in Runs, DropStep(r) PROVE Same
  BY <1>1, <1>2, <1>8
     DEF DropStep, DropProcess, DropBackend, DropContainer, AllContainersDropped, DropNetwork,
         AllNetworksDropped, daemon
<1> QED
  BY <1>3, <1>4, <1>5, <1>7, <1>8 DEF Next, RunStep

\* What a sweep is after has just been listed, or it has been after it already.
LEMMA VictimEffects ==
  ASSUME TypeInv, Next, NEW r \in Runs, NEW x \in victims'[r]
  PROVE  \/ x \in victims[r] /\ seen'[r] \in {seen[r], now}
         \/ x \in ContainerIds /\ Exists(x) /\ Stale(dockerContainers[x].born, now) /\ seen'[r] = now
         \/ x \in NetworkIds /\ Present(x) /\ Stale(stamp[Owner(x)], seen[r]) /\ seen'[r] = seen[r]
<1> DEFINE Kept == x \in victims[r] /\ seen'[r] \in {seen[r], now}
<1>0. /\ seen \in [Runs -> Nat]
      /\ victims \in [Runs -> SUBSET (ContainerIds \union NetworkIds)]
  BY DEF TypeInv, RunInv, RunTypeOK
<1>1. ASSUME UNCHANGED sweep PROVE Kept
  BY <1>1 DEF sweep
<1>2. CASE Tick \/ \E d \in ContainerIds : ContainerExits(d)
  BY <1>1, <1>2 DEF Tick, ContainerExits
<1>3. ASSUME NEW q \in Runs, Configure(q) \/ Release(q) \/ Crash(q) PROVE Kept
  BY <1>0, <1>1, <1>3 DEF Configure, Release, Crash
<1>4. ASSUME NEW q \in Runs, New(q)
      PROVE  \/ Kept
             \/ /\ x \in ContainerIds /\ Exists(x) /\ Stale(dockerContainers[x].born, now)
                /\ seen'[r] = now
  BY <1>0, <1>4 DEF New, ListedContainers
<1>5. ASSUME NEW q \in Runs, ListNetworks(q)
      PROVE  \/ Kept
             \/ /\ x \in NetworkIds /\ Present(x) /\ Stale(stamp[Owner(x)], seen[r])
                /\ seen'[r] = seen[r]
  BY <1>0, <1>5 DEF ListNetworks, ListedNetworks
<1>6. ASSUME NEW q \in Runs, \/ \E c \in victims[q] : SweepContainer(q, c)
                             \/ \E n \in victims[q] : SweepNetwork(q, n)
                             \/ SweepDone(q)
      PROVE  Kept
  BY <1>0, <1>1, <1>6 DEF SweepContainer, SweepNetwork, SweepDone
<1>7. ASSUME NEW q \in Runs, BuildStep(q) PROVE Kept
  <2>1. UNCHANGED sweep
    <3>1. CASE CreateGateway(q) \/ CreateRouter(q) \/ CreatePeer(q)
      BY <3>1 DEF CreateGateway, CreateRouter, CreatePeer, CreateContainer
    <3>2. CASE \/ ConnectGateway(q) \/ ConnectRouterPublic(q) \/ ConnectRouterPrivate(q)
               \/ ConnectPeer(q) \/ StartGateway(q) \/ StartRouter(q) \/ StartPeer(q)
      BY <3>2 DEF ConnectGateway, ConnectRouterPublic, ConnectRouterPrivate, ConnectPeer,
                  StartGateway, StartRouter, StartPeer, ConnectNetwork, StartContainer
    <3>3. CASE \/ CreatePublicNetwork(q) \/ RetryPublicSubnet(q) \/ CreateNatNetwork(q)
               \/ RegisterGateway(q) \/ RegisterPeer(q) \/ ApiError(q)
      BY <3>3 DEF CreatePublicNetwork, RetryPublicSubnet, CreateNatNetwork, RegisterGateway,
                  RegisterPeer, ApiError
    <3> QED
      BY <1>7, <3>1, <3>2, <3>3 DEF BuildStep
  <2> QED
    BY <1>1, <2>1
<1>8. ASSUME NEW q \in Runs, DropStep(q) PROVE Kept
  BY <1>1, <1>8 DEF DropStep, DropProcess, DropBackend, DropContainer, AllContainersDropped,
                    DropNetwork, AllNetworksDropped
<1> QED
  BY <1>2, <1>3, <1>4, <1>5, <1>6, <1>7, <1>8 DEF Next, RunStep, SweepStep

LEMMA FreshStep ==
  ASSUME TypeInv, Fresh, Next
  PROVE  Fresh'
<1>1. ASSUME NEW c \in ContainerIds, Later(c)'
      PROVE  ~Exists(c)' /\ \A r \in Runs : c \notin victims'[r]
  <2>1. Later(c) /\ ~Exists(c) /\ \A r \in Runs : c \notin victims[r]
    BY <1>1, LaterShrinks DEF Fresh
  <2>2. ~Exists(c)'
    BY <1>1, <2>1, ContainerEffects
  <2>3. c \notin NetworkIds
    BY IdParts
  <2> QED
    BY <2>1, <2>2, <2>3, VictimEffects
<1>2. ASSUME NEW n \in NetworkIds, Later(n)'
      PROVE  ~Present(n)' /\ \A r \in Runs : n \notin victims'[r]
  <2>1. Later(n) /\ ~Present(n) /\ \A r \in Runs : n \notin victims[r]
    BY <1>2, LaterShrinks DEF Fresh
  <2>2. ~Present(n)'
    BY <1>2, <2>1, NetworkEffects
  <2>3. n \notin ContainerIds
    BY IdParts
  <2> QED
    BY <2>1, <2>2, <2>3, VictimEffects
<1> QED
  BY <1>1, <1>2 DEF Fresh

-----------------------------------------------------------------------------
Sweeping == SweepPoints \union BuildPoints \union {"built"}

\* Of a run's steps, these and no others matter to its sweep.
LEMMA SweepEffects ==
  ASSUME TypeInv, Next, NEW r \in Runs
  PROVE  /\ now' >= now /\ seen'[r] \in {seen[r], now}
         /\ \/ New(r) \/ ListNetworks(r) \/ \E c \in victims[r] : SweepContainer(r, c)
            \/ /\ seen'[r] = seen[r]
               /\ pc'[r] \in Sweeping =>
                    /\ pc[r] \in Sweeping
                    /\ pc[r] = "sweepContainers" =>
                         pc'[r] = "sweepContainers" /\ victims'[r] = victims[r]
<1> DEFINE Apart == /\ seen'[r] = seen[r]
                    /\ pc'[r] \in Sweeping =>
                         /\ pc[r] \in Sweeping
                         /\ pc[r] = "sweepContainers" =>
                              pc'[r] = "sweepContainers" /\ victims'[r] = victims[r]
<1>0. /\ now \in Nat /\ seen \in [Runs -> Nat] /\ pc \in [Runs -> Points]
      /\ victims \in [Runs -> SUBSET (ContainerIds \union NetworkIds)]
  BY ClockAssumption DEF TypeInv, RunInv, RunTypeOK
<1>1. ASSUME Tick \/ \E d \in ContainerIds : ContainerExits(d) PROVE now' >= now /\ Apart
  <2>1. now' \in {now, now + 1} /\ Apart
    BY <1>1 DEF Tick, ContainerExits, sweep
  <2> QED
    BY <1>0, <2>1
<1>2. ASSUME NEW q \in Runs, Configure(q) \/ Release(q) \/ Crash(q) PROVE UNCHANGED now /\ Apart
  BY <1>0, <1>2 DEF Configure, Release, Crash, Goto, sweep, Sweeping, SweepPoints, BuildPoints
<1>3. ASSUME NEW q \in Runs, SweepStep(q)
      PROVE  /\ UNCHANGED now /\ seen'[r] \in {seen[r], now}
             /\ \/ New(r) \/ ListNetworks(r) \/ \E c \in victims[r] : SweepContainer(r, c)
                \/ Apart
  <2>1. CASE New(q) \/ ListNetworks(q) \/ SweepDone(q)
    BY <1>0, <2>1 DEF New, ListNetworks, SweepDone, Goto, sweep, Sweeping, SweepPoints,
                      BuildPoints
  <2>2. ASSUME NEW c \in victims[q], SweepContainer(q, c)
        PROVE  UNCHANGED now /\ seen' = seen /\ (q = r \/ Apart)
    BY <1>0, <2>2 DEF SweepContainer
  <2>3. ASSUME NEW n \in victims[q], SweepNetwork(q, n) PROVE UNCHANGED now /\ seen' = seen /\ Apart
    BY <1>0, <2>3 DEF SweepNetwork
  <2> QED
    BY <1>3, <2>1, <2>2, <2>3 DEF SweepStep
<1>4. ASSUME NEW q \in Runs, BuildStep(q) PROVE UNCHANGED now /\ Apart
  <2>1. /\ UNCHANGED <<now, sweep>> /\ pc[q] \in BuildPoints
        /\ \A p \in Runs \ {q} : pc'[p] = pc[p]
    <3>1. CASE CreateGateway(q) \/ CreateRouter(q) \/ CreatePeer(q)
      BY <1>0, <3>1 DEF CreateGateway, CreateRouter, CreatePeer, CreateContainer, Goto, BuildPoints
    <3>2. CASE \/ ConnectGateway(q) \/ ConnectRouterPublic(q) \/ ConnectRouterPrivate(q)
               \/ ConnectPeer(q)
      BY <1>0, <3>2 DEF ConnectGateway, ConnectRouterPublic, ConnectRouterPrivate, ConnectPeer,
                  ConnectNetwork, Goto, BuildPoints
    <3>3. CASE StartGateway(q) \/ StartRouter(q) \/ StartPeer(q)
      BY <1>0, <3>3 DEF StartGateway, StartRouter, StartPeer, StartContainer, Goto, BuildPoints
    <3>4. CASE \/ CreatePublicNetwork(q) \/ RetryPublicSubnet(q) \/ CreateNatNetwork(q)
               \/ RegisterGateway(q) \/ RegisterPeer(q) \/ ApiError(q)
      BY <1>0, <3>4 DEF CreatePublicNetwork, RetryPublicSubnet, CreateNatNetwork,
                  RegisterGateway, RegisterPeer, ApiError, Goto, BuildPoints
    <3> QED
      BY <1>4, <3>1, <3>2, <3>3, <3>4 DEF BuildStep
  <2> QED
    BY <1>0, <2>1 DEF sweep, Sweeping, BuildPoints
<1>5. ASSUME NEW q \in Runs, DropStep(q) PROVE UNCHANGED now /\ Apart
  <2>1. /\ UNCHANGED <<now, sweep>> /\ pc[q] \in DropPoints /\ pc'[q] \in DropPoints \union {"done"}
        /\ \A p \in Runs \ {q} : pc'[p] = pc[p]
    BY <1>0, <1>5
       DEF DropStep, DropProcess, DropBackend, DropContainer, AllContainersDropped, DropNetwork,
           AllNetworksDropped, Goto, DropPoints
  <2> QED
    BY <1>0, <2>1 DEF sweep, Sweeping, SweepPoints, BuildPoints, DropPoints
<1>6. \/ Tick \/ \E d \in ContainerIds : ContainerExits(d)
      \/ \E q \in Runs : Configure(q) \/ Release(q) \/ Crash(q)
      \/ \E q \in Runs : SweepStep(q)
      \/ \E q \in Runs : BuildStep(q)
      \/ \E q \in Runs : DropStep(q)
  BY DEF Next, RunStep
<1>7. \/ now' >= now /\ Apart
      \/ UNCHANGED now /\ Apart
      \/ /\ UNCHANGED now /\ seen'[r] \in {seen[r], now}
         /\ \/ New(r) \/ ListNetworks(r) \/ \E c \in victims[r] : SweepContainer(r, c)
            \/ Apart
  BY <1>1, <1>2, <1>3, <1>4, <1>5, <1>6
<1> QED
  BY <1>0, <1>7

\* The time in a run's name does not change once it is configured, nor does its subnet once
\* the public network is there.
LEMMA ConfigEffects ==
  ASSUME TypeInv, Next, NEW r \in Runs
  PROVE  /\ pc[r] # "idle" => stamp'[r] = stamp[r]
         /\ pc[r] \notin BeforeLoops => public_subnet'[r] = public_subnet[r]
<1>0. stamp \in [Runs -> Nat] /\ public_subnet \in [Runs -> SecondOctets]
  BY DEF TypeInv, RunInv, RunTypeOK
<1> DEFINE Kept == stamp'[r] = stamp[r] /\ public_subnet'[r] = public_subnet[r]
<1>1. CASE Tick \/ \E d \in ContainerIds : ContainerExits(d)
  BY <1>1 DEF Tick, ContainerExits, config
<1>2. ASSUME NEW q \in Runs, Configure(q) PROVE (q = r /\ pc[r] = "idle") \/ Kept
  BY <1>0, <1>2 DEF Configure
<1>3. ASSUME NEW q \in Runs, RetryPublicSubnet(q)
      PROVE  (q = r /\ pc[r] = "createPublicNetwork" /\ stamp'[r] = stamp[r]) \/ Kept
  BY <1>0, <1>3 DEF RetryPublicSubnet
<1>4. ASSUME NEW q \in Runs, Release(q) \/ Crash(q) \/ SweepStep(q) \/ DropStep(q) PROVE Kept
  <2>1. CASE Release(q) \/ Crash(q)
    BY <2>1 DEF Release, Crash, config
  <2>2. CASE SweepStep(q)
    BY <2>2 DEF SweepStep, New, SweepContainer, ListNetworks, SweepNetwork, SweepDone, config
  <2>3. CASE DropStep(q)
    BY <2>3 DEF DropStep, DropProcess, DropBackend, DropContainer, AllContainersDropped,
                DropNetwork, AllNetworksDropped, config
  <2> QED
    BY <1>4, <2>1, <2>2, <2>3
<1>5. ASSUME NEW q \in Runs, BuildStep(q), ~RetryPublicSubnet(q) PROVE Kept
  <2>1. CASE CreateGateway(q) \/ CreateRouter(q) \/ CreatePeer(q)
    BY <2>1 DEF CreateGateway, CreateRouter, CreatePeer, CreateContainer, config
  <2>2. CASE \/ ConnectGateway(q) \/ ConnectRouterPublic(q) \/ ConnectRouterPrivate(q)
             \/ ConnectPeer(q) \/ StartGateway(q) \/ StartRouter(q) \/ StartPeer(q)
    BY <2>2 DEF ConnectGateway, ConnectRouterPublic, ConnectRouterPrivate, ConnectPeer,
                StartGateway, StartRouter, StartPeer, ConnectNetwork, StartContainer, config
  <2>3. CASE \/ CreatePublicNetwork(q) \/ CreateNatNetwork(q)
             \/ RegisterGateway(q) \/ RegisterPeer(q) \/ ApiError(q)
    BY <2>3 DEF CreatePublicNetwork, CreateNatNetwork, RegisterGateway, RegisterPeer,
                ApiError, config
  <2> QED
    BY <1>5, <2>1, <2>2, <2>3 DEF BuildStep
<1> QED
  BY <1>1, <1>2, <1>3, <1>4, <1>5 DEF Next, RunStep, BeforeLoops

LEMMA SweepOKStep ==
  ASSUME TypeInv, Fresh, SweepOK, Next
  PROVE  SweepOK'
<1>0. /\ now \in Nat /\ MaxAge \in Nat
      /\ seen \in [Runs -> Nat] /\ stamp \in [Runs -> Nat]
      /\ \A c \in ContainerIds : dockerContainers[c].born \in Nat
      /\ victims \in [Runs -> SUBSET (ContainerIds \union NetworkIds)]
  BY ClockAssumption
     DEF TypeInv, DaemonInv, DaemonTypeOK, RunInv, RunTypeOK, ContainerRecords
<1> SUFFICES ASSUME NEW r \in Runs
             PROVE  /\ seen'[r] <= now'
                    /\ \A c \in victims'[r] \intersect ContainerIds :
                         Exists(c)' => Stale(dockerContainers'[c].born, seen'[r])
                    /\ \A n \in victims'[r] \intersect NetworkIds :
                         Stale(stamp'[Owner(n)], seen'[r])
                    /\ ~DaemonFaults /\ pc'[r] \in Sweeping =>
                         \A c \in ContainerIds :
                           Exists(c)' /\ Stale(dockerContainers'[c].born, seen'[r]) =>
                             pc'[r] = "sweepContainers" /\ c \in victims'[r]
  BY DEF SweepOK, Sweeping, Stale
<1>1. /\ seen[r] <= now /\ now' >= now /\ seen'[r] \in {seen[r], now}
  BY SweepEffects DEF SweepOK
<1>2. seen'[r] <= now'
  <2>1. now' \in Nat
    BY RunInvStep, ClockAssumption
  <2> QED
    BY <1>0, <1>1, <2>1
<1>3. ASSUME NEW c \in victims'[r] \intersect ContainerIds, Exists(c)'
      PROVE  Stale(dockerContainers'[c].born, seen'[r])
  <2>1. CASE c \in victims[r]
    <3>1. Exists(c) /\ dockerContainers'[c].born = dockerContainers[c].born
      BY <1>3, <2>1, ContainerEffects DEF Fresh
    <3> QED
      BY <1>0, <1>1, <2>1, <3>1 DEF SweepOK, Stale
  <2>2. CASE Exists(c) /\ Stale(dockerContainers[c].born, now) /\ seen'[r] = now
    <3>1. dockerContainers'[c].born = dockerContainers[c].born
      BY <1>3, <2>2, ContainerEffects DEF Fresh
    <3> QED
      BY <2>2, <3>1
  <2> QED
    BY <1>3, <2>1, <2>2, VictimEffects, IdParts
<1>4. ASSUME NEW n \in victims'[r] \intersect NetworkIds
      PROVE  Stale(stamp'[Owner(n)], seen'[r])
  <2>1. /\ n \in victims[r] \/ Present(n)
        /\ Stale(stamp[Owner(n)], seen'[r])
    BY <1>0, <1>1, <1>4, VictimEffects, IdParts DEF SweepOK, Stale
  <2>2. pc[Owner(n)] # "idle"
    BY <2>1 DEF Fresh, Later, BeforeLoops
  <2> QED
    BY <2>1, <2>2, ConfigEffects, IdParts
<1>5. ASSUME ~DaemonFaults, pc'[r] \in Sweeping, NEW c \in ContainerIds,
             Exists(c)', Stale(dockerContainers'[c].born, seen'[r])
      PROVE  pc'[r] = "sweepContainers" /\ c \in victims'[r]
  <2>1. Exists(c) /\ dockerContainers'[c].born = dockerContainers[c].born
    BY <1>0, <1>1, <1>5, ContainerEffects DEF Stale
  <2>2. CASE New(r)
    BY <1>0, <1>5, <2>1, <2>2 DEF New, ListedContainers, Goto, Sweeping, SweepPoints, BuildPoints,
                                  TypeInv, RunInv, RunTypeOK
  <2>3. ASSUME NEW d \in victims[r], SweepContainer(r, d)
        PROVE  pc'[r] = "sweepContainers" /\ c \in victims'[r]
    <3>1. c \in victims[r] /\ pc'[r] = "sweepContainers"
      BY <1>5, <2>1, <2>3 DEF SweepOK, SweepContainer, SweepPoints
    <3>2. d = c => ~Exists(c)'
      BY <1>5, <2>3 DEF SweepContainer, RemoveContainer, NoContainer, Exists, TypeInv, DaemonInv,
                        DaemonTypeOK
    <3> QED
      BY <1>0, <1>5, <2>3, <3>1, <3>2 DEF SweepContainer
  <2>4. CASE ListNetworks(r)
    BY <1>5, <2>1, <2>4 DEF ListNetworks, SweepOK, SweepPoints
  <2>5. CASE /\ seen'[r] = seen[r] /\ pc[r] \in Sweeping
             /\ pc[r] = "sweepContainers" =>
                  pc'[r] = "sweepContainers" /\ victims'[r] = victims[r]
    BY <1>5, <2>1, <2>5 DEF SweepOK, Sweeping
  <2> QED
    BY <1>5, <2>2, <2>3, <2>4, <2>5, SweepEffects
<1> QED
  BY <1>2, <1>3, <1>4, <1>5

\* A subnet is drawn before the network is there that it is drawn for.
LEMMA SubnetStep ==
  ASSUME TypeInv, Fresh, PublicSubnetAgrees, Next
  PROVE  PublicSubnetAgrees'
<1> SUFFICES ASSUME NEW r \in Runs, Present(PublicNetwork(r))'
             PROVE  dockerNetworks'[PublicNetwork(r)].subnet = PublicSubnet(public_subnet'[r])
  BY DEF PublicSubnetAgrees, PublicNetwork, PublicSubnet
<1>1. PICK n \in NetworkIds : n = PublicNetwork(r) /\ Owner(n) = r /\ n[2] = "public"
  BY Ids, Parts
<1>2. Present(n)'
  BY <1>1 DEF Present, PublicNetwork
<1>3. CASE Present(n) /\ dockerNetworks'[n] = dockerNetworks[n]
  <2>1. public_subnet'[r] = public_subnet[r]
    BY <1>1, <1>3, ConfigEffects DEF Fresh, Later
  <2> QED
    BY <1>1, <1>3, <2>1 DEF PublicSubnetAgrees
<1>4. CASE /\ dockerNetworks'[n].subnet = PublicSubnet(public_subnet[r])
           /\ UNCHANGED public_subnet
  BY <1>1, <1>4
<1> QED
  BY <1>1, <1>2, <1>3, <1>4, NetworkEffects

-----------------------------------------------------------------------------
SharedInv == IInv /\ Fresh /\ SweepOK /\ PublicSubnetAgrees

LEMMA SharedInductive == Spec => []SharedInv
<1>1. Init => Fresh /\ SweepOK /\ PublicSubnetAgrees
  BY DEF Init, Fresh, SweepOK, PublicSubnetAgrees, Exists, Present, NoContainer, NoNetwork,
         PublicNetwork, NetworkIds, PublicIndex, SweepPoints, BuildPoints
<1>2. TypeInv /\ Fresh /\ SweepOK /\ PublicSubnetAgrees /\ [Next]_vars =>
        (Fresh /\ SweepOK /\ PublicSubnetAgrees)'
  <2>1. CASE UNCHANGED vars
    BY <2>1 DEF vars, daemon, config, sweep, backend, Fresh, SweepOK, PublicSubnetAgrees, Later,
                Exists, Present
  <2> QED
    BY <2>1, FreshStep, SweepOKStep, SubnetStep
<1>3. IInv => TypeInv
  BY DEF IInv
<1> QED
  BY <1>1, <1>2, <1>3, Inductive, PTL DEF Spec, SharedInv

\* The configuration names the subnet that the public network has, after any number of retries.
THEOREM RetriesAgree == Spec => []PublicSubnetAgrees
  BY SharedInductive, PTL DEF SharedInv

\* A sweep leaves no container that was old when it began, whichever run it was of.
THEOREM SweepTakesOld == Spec => []SweepRemovesOld
<1>1. SharedInv => SweepRemovesOld
  BY DEF SharedInv, SweepOK, SweepRemovesOld, OlderThanMaxAge, Stale, BuildPoints, IInv, TypeInv,
         DaemonInv, DaemonTypeOK, RunInv, RunTypeOK, ContainerRecords
<1> QED
  BY <1>1, SharedInductive, PTL

-----------------------------------------------------------------------------
\* A container goes by a sweep that is after it, or by its own run's Drop.
LEMMA ContainerRemoval ==
  ASSUME TypeInv, Next, NEW c \in ContainerIds, Exists(c), ~Exists(c)'
  PROVE  \/ \E r \in Runs : c \in victims[r] /\ SweepContainer(r, c)
         \/ pc[Owner(c)] = "dropContainers"
<1>0. /\ dockerContainers \in [ContainerIds -> ContainerRecords]
      /\ \A r \in Runs : /\ processes[r] \subseteq ContainerIds
                         /\ \A d \in containers[r] : Owner(d) = r
  BY DEF TypeInv, DaemonInv, DaemonTypeOK, RunInv, RunTypeOK, ListsOwned
<1>1. ASSUME UNCHANGED dockerContainers PROVE FALSE
  BY <1>1 DEF Exists
<1>2. ASSUME NEW d, NEW s, s # "absent",
             dockerContainers' = [dockerContainers EXCEPT ![d].state = s]
      PROVE  FALSE
  BY <1>0, <1>2 DEF Exists, ContainerRecords
<1>3. ASSUME NEW d, RemoveContainer(d) PROVE d = c
  BY <1>0, <1>1, <1>3 DEF RemoveContainer, Exists
<1>4. CASE Tick \/ \E d \in ContainerIds : ContainerExits(d)
  BY <1>1, <1>2, <1>4 DEF Tick, ContainerExits, daemon
<1>5. ASSUME NEW r \in Runs, Configure(r) \/ Release(r) \/ Crash(r) PROVE FALSE
  BY <1>1, <1>5 DEF Configure, Release, Crash, daemon
<1>6. ASSUME NEW r \in Runs, SweepStep(r) PROVE c \in victims[r] /\ SweepContainer(r, c)
  BY <1>1, <1>3, <1>6
     DEF SweepStep, New, SweepContainer, ListNetworks, SweepNetwork, SweepDone, daemon
<1>7. ASSUME NEW r \in Runs, BuildStep(r) PROVE FALSE
  <2>1. ASSUME NEW at, NEW d, NEW next, CreateContainer(r, at, d, next) PROVE FALSE
    BY <1>0, <2>1 DEF CreateContainer, Exists
  <2>2. ASSUME NEW at, NEW d, NEW n, NEW next, ConnectNetwork(r, at, d, n, next) PROVE FALSE
    BY <1>0, <2>2 DEF ConnectNetwork, Exists, ContainerRecords
  <2>3. ASSUME NEW at, NEW d, NEW next, StartContainer(r, at, d, next) PROVE FALSE
    BY <1>2, <2>3 DEF StartContainer
  <2>4. CASE CreateGateway(r) \/ CreateRouter(r) \/ CreatePeer(r)
    BY <2>1, <2>4 DEF CreateGateway, CreateRouter, CreatePeer
  <2>5. CASE \/ ConnectGateway(r) \/ ConnectRouterPublic(r) \/ ConnectRouterPrivate(r)
             \/ ConnectPeer(r)
    BY <2>2, <2>5 DEF ConnectGateway, ConnectRouterPublic, ConnectRouterPrivate, ConnectPeer
  <2>6. CASE StartGateway(r) \/ StartRouter(r) \/ StartPeer(r)
    BY <2>3, <2>6 DEF StartGateway, StartRouter, StartPeer
  <2>7. CASE \/ CreatePublicNetwork(r) \/ CreateNatNetwork(r) \/ RetryPublicSubnet(r)
             \/ RegisterGateway(r) \/ RegisterPeer(r) \/ ApiError(r)
    BY <1>1, <2>7 DEF CreatePublicNetwork, CreateNatNetwork, CreateNetwork, RetryPublicSubnet,
                      RegisterGateway, RegisterPeer, ApiError, daemon
  <2> QED
    BY <1>7, <2>4, <2>5, <2>6, <2>7 DEF BuildStep
<1>8. ASSUME NEW r \in Runs, DropStep(r) PROVE Owner(c) = r /\ pc[r] = "dropContainers"
  <2>1. ASSUME NEW d \in processes[r], DropProcess(r, d) PROVE FALSE
    BY <1>1, <1>2, <2>1 DEF DropProcess
  <2>2. ASSUME NEW d \in containers[r], DropContainer(r, d)
        PROVE  Owner(c) = r /\ pc[r] = "dropContainers"
    BY <1>0, <1>3, <2>2 DEF DropContainer
  <2>3. CASE \/ DropBackend(r) \/ AllContainersDropped(r) \/ AllNetworksDropped(r)
             \/ \E n \in networks[r] : DropNetwork(r, n)
    BY <1>1, <2>3 DEF DropBackend, AllContainersDropped, AllNetworksDropped, DropNetwork, daemon
  <2> QED
    BY <1>8, <2>1, <2>2, <2>3 DEF DropStep
<1> QED
  BY <1>4, <1>5, <1>6, <1>7, <1>8 DEF Next, RunStep

\* So does a network.
LEMMA NetworkRemoval ==
  ASSUME TypeInv, Next, NEW n \in NetworkIds, Present(n), ~Present(n)'
  PROVE  \/ \E r \in Runs : n \in victims[r] /\ SweepNetwork(r, n)
         \/ pc[Owner(n)] = "dropNetworks"
<1>0. /\ dockerNetworks \in [NetworkIds -> NetworkRecords]
      /\ \A r \in Runs : \A m \in networks[r] : Owner(m) = r
  BY DEF TypeInv, DaemonInv, DaemonTypeOK, RunInv, RunTypeOK, ListsOwned
<1>1. ASSUME UNCHANGED dockerNetworks PROVE FALSE
  BY <1>1 DEF Present
<1>2. ASSUME NEW m, RemoveNetwork(m) PROVE m = n
  BY <1>0, <1>1, <1>2 DEF RemoveNetwork, Present
<1>3. ASSUME NEW r, NEW m, NEW subnet \in Subnets, CreateNetwork(r, m, subnet) PROVE FALSE
  BY <1>0, <1>3 DEF CreateNetwork, Present, Subnets, NoId
<1>4. CASE Tick \/ \E d \in ContainerIds : ContainerExits(d)
  BY <1>1, <1>4 DEF Tick, ContainerExits, daemon
<1>5. ASSUME NEW r \in Runs, Configure(r) \/ Release(r) \/ Crash(r) PROVE FALSE
  BY <1>1, <1>5 DEF Configure, Release, Crash, daemon
<1>6. ASSUME NEW r \in Runs, SweepStep(r) PROVE n \in victims[r] /\ SweepNetwork(r, n)
  BY <1>1, <1>2, <1>6
     DEF SweepStep, New, SweepContainer, ListNetworks, SweepNetwork, SweepDone, daemon
<1>7. ASSUME NEW r \in Runs, BuildStep(r) PROVE FALSE
  <2>1. public_subnet[r] \in SecondOctets /\ base[r] \in Bases /\ idx[r] \in Nat
    BY DEF TypeInv, RunInv, RunTypeOK
  <2>2. CASE CreatePublicNetwork(r)
    BY <1>3, <2>1, <2>2, SubnetTypes DEF CreatePublicNetwork, RequestedSubnet
  <2>3. CASE CreateNatNetwork(r)
    BY <1>3, <2>1, <2>3, SubnetTypes DEF CreateNatNetwork
  <2>4. CASE CreateGateway(r) \/ CreateRouter(r) \/ CreatePeer(r)
    BY <1>1, <2>4 DEF CreateGateway, CreateRouter, CreatePeer, CreateContainer
  <2>5. CASE \/ ConnectGateway(r) \/ ConnectRouterPublic(r) \/ ConnectRouterPrivate(r)
             \/ ConnectPeer(r) \/ StartGateway(r) \/ StartRouter(r) \/ StartPeer(r)
    BY <1>1, <2>5 DEF ConnectGateway, ConnectRouterPublic, ConnectRouterPrivate, ConnectPeer,
                      StartGateway, StartRouter, StartPeer, ConnectNetwork, StartContainer
  <2>6. CASE RetryPublicSubnet(r) \/ RegisterGateway(r) \/ RegisterPeer(r) \/ ApiError(r)
    BY <1>1, <2>6 DEF RetryPublicSubnet, RegisterGateway, RegisterPeer, ApiError, daemon
  <2> QED
    BY <1>7, <2>2, <2>3, <2>4, <2>5, <2>6 DEF BuildStep
<1>8. ASSUME NEW r \in Runs, DropStep(r) PROVE Owner(n) = r /\ pc[r] = "dropNetworks"
  <2>1. ASSUME NEW m \in networks[r], DropNetwork(r, m)
        PROVE  Owner(n) = r /\ pc[r] = "dropNetworks"
    BY <1>0, <1>2, <2>1 DEF DropNetwork
  <2>2. CASE \/ DropBackend(r) \/ AllContainersDropped(r) \/ AllNetworksDropped(r)
             \/ \E c \in processes[r] : DropProcess(r, c)
             \/ \E c \in containers[r] : DropContainer(r, c)
    BY <1>1, <2>2 DEF DropBackend, AllContainersDropped, AllNetworksDropped, DropProcess,
                      DropContainer, daemon
  <2> QED
    BY <1>8, <2>1, <2>2 DEF DropStep
<1> QED
  BY <1>4, <1>5, <1>6, <1>7, <1>8 DEF Next, RunStep

\* Whatever a sweep removes is older than max_age, however long ago it was listed.
LEMMA SweptIsOld ==
  ASSUME TypeInv, SweepOK, NEW r \in Runs
  PROVE  /\ \A c \in victims[r] \intersect ContainerIds :
              Exists(c) => OlderThanMaxAge(dockerContainers[c].born, now)
         /\ \A n \in victims[r] \intersect NetworkIds : OlderThanMaxAge(stamp[Owner(n)], now)
<1>1. /\ now \in Nat /\ MaxAge \in Nat /\ seen[r] \in Nat /\ stamp \in [Runs -> Nat]
      /\ \A c \in ContainerIds : dockerContainers[c].born \in Nat
  BY ClockAssumption
     DEF TypeInv, DaemonInv, DaemonTypeOK, RunInv, RunTypeOK, ContainerRecords
<1> QED
  BY <1>1, IdParts DEF SweepOK, Stale, OlderThanMaxAge

\* Only its own Drop takes something young.
THEOREM OnlyOldIsSwept == Spec => SweptAreStale
<1>1. SharedInv /\ Next =>
        /\ \A c \in ContainerIds : Exists(c) /\ ~Exists(c)' =>
             pc[Owner(c)] = "dropContainers" \/ OlderThanMaxAge(dockerContainers[c].born, now)
        /\ \A n \in NetworkIds : Present(n) /\ ~Present(n)' =>
             pc[Owner(n)] = "dropNetworks" \/ OlderThanMaxAge(stamp[Owner(n)], now)
  BY ContainerRemoval, NetworkRemoval, SweptIsOld DEF SharedInv, IInv
<1> QED
  BY <1>1, SharedInductive, PTL DEF Spec, SweptAreStale

-----------------------------------------------------------------------------
\* The steps of the ledger, in terms of the mapping.
LEMMA IdKinds == ContainerIds \intersect NetworkIds = {}
  BY IdParts

LEMMA PhaseChange ==
  ASSUME TypeInv, NEW r \in Runs, NEW point, Goto(r, point)
  PROVE  PhaseOf' = [PhaseOf EXCEPT ![r] = Phase(point)]
  BY DEF TypeInv, RunInv, RunTypeOK, Goto, PhaseOf

LEMMA PhaseKept ==
  ASSUME TypeInv, NEW r \in Runs, NEW point, Goto(r, point), Phase(point) = Phase(pc[r])
  PROVE  UNCHANGED PhaseOf
  BY DEF TypeInv, RunInv, RunTypeOK, Goto, PhaseOf

LEMMA LedgerChange ==
  ASSUME NEW r \in Runs,
         \A q \in Runs \ {r} : containers'[q] = containers[q] /\ networks'[q] = networks[q]
  PROVE  LedgerOf' = [LedgerOf EXCEPT ![r] = containers'[r] \union networks'[r]]
  BY DEF LedgerOf

LEMMA BornKept ==
  ASSUME \A c \in ContainerIds : /\ Exists(c)' <=> Exists(c)
                                 /\ dockerContainers'[c].born = dockerContainers[c].born,
         UNCHANGED dockerNetworks
  PROVE  UNCHANGED BornOf
  BY IdKinds DEF BornOf, Born, Present

LEMMA ContainerSet ==
  ASSUME TypeInv, NEW c \in ContainerIds, NEW rec,
         dockerContainers' = [dockerContainers EXCEPT ![c] = rec],
         UNCHANGED dockerNetworks
  PROVE  BornOf' = [BornOf EXCEPT ![c] = IF rec.state # "absent" THEN rec.born ELSE Never]
<1>1. dockerContainers \in [ContainerIds -> ContainerRecords]
  BY DEF TypeInv, DaemonInv, DaemonTypeOK
<1>2. /\ Exists(c)' <=> rec.state # "absent"
      /\ dockerContainers'[c].born = rec.born
      /\ \A d \in ContainerIds \ {c} : /\ Exists(d)' <=> Exists(d)
                                       /\ dockerContainers'[d].born = dockerContainers[d].born
      /\ \A n \in NetworkIds : Present(n)' <=> Present(n)
  BY <1>1 DEF Exists, Present
<1> QED
  BY <1>2, IdKinds DEF BornOf, Born

LEMMA NetworkSet ==
  ASSUME TypeInv, NEW n \in NetworkIds, NEW rec,
         dockerNetworks' = [dockerNetworks EXCEPT ![n] = rec],
         UNCHANGED dockerContainers
  PROVE  BornOf' = [BornOf EXCEPT ![n] = IF rec.subnet # NoId THEN rec.born ELSE Never]
<1>1. dockerNetworks \in [NetworkIds -> NetworkRecords]
  BY DEF TypeInv, DaemonInv, DaemonTypeOK
<1>2. /\ Present(n)' <=> rec.subnet # NoId
      /\ dockerNetworks'[n].born = rec.born
      /\ \A m \in NetworkIds \ {n} : /\ Present(m)' <=> Present(m)
                                     /\ dockerNetworks'[m].born = dockerNetworks[m].born
      /\ \A c \in ContainerIds : Exists(c)' <=> Exists(c)
  BY <1>1 DEF Exists, Present
<1> QED
  BY <1>2, IdKinds DEF BornOf, Born

LEMMA LedgerCreates ==
  ASSUME NEW x \in ContainerIds \union NetworkIds, PhaseOf[Owner(x)] = "active",
         BornOf[x] = Never, BornOf' = [BornOf EXCEPT ![x] = now],
         LedgerOf' = [LedgerOf EXCEPT ![Owner(x)] = @ \union {x}],
         UNCHANGED <<now, stamp, PhaseOf>>
  PROVE  Ledger!LedgerNext
<1>1. Ledger!Create(x)
  BY DEF Ledger!Create, Ledger!Of, Ledger!Never, Owner, Never, PhaseOf, BornOf, LedgerOf
<1> QED
  BY <1>1 DEF Ledger!LedgerNext, Ledger!Resources

LEMMA LedgerSweeps ==
  ASSUME NEW x \in ContainerIds \union NetworkIds, BornOf[x] # Never,
         x \in ContainerIds => BornOf[x] + MaxAge < now,
         x \in NetworkIds => stamp[Owner(x)] + MaxAge < now,
         BornOf' = [BornOf EXCEPT ![x] = Never],
         UNCHANGED <<now, stamp, PhaseOf, LedgerOf>>
  PROVE  Ledger!LedgerNext
<1>1. Ledger!Sweep(x)
  BY DEF Ledger!Sweep, Ledger!AgeBegins, Ledger!Of, Ledger!Never, Owner, Never, PhaseOf, BornOf,
         LedgerOf
<1> QED
  BY <1>1 DEF Ledger!LedgerNext, Ledger!Resources

LEMMA LedgerRemoves ==
  ASSUME NEW x \in ContainerIds \union NetworkIds, PhaseOf[Owner(x)] = "dropping",
         x \in LedgerOf[Owner(x)],
         x \in NetworkIds => LedgerOf[Owner(x)] \subseteq NetworkIds,
         BornOf' = [BornOf EXCEPT ![x] = Never],
         LedgerOf' = [LedgerOf EXCEPT ![Owner(x)] = @ \ {x}],
         UNCHANGED <<now, stamp, PhaseOf>>
  PROVE  Ledger!LedgerNext
<1>1. Ledger!Remove(x)
  BY DEF Ledger!Remove, Ledger!Of, Ledger!Never, Owner, Never, PhaseOf, BornOf, LedgerOf
<1> QED
  BY <1>1 DEF Ledger!LedgerNext, Ledger!Resources

LEMMA LedgerLetsGo ==
  ASSUME NEW r \in Runs, PhaseOf[r] = "active",
         PhaseOf' = [PhaseOf EXCEPT ![r] = "dropping"],
         UNCHANGED <<now, stamp, BornOf, LedgerOf>>
  PROVE  Ledger!LedgerNext
  BY DEF Ledger!LedgerNext, Ledger!LetGo, PhaseOf, BornOf, LedgerOf

LEMMA LedgerEnds ==
  ASSUME NEW r \in Runs, PhaseOf[r] \in {"active", "dropping"}, LedgerOf[r] = {},
         PhaseOf' = [PhaseOf EXCEPT ![r] = "ended"],
         UNCHANGED <<now, stamp, BornOf, LedgerOf>>
  PROVE  Ledger!LedgerNext
  BY DEF Ledger!LedgerNext, Ledger!End, PhaseOf, BornOf, LedgerOf


\* A faultless daemon does as it is asked.
LEMMA ContainerRemoved ==
  ASSUME TypeInv, ~DaemonFaults, NEW c \in ContainerIds, RemoveContainer(c),
         UNCHANGED dockerNetworks
  PROVE  BornOf' = [BornOf EXCEPT ![c] = Never]
<1>1. dockerContainers' = [dockerContainers EXCEPT ![c] = NoContainer]
  BY DEF RemoveContainer
<1>2. NoContainer.state = "absent"
  BY DEF NoContainer
<1> QED
  BY <1>1, <1>2, ContainerSet

LEMMA NetworkRemoved ==
  ASSUME TypeInv, ~DaemonFaults, NEW n \in NetworkIds, ~InUse(n), RemoveNetwork(n),
         UNCHANGED dockerContainers
  PROVE  BornOf' = [BornOf EXCEPT ![n] = Never]
<1>1. dockerNetworks' = [dockerNetworks EXCEPT ![n] = NoNetwork]
  BY DEF RemoveNetwork
<1>2. NoNetwork.subnet = NoId
  BY DEF NoNetwork
<1> QED
  BY <1>1, <1>2, NetworkSet

LEMMA SweepImplements ==
  ASSUME SharedInv, ~DaemonFaults, NEW r \in Runs, SweepStep(r)
  PROVE  Ledger!LedgerNext
<1>0. TypeInv /\ SweepOK /\ Emptied
  BY DEF SharedInv, IInv
<1>1. /\ BornOf \in [ContainerIds \union NetworkIds -> Int]
      /\ \A c \in ContainerIds : BornOf[c] = IF Exists(c) THEN dockerContainers[c].born ELSE Never
      /\ \A n \in NetworkIds : BornOf[n] = IF Present(n) THEN dockerNetworks[n].born ELSE Never
      /\ \A c \in ContainerIds : dockerContainers[c].born \in Nat
      /\ \A n \in NetworkIds : dockerNetworks[n].born \in Nat
      /\ pc[r] \in Points
  BY <1>0, IdKinds DEF BornOf, Born, Never, TypeInv, DaemonInv, DaemonTypeOK, ContainerRecords,
                       NetworkRecords, RunInv, RunTypeOK
<1>2. ASSUME UNCHANGED daemon PROVE UNCHANGED BornOf
  BY <1>2, BornKept DEF daemon, Exists
<1>3. CASE New(r)
  <2>1. /\ UNCHANGED <<now, stamp, BornOf, LedgerOf>>
        /\ PhaseOf[r] = "active" /\ LedgerOf[r] = {}
    BY <1>0, <1>2, <1>3 DEF New, config, backend, LedgerOf, PhaseOf, Phase, Emptied, DropPoints
  <2>2. CASE Goto(r, "sweepContainers")
    <3>1. Phase("sweepContainers") = Phase(pc[r])
      BY <1>3 DEF New, Phase, DropPoints
    <3> QED
      BY <1>0, <2>1, <2>2, <3>1, PhaseKept, Quiet
  <2>3. CASE Goto(r, "done")
    <3>1. Phase("done") = "ended"
      BY DEF Phase, DropPoints
    <3> QED
      BY <1>0, <2>1, <2>3, <3>1, PhaseChange, LedgerEnds
  <2> QED
    BY <1>3, <2>2, <2>3 DEF New
<1>4. ASSUME NEW c \in victims[r], SweepContainer(r, c) PROVE Ledger!LedgerNext
  <2>1. UNCHANGED <<now, stamp, PhaseOf, LedgerOf>> /\ UNCHANGED dockerNetworks
    BY <1>4 DEF SweepContainer, config, backend, PhaseOf, LedgerOf
  <2>2. CASE c \notin ContainerIds
    <3>1. UNCHANGED dockerContainers
      BY <1>0, <1>4, <2>2 DEF SweepContainer, RemoveContainer, TypeInv, DaemonInv, DaemonTypeOK
    <3> QED
      BY <1>2, <2>1, <3>1, Quiet DEF daemon
  <2>3. CASE c \in ContainerIds
    <3>1. BornOf' = [BornOf EXCEPT ![c] = Never]
      BY <1>0, <1>4, <2>1, <2>3, ContainerRemoved DEF SweepContainer
    <3>2. CASE Exists(c)
      <4>1. OlderThanMaxAge(dockerContainers[c].born, now)
        BY <1>0, <1>4, <2>3, <3>2, SweptIsOld
      <4>2. BornOf[c] # Never /\ BornOf[c] + MaxAge < now
        BY <1>0, <1>1, <2>3, <3>2, <4>1, ClockAssumption DEF OlderThanMaxAge, Never, TypeInv
      <4>3. c \notin NetworkIds
        BY <2>3, IdKinds
      <4> QED
        BY <2>1, <2>3, <3>1, <4>2, <4>3, LedgerSweeps
    <3>3. CASE ~Exists(c)
      BY <1>1, <2>1, <2>3, <3>1, <3>3, Quiet
    <3> QED
      BY <3>2, <3>3
  <2> QED
    BY <2>2, <2>3
<1>5. ASSUME NEW n \in victims[r], SweepNetwork(r, n) PROVE Ledger!LedgerNext
  <2>1. UNCHANGED <<now, stamp, PhaseOf, LedgerOf>> /\ UNCHANGED dockerContainers
    BY <1>5 DEF SweepNetwork, config, backend, PhaseOf, LedgerOf
  <2>2. CASE n \notin NetworkIds \/ InUse(n)
    <3>1. UNCHANGED dockerNetworks
      BY <1>0, <1>5, <2>2 DEF SweepNetwork, RemoveNetwork, TypeInv, DaemonInv, DaemonTypeOK
    <3> QED
      BY <1>2, <2>1, <3>1, Quiet DEF daemon
  <2>3. CASE n \in NetworkIds /\ ~InUse(n)
    <3>1. BornOf' = [BornOf EXCEPT ![n] = Never]
      BY <1>0, <1>5, <2>1, <2>3, NetworkRemoved DEF SweepNetwork
    <3>2. CASE Present(n)
      <4>1. OlderThanMaxAge(stamp[Owner(n)], now)
        BY <1>0, <1>5, <2>3, SweptIsOld
      <4>2. now \in Nat /\ MaxAge \in Nat /\ stamp[Owner(n)] \in Nat
        BY <1>0, <2>3, IdParts, ClockAssumption DEF TypeInv, RunInv, RunTypeOK
      <4>3. stamp[Owner(n)] + MaxAge < now
        BY <4>1, <4>2 DEF OlderThanMaxAge
      <4>4. BornOf[n] # Never /\ n \notin ContainerIds
        BY <1>1, <2>3, <3>2, IdKinds DEF Never
      <4> QED
        BY <2>1, <2>3, <3>1, <4>3, <4>4, LedgerSweeps
    <3>3. CASE ~Present(n)
      BY <1>1, <2>1, <2>3, <3>1, <3>3, Quiet
    <3> QED
      BY <3>2, <3>3
  <2> QED
    BY <2>2, <2>3
<1>6. CASE ListNetworks(r) \/ SweepDone(r)
  <2>1. PICK point : Goto(r, point) /\ Phase(point) = Phase(pc[r])
    BY <1>6 DEF ListNetworks, SweepDone, Phase, DropPoints
  <2>2. UNCHANGED <<now, stamp, BornOf, LedgerOf>>
    BY <1>2, <1>6 DEF ListNetworks, SweepDone, config, backend, LedgerOf
  <2> QED
    BY <1>0, <2>1, <2>2, PhaseKept, Quiet
<1> QED
  BY <1>3, <1>4, <1>5, <1>6 DEF SweepStep

LEMMA BuildImplements ==
  ASSUME SharedInv, ~DaemonFaults, NEW r \in Runs, BuildStep(r)
  PROVE  Ledger!LedgerNext
<1> DEFINE i == idx[r]
<1>0. /\ TypeInv /\ Fresh
      /\ i \in Nat /\ pc[r] \in Points
      /\ pc[r] \in GatewayPoints => i < Gateways
      /\ pc[r] \in PeerPoints => i < Peers
      /\ public_network_id[r] \in {NoId, PublicNetwork(r)}
  BY DEF SharedInv, IInv, TypeInv, RunInv, RunTypeOK, LoopOK, ListsOwned
<1>1. \A p \in BuildPoints \union {"built"} : Phase(p) = "active"
  BY DEF BuildPoints, Phase, DropPoints
<1>2. /\ \A c \in ContainerIds : ~Exists(c) => BornOf[c] = Never
      /\ \A n \in NetworkIds : ~Present(n) => BornOf[n] = Never
  BY IdKinds DEF BornOf, Born
<1>3. ASSUME UNCHANGED daemon PROVE UNCHANGED BornOf
  BY <1>3, BornKept DEF daemon, Exists
<1>4. ASSUME NEW at \in BuildPoints, NEW c \in ContainerIds, NEW next \in BuildPoints,
             Owner(c) = r, CreateContainer(r, at, c, next)
      PROVE  Ledger!LedgerNext
  <2>1. /\ pc[r] = at /\ ~Exists(c) /\ RecordContainer(r, c) /\ Goto(r, next)
        /\ UNCHANGED <<now, stamp>> /\ UNCHANGED <<dockerNetworks, networks>>
        /\ dockerContainers' =
             [dockerContainers EXCEPT ![c] = [state |-> "created", born |-> now, nets |-> {}]]
    BY <1>4 DEF CreateContainer, config
  <2>2. BornOf' = [BornOf EXCEPT ![c] = now]
    <3> DEFINE rec == [state |-> "created", born |-> now, nets |-> {}]
    <3>1. rec.state # "absent" /\ rec.born = now
      OBVIOUS
    <3>2. dockerContainers' = [dockerContainers EXCEPT ![c] = rec]
      BY <2>1
    <3> HIDE DEF rec
    <3> QED
      BY <1>0, <2>1, <3>1, <3>2, ContainerSet
  <2>3. UNCHANGED PhaseOf /\ PhaseOf[Owner(c)] = "active"
    BY <1>0, <1>1, <1>4, <2>1, PhaseKept DEF PhaseOf
  <2>4. LedgerOf' = [LedgerOf EXCEPT ![Owner(c)] = @ \union {c}]
    <3>1. /\ containers'[r] = containers[r] \union {c} /\ networks' = networks
          /\ \A q \in Runs \ {r} : containers'[q] = containers[q]
      BY <1>0, <1>4, <2>1 DEF RecordContainer, TypeInv, RunInv, RunTypeOK
    <3>2. containers'[r] \union networks'[r] = LedgerOf[r] \union {c}
      BY <3>1 DEF LedgerOf
    <3> QED
      BY <1>4, <3>1, <3>2, LedgerChange
  <2> QED
    BY <1>2, <2>1, <2>2, <2>3, <2>4, LedgerCreates
<1>5. ASSUME NEW n \in NetworkIds, NEW subnet \in Subnets, Owner(n) = r, Later(n),
             CreateNetwork(r, n, subnet), RecordNetwork(r, n), pc[r] \in BuildPoints,
             NEW next \in BuildPoints \union {"built"}, Goto(r, next),
             UNCHANGED <<now, stamp, containers>>
      PROVE  Ledger!LedgerNext
  <2>1. BornOf' = [BornOf EXCEPT ![n] = now]
    <3>1. [subnet |-> subnet, born |-> now].subnet # NoId
      BY DEF Subnets, NoId
    <3> QED
      BY <1>0, <1>5, <3>1, NetworkSet DEF CreateNetwork
  <2>2. UNCHANGED PhaseOf /\ PhaseOf[Owner(n)] = "active"
    BY <1>0, <1>1, <1>5, PhaseKept DEF PhaseOf
  <2>3. LedgerOf' = [LedgerOf EXCEPT ![Owner(n)] = @ \union {n}]
    <3>1. /\ networks'[r] = networks[r] \union {n} /\ containers' = containers
          /\ \A q \in Runs \ {r} : networks'[q] = networks[q]
      BY <1>0, <1>5 DEF RecordNetwork, TypeInv, RunInv, RunTypeOK
    <3>2. containers'[r] \union networks'[r] = LedgerOf[r] \union {n}
      BY <3>1 DEF LedgerOf
    <3> QED
      BY <1>5, <3>1, <3>2, LedgerChange
  <2>4. BornOf[n] = Never
    BY <1>0, <1>2, <1>5 DEF Fresh
  <2> QED
    BY <1>5, <2>1, <2>2, <2>3, <2>4, LedgerCreates
<1>6. ASSUME UNCHANGED <<now, stamp, BornOf, LedgerOf>>, pc[r] \in BuildPoints, NEW next,
             Goto(r, next), next \in BuildPoints \union {"built", "dropProcesses"}
      PROVE  Ledger!LedgerNext
  <2>1. CASE next = "dropProcesses"
    <3>1. Phase(next) = "dropping" /\ PhaseOf[r] = "active"
      BY <1>1, <1>6, <2>1 DEF Phase, PhaseOf, DropPoints
    <3> QED
      BY <1>0, <1>6, <3>1, PhaseChange, LedgerLetsGo
  <2>2. CASE next \in BuildPoints \union {"built"}
    BY <1>0, <1>1, <1>6, <2>2, PhaseKept, Quiet
  <2> QED
    BY <1>6, <2>1, <2>2
<1>7. CASE CreateGateway(r)
  <2>1. i < Gateways
    BY <1>0, <1>7 DEF CreateGateway, CreateContainer, GatewayPoints
  <2> QED
    BY <1>0, <1>4, <1>7, <2>1, Ids DEF CreateGateway, BuildPoints
<1>8. CASE CreateRouter(r) \/ CreatePeer(r)
  <2>1. i < Peers
    BY <1>0, <1>8 DEF CreateRouter, CreatePeer, CreateContainer, PeerPoints
  <2> QED
    BY <1>0, <1>4, <1>8, <2>1, Ids DEF CreateRouter, CreatePeer, BuildPoints
<1>9. public_subnet[r] \in SecondOctets /\ base[r] \in Bases
  BY <1>0 DEF TypeInv, RunInv, RunTypeOK
<1>10. CASE CreatePublicNetwork(r)
  <2>1. PICK n \in NetworkIds : n = PublicNetwork(r) /\ Owner(n) = r
    BY Ids
  <2>2. pc[r] = "createPublicNetwork" /\ UNCHANGED <<now, stamp, containers>>
    BY <1>10 DEF CreatePublicNetwork, config
  <2>3. PICK next \in BuildPoints \union {"built"} : Goto(r, next)
    BY <1>10 DEF CreatePublicNetwork, BuildPoints
  <2>4. Later(n) /\ pc[r] \in BuildPoints
    BY <2>1, <2>2 DEF Later, BeforeLoops, BuildPoints
  <2>5. /\ CreateNetwork(r, n, PublicSubnet(public_subnet[r])) /\ RecordNetwork(r, n)
        /\ PublicSubnet(public_subnet[r]) \in Subnets
    BY <1>9, <1>10, <2>1, SubnetTypes DEF CreatePublicNetwork, RequestedSubnet
  <2> QED
    BY <1>5, <2>1, <2>2, <2>3, <2>4, <2>5
<1>11. CASE CreateNatNetwork(r)
  <2>1. pc[r] = "createNatNetwork" /\ UNCHANGED <<now, stamp, containers>>
    BY <1>11 DEF CreateNatNetwork, config
  <2>2. i < Peers
    BY <1>0, <2>1 DEF PeerPoints
  <2>3. PICK n \in NetworkIds : /\ n = NatNetwork(r, i) /\ Owner(n) = r
                                /\ n[2] = "nat" /\ n[3] = PeerIndex(i)
    BY <1>0, <2>2, Ids, Parts
  <2>4. Later(n) /\ pc[r] \in BuildPoints
    BY <2>1, <2>3 DEF Later, PeerPoints, PeerKinds, Until, BuildPoints
  <2>5. /\ CreateNetwork(r, n, NatSubnet(base[r], i)) /\ RecordNetwork(r, n)
        /\ NatSubnet(base[r], i) \in Subnets /\ Goto(r, "createRouter")
    BY <1>0, <1>9, <1>11, <2>3, SubnetTypes DEF CreateNatNetwork
  <2>6. "createRouter" \in BuildPoints
    BY DEF BuildPoints
  <2> QED
    BY <1>5, <2>1, <2>3, <2>4, <2>5, <2>6
<1>12. CASE \/ ConnectGateway(r) \/ ConnectRouterPublic(r) \/ ConnectRouterPrivate(r)
            \/ ConnectPeer(r) \/ StartGateway(r) \/ StartRouter(r) \/ StartPeer(r)
  <2>1. ASSUME NEW at, NEW c, NEW n, NEW next, ConnectNetwork(r, at, c, n, next)
        PROVE  UNCHANGED BornOf
    <3>1. \A d \in ContainerIds : /\ Exists(d)' <=> Exists(d)
                                  /\ dockerContainers'[d].born = dockerContainers[d].born
      BY <1>0, <2>1 DEF ConnectNetwork, Exists, TypeInv, DaemonInv, DaemonTypeOK, ContainerRecords
    <3> QED
      BY <2>1, <3>1, BornKept DEF ConnectNetwork
  <2>2. ASSUME NEW at, NEW c, NEW next, StartContainer(r, at, c, next) PROVE UNCHANGED BornOf
    <3>1. \A d \in ContainerIds : /\ Exists(d)' <=> Exists(d)
                                  /\ dockerContainers'[d].born = dockerContainers[d].born
      BY <1>0, <2>2 DEF StartContainer, Exists, TypeInv, DaemonInv, DaemonTypeOK, ContainerRecords
    <3> QED
      BY <2>2, <3>1, BornKept DEF StartContainer
  <2>3. UNCHANGED BornOf
    BY <1>12, <2>1, <2>2 DEF ConnectGateway, ConnectRouterPublic, ConnectRouterPrivate,
                             ConnectPeer, StartGateway, StartRouter, StartPeer
  <2>4. PICK next \in BuildPoints : Goto(r, next) /\ pc[r] \in BuildPoints
    BY <1>12 DEF ConnectGateway, ConnectRouterPublic, ConnectRouterPrivate, ConnectPeer,
                 StartGateway, StartRouter, StartPeer, ConnectNetwork, StartContainer, BuildPoints
  <2>5. UNCHANGED <<now, stamp, LedgerOf>>
    BY <1>12 DEF ConnectGateway, ConnectRouterPublic, ConnectRouterPrivate, ConnectPeer,
                 StartGateway, StartRouter, StartPeer, ConnectNetwork, StartContainer, config,
                 backend, LedgerOf
  <2> QED
    BY <1>6, <2>3, <2>4, <2>5
<1>13. CASE RetryPublicSubnet(r) \/ RegisterGateway(r) \/ RegisterPeer(r) \/ ApiError(r)
  <2>1. UNCHANGED <<now, stamp, BornOf, LedgerOf>> /\ pc[r] \in BuildPoints
    BY <1>3, <1>13 DEF RetryPublicSubnet, RegisterGateway, RegisterPeer, ApiError, config,
                       backend, LedgerOf, BuildPoints
  <2>2. PICK next \in BuildPoints \union {"built", "dropProcesses"} : Goto(r, next)
    BY <1>13 DEF RetryPublicSubnet, RegisterGateway, RegisterPeer, ApiError, BuildPoints
  <2> QED
    BY <1>6, <2>1, <2>2
<1> QED
  BY <1>7, <1>8, <1>10, <1>11, <1>12, <1>13 DEF BuildStep

LEMMA DropImplements ==
  ASSUME SharedInv, ~DaemonFaults, CleanupOnDrop, NEW r \in Runs, DropStep(r)
  PROVE  Ledger!LedgerNext
<1>0. /\ TypeInv /\ Emptied /\ Tracked /\ pc[r] \in Points
      /\ processes[r] \subseteq ContainerIds
      /\ containers[r] \subseteq ContainerIds /\ networks[r] \subseteq NetworkIds
      /\ \A x \in containers[r] \union networks[r] : Owner(x) = r
      /\ LedgerOf[r] = containers[r] \union networks[r]
  BY DEF SharedInv, IInv, TypeInv, RunInv, RunTypeOK, ListsOwned, LedgerOf
<1>1. ASSUME UNCHANGED daemon PROVE UNCHANGED BornOf
  BY <1>1, BornKept DEF daemon, Exists
<1>2. ASSUME NEW c \in processes[r], DropProcess(r, c) PROVE Ledger!LedgerNext
  <2>1. \A d \in ContainerIds : /\ Exists(d)' <=> Exists(d)
                                /\ dockerContainers'[d].born = dockerContainers[d].born
    BY <1>0, <1>2 DEF DropProcess, Exists, TypeInv, DaemonInv, DaemonTypeOK, ContainerRecords
  <2>2. UNCHANGED <<now, stamp, PhaseOf, BornOf, LedgerOf>>
    BY <1>2, <2>1, BornKept DEF DropProcess, config, backend, PhaseOf, LedgerOf
  <2> QED
    BY <2>2, Quiet
<1>3. CASE DropBackend(r) \/ AllContainersDropped(r)
  <2>1. PICK point : Goto(r, point) /\ Phase(point) = Phase(pc[r])
    BY <1>3 DEF DropBackend, AllContainersDropped, Phase, DropPoints
  <2>2. UNCHANGED <<now, stamp, BornOf, LedgerOf>>
    BY <1>1, <1>3 DEF DropBackend, AllContainersDropped, config, backend, LedgerOf
  <2> QED
    BY <1>0, <2>1, <2>2, PhaseKept, Quiet
<1>4. ASSUME NEW c \in containers[r], DropContainer(r, c) PROVE Ledger!LedgerNext
  <2>1. /\ BornOf' = [BornOf EXCEPT ![c] = Never]
        /\ UNCHANGED <<now, stamp, PhaseOf>>
    BY <1>0, <1>4, ContainerRemoved DEF DropContainer, config, PhaseOf
  <2>2. c \notin networks[r] /\ c \notin NetworkIds
    BY <1>0, IdKinds
  <2>3. LedgerOf' = [LedgerOf EXCEPT ![Owner(c)] = @ \ {c}]
    <3>1. /\ containers'[r] = containers[r] \ {c} /\ networks' = networks
          /\ \A q \in Runs \ {r} : containers'[q] = containers[q]
      BY <1>0, <1>4 DEF DropContainer, TypeInv, RunInv, RunTypeOK
    <3>2. containers'[r] \union networks'[r] = LedgerOf[r] \ {c}
      BY <1>0, <2>2, <3>1
    <3> QED
      BY <1>0, <3>1, <3>2, LedgerChange
  <2>4. PhaseOf[Owner(c)] = "dropping"
    BY <1>0, <1>4 DEF DropContainer, PhaseOf, Phase, DropPoints
  <2> QED
    BY <1>0, <2>1, <2>2, <2>3, <2>4, LedgerRemoves
<1>5. ASSUME NEW n \in networks[r], DropNetwork(r, n) PROVE Ledger!LedgerNext
  <2>1. pc[r] = "dropNetworks" /\ containers[r] = {}
    BY <1>0, <1>5 DEF DropNetwork, Emptied
  <2>2. ~InUse(n)
    BY <1>0, <2>1 DEF Tracked, InUse, Exists, TypeInv, DaemonInv, NetsOwned
  <2>3. /\ BornOf' = [BornOf EXCEPT ![n] = Never]
        /\ UNCHANGED <<now, stamp, PhaseOf>>
    BY <1>0, <1>5, <2>2, NetworkRemoved DEF DropNetwork, config, PhaseOf
  <2>4. LedgerOf' = [LedgerOf EXCEPT ![Owner(n)] = @ \ {n}]
    <3>1. /\ networks'[r] = networks[r] \ {n} /\ containers' = containers
          /\ \A q \in Runs \ {r} : networks'[q] = networks[q]
      BY <1>0, <1>5 DEF DropNetwork, TypeInv, RunInv, RunTypeOK
    <3>2. containers'[r] \union networks'[r] = LedgerOf[r] \ {n}
      BY <1>0, <2>1, <3>1
    <3> QED
      BY <1>0, <3>1, <3>2, LedgerChange
  <2>5. PhaseOf[Owner(n)] = "dropping"
    BY <1>0, <2>1 DEF PhaseOf, Phase, DropPoints
  <2> QED
    BY <1>0, <2>1, <2>3, <2>4, <2>5, LedgerRemoves
<1>6. CASE AllNetworksDropped(r)
  <2>1. UNCHANGED <<now, stamp, BornOf, LedgerOf>> /\ LedgerOf[r] = {}
    BY <1>0, <1>1, <1>6 DEF AllNetworksDropped, config, backend, LedgerOf, Emptied
  <2>2. Phase("done") = "ended" /\ PhaseOf[r] = "dropping"
    BY <1>6 DEF AllNetworksDropped, PhaseOf, Phase, DropPoints
  <2>3. Goto(r, "done")
    BY <1>6 DEF AllNetworksDropped
  <2> QED
    BY <1>0, <2>1, <2>2, <2>3, PhaseChange, LedgerEnds
<1> QED
  BY <1>2, <1>3, <1>4, <1>5, <1>6 DEF DropStep

LEMMA OthersImplement ==
  ASSUME SharedInv, Next,
         \A r \in Runs : ~RunStep(r)
  PROVE  Ledger!LedgerNext
<1>0. TypeInv /\ now \in Nat
  BY ClockAssumption DEF SharedInv, IInv, TypeInv
<1>1. ASSUME UNCHANGED daemon PROVE UNCHANGED BornOf
  BY <1>1, BornKept DEF daemon, Exists
<1>2. CASE Tick
  <2>1. now' = now + 1 /\ UNCHANGED <<stamp, PhaseOf, BornOf, LedgerOf>>
    BY <1>1, <1>2 DEF Tick, config, backend, PhaseOf, LedgerOf
  <2> QED
    BY <2>1 DEF Ledger!LedgerNext, Ledger!Passes, PhaseOf, BornOf, LedgerOf
<1>3. ASSUME NEW c \in ContainerIds, ContainerExits(c) PROVE Ledger!LedgerNext
  <2>1. \A d \in ContainerIds : /\ Exists(d)' <=> Exists(d)
                                /\ dockerContainers'[d].born = dockerContainers[d].born
    BY <1>0, <1>3 DEF ContainerExits, Exists, TypeInv, DaemonInv, DaemonTypeOK, ContainerRecords
  <2>2. UNCHANGED <<now, stamp, PhaseOf, BornOf, LedgerOf>>
    BY <1>3, <2>1, BornKept DEF ContainerExits, config, backend, PhaseOf, LedgerOf
  <2> QED
    BY <2>2, Quiet
<1>4. ASSUME NEW r \in Runs, Configure(r) PROVE Ledger!LedgerNext
  <2>1. /\ PhaseOf[r] = "none" /\ stamp' = [stamp EXCEPT ![r] = now]
        /\ Phase("configured") = "active" /\ Goto(r, "configured")
        /\ UNCHANGED <<now, BornOf, LedgerOf>>
    BY <1>1, <1>4 DEF Configure, backend, PhaseOf, LedgerOf, Phase, DropPoints
  <2>2. PhaseOf' = [PhaseOf EXCEPT ![r] = "active"]
    BY <1>0, <2>1, PhaseChange
  <2> QED
    BY <2>1, <2>2 DEF Ledger!LedgerNext, Ledger!Begin, PhaseOf, BornOf, LedgerOf
<1>5. ASSUME NEW r \in Runs, Release(r) PROVE Ledger!LedgerNext
  <2>1. /\ PhaseOf[r] = "active" /\ Phase("dropProcesses") = "dropping"
        /\ Goto(r, "dropProcesses") /\ UNCHANGED <<now, stamp, BornOf, LedgerOf>>
    BY <1>1, <1>5 DEF Release, config, backend, PhaseOf, LedgerOf, Phase, DropPoints
  <2> QED
    BY <1>0, <2>1, PhaseChange, LedgerLetsGo
<1>6. ASSUME NEW r \in Runs, Crash(r) PROVE Ledger!LedgerNext
  <2>1. /\ PhaseOf[r] \in {"active", "dropping"} /\ Phase("crashed") = "crashed"
        /\ Goto(r, "crashed") /\ UNCHANGED <<now, stamp, BornOf>>
    BY <1>1, <1>6 DEF Crash, config, PhaseOf, Phase, DropPoints
  <2>2. PhaseOf' = [PhaseOf EXCEPT ![r] = "crashed"]
    BY <1>0, <2>1, PhaseChange
  <2>3. LedgerOf' = [LedgerOf EXCEPT ![r] = {}]
    <3>1. /\ containers'[r] = {} /\ networks'[r] = {}
          /\ \A q \in Runs \ {r} : containers'[q] = containers[q] /\ networks'[q] = networks[q]
      BY <1>0, <1>6 DEF Crash, TypeInv, RunInv, RunTypeOK
    <3> QED
      BY <3>1, LedgerChange
  <2> QED
    BY <2>1, <2>2, <2>3 DEF Ledger!LedgerNext, Ledger!Crashes, PhaseOf, BornOf, LedgerOf
<1> QED
  BY <1>2, <1>3, <1>4, <1>5, <1>6 DEF Next

\* With a faultless daemon and cleanup on drop, the backend is such a ledger.
THEOREM ImplementsLedger ==
  ASSUME ~DaemonFaults, CleanupOnDrop
  PROVE  Spec => KeepsLedger
<1>1. Init => Ledger!LedgerInit
  <2> SUFFICES ASSUME Init PROVE Ledger!LedgerInit
    OBVIOUS
  <2>1. \A x \in ContainerIds \union NetworkIds : Born(x) = Never
    BY IdKinds DEF Init, Born, Exists, Present, NoContainer, NoNetwork
  <2>2. \A r \in Runs : Phase(pc[r]) = "none" /\ containers[r] \union networks[r] = {}
    <3>1. \A r \in Runs : pc[r] = "idle" /\ containers[r] = {} /\ networks[r] = {}
      BY DEF Init
    <3>2. Phase("idle") = "none"
      BY DEF Phase, DropPoints
    <3> QED
      BY <3>1, <3>2
  <2>3. now = 0 /\ stamp = [r \in Runs |-> 0]
    BY DEF Init
  <2> QED
    BY <2>1, <2>2, <2>3 DEF Ledger!LedgerInit, Ledger!Never, Ledger!Resources, Never
<1>2. SharedInv /\ [Next]_vars => [Ledger!LedgerNext]_(Ledger!ledgerVars)
  <2>1. ASSUME SharedInv, Next PROVE Ledger!LedgerNext
    BY <2>1, SweepImplements, BuildImplements, DropImplements, OthersImplement DEF RunStep
  <2>2. ASSUME UNCHANGED vars PROVE UNCHANGED Ledger!ledgerVars
    BY <2>2 DEF vars, daemon, config, sweep, backend, Ledger!ledgerVars, Born, Exists, Present
  <2> QED
    BY <2>1, <2>2
<1> QED
  BY <1>1, <1>2, SharedInductive, PTL DEF Spec, KeepsLedger, Ledger!LedgerSpec

-----------------------------------------------------------------------------
\* Runs one after the other

Ended == {"idle", "done", "crashed"}

\* At most one run is under way.
OneLive == \A r, q \in Runs : r # q => pc[r] \in Ended \/ pc[q] \in Ended

\* A network is younger than the name it bears.
NamedBefore ==
  \A r \in Runs : /\ stamp[r] <= now
                  /\ \A n \in NetworkIds : Present(n) => stamp[Owner(n)] <= dockerNetworks[n].born

\* Once the containers are swept, a network that was old when the sweep began and is not the
\* run's own is one the sweep is after, or it is kept by a container.
Left(r, n) == Present(n) /\ Owner(n) # r /\ Stale(dockerNetworks[n].born, seen[r])
Guarded(n) == \E c \in ContainerIds : Exists(c) /\ Owner(c) = Owner(n)
PoolsSwept ==
  \A r \in Runs : \A n \in NetworkIds :
    /\ pc[r] = "sweepNetworks" /\ Left(r, n) => n \in victims[r] \/ Guarded(n)
    /\ pc[r] \in BuildPoints /\ Left(r, n) => Guarded(n)

SequentialInv == OneLive /\ NamedBefore /\ PoolsSwept

\* Only a run that is under way acts, and for itself alone.
LEMMA Acting ==
  ASSUME TypeInv, NEW q \in Runs, RunStep(q) \/ Release(q) \/ Crash(q)
  PROVE  pc[q] \notin Ended /\ \A r \in Runs : r # q => pc'[r] = pc[r]
<1>0. pc \in [Runs -> Points]
  BY DEF TypeInv, RunInv, RunTypeOK
<1>1. CASE Release(q) \/ Crash(q)
  BY <1>0, <1>1 DEF Release, Crash, Goto, Ended
<1>2. CASE SweepStep(q)
  BY <1>0, <1>2 DEF SweepStep, New, SweepContainer, ListNetworks, SweepNetwork, SweepDone, Goto, Ended
<1>3. CASE DropStep(q)
  BY <1>0, <1>3 DEF DropStep, DropProcess, DropBackend, DropContainer, AllContainersDropped,
                    DropNetwork, AllNetworksDropped, Goto, Ended
<1>4. CASE BuildStep(q)
  <2>1. CASE CreateGateway(q) \/ CreateRouter(q) \/ CreatePeer(q)
    BY <1>0, <2>1 DEF CreateGateway, CreateRouter, CreatePeer, CreateContainer, Goto, Ended
  <2>2. CASE \/ ConnectGateway(q) \/ ConnectRouterPublic(q) \/ ConnectRouterPrivate(q)
             \/ ConnectPeer(q) \/ StartGateway(q) \/ StartRouter(q) \/ StartPeer(q)
    BY <1>0, <2>2 DEF ConnectGateway, ConnectRouterPublic, ConnectRouterPrivate, ConnectPeer,
                      StartGateway, StartRouter, StartPeer, ConnectNetwork, StartContainer, Goto, Ended
  <2>3. CASE CreatePublicNetwork(q) \/ CreateNatNetwork(q) \/ RetryPublicSubnet(q)
    BY <1>0, <2>3 DEF CreatePublicNetwork, CreateNatNetwork, RetryPublicSubnet, Goto, Ended
  <2>4. CASE RegisterGateway(q) \/ RegisterPeer(q) \/ ApiError(q)
    BY <1>0, <2>4 DEF RegisterGateway, RegisterPeer, ApiError, Goto, Ended, BuildPoints
  <2> QED
    BY <1>4, <2>1, <2>2, <2>3, <2>4 DEF BuildStep
<1> QED
  BY <1>1, <1>2, <1>3, <1>4 DEF RunStep

\* A run that builds removes nothing and touches no network but its own.
LEMMA BuildKeeps ==
  ASSUME TypeInv, NEW r \in Runs, BuildStep(r)
  PROVE  /\ pc[r] \in BuildPoints /\ seen' = seen
         /\ \A c \in ContainerIds : Exists(c) => Exists(c)'
         /\ \A n \in NetworkIds : Owner(n) # r => dockerNetworks'[n] = dockerNetworks[n]
<1>0. /\ dockerContainers \in [ContainerIds -> ContainerRecords]
      /\ dockerNetworks \in [NetworkIds -> NetworkRecords] /\ idx[r] \in Nat
  BY DEF TypeInv, DaemonInv, DaemonTypeOK, RunInv, RunTypeOK
<1>1. CASE CreateGateway(r) \/ CreateRouter(r) \/ CreatePeer(r)
  <2>1. PICK c, next, at : CreateContainer(r, at, c, next) /\ at \in BuildPoints
    BY <1>1 DEF CreateGateway, CreateRouter, CreatePeer, BuildPoints
  <2>2. /\ pc[r] = at /\ UNCHANGED <<seen, dockerNetworks>>
        /\ dockerContainers' =
             [dockerContainers EXCEPT ![c] = [state |-> "created", born |-> now, nets |-> {}]]
    BY <2>1 DEF CreateContainer, sweep
  <2> QED
    BY <1>0, <2>1, <2>2 DEF Exists
<1>2. CASE \/ ConnectGateway(r) \/ ConnectRouterPublic(r) \/ ConnectRouterPrivate(r) \/ ConnectPeer(r)
  <2>1. PICK c, n, next, at : ConnectNetwork(r, at, c, n, next) /\ at \in BuildPoints
    BY <1>2 DEF ConnectGateway, ConnectRouterPublic, ConnectRouterPrivate, ConnectPeer, BuildPoints
  <2>2. /\ pc[r] = at /\ UNCHANGED <<seen, dockerNetworks>>
        /\ dockerContainers' = [dockerContainers EXCEPT ![c].nets = @ \union {n}]
    BY <2>1 DEF ConnectNetwork, sweep
  <2> QED
    BY <1>0, <2>1, <2>2 DEF Exists, ContainerRecords
<1>3. CASE StartGateway(r) \/ StartRouter(r) \/ StartPeer(r)
  <2>1. PICK c, next, at : StartContainer(r, at, c, next) /\ at \in BuildPoints
    BY <1>3 DEF StartGateway, StartRouter, StartPeer, BuildPoints
  <2>2. /\ pc[r] = at /\ UNCHANGED <<seen, dockerNetworks>>
        /\ dockerContainers' = [dockerContainers EXCEPT ![c].state = "running"]
    BY <2>1 DEF StartContainer, sweep
  <2> QED
    BY <1>0, <2>1, <2>2 DEF Exists, ContainerRecords
<1>4. CASE CreatePublicNetwork(r) \/ CreateNatNetwork(r)
  <2>1. PICK m, subnet : CreateNetwork(r, m, subnet) /\ Owner(m) = r
    BY <1>0, <1>4, Ids DEF CreatePublicNetwork, CreateNatNetwork
  <2>2. pc[r] \in BuildPoints /\ UNCHANGED seen
    BY <1>4 DEF CreatePublicNetwork, CreateNatNetwork, BuildPoints, sweep
  <2> QED
    BY <1>0, <2>1, <2>2 DEF CreateNetwork, Exists
<1>5. CASE RetryPublicSubnet(r) \/ RegisterGateway(r) \/ RegisterPeer(r) \/ ApiError(r)
  BY <1>5 DEF RetryPublicSubnet, RegisterGateway, RegisterPeer, ApiError, BuildPoints, sweep, daemon, Exists
<1> QED
  BY <1>1, <1>2, <1>3, <1>4, <1>5 DEF BuildStep

LEMMA OneLiveStep == ASSUME TypeInv, OneLive, SequentialNext PROVE OneLive'
<1>0. pc \in [Runs -> Points]
  BY DEF TypeInv, RunInv, RunTypeOK
<1>1. CASE Tick \/ \E c \in ContainerIds : ContainerExits(c)
  BY <1>1 DEF Tick, ContainerExits, OneLive
<1>2. ASSUME NEW q \in Runs, Configure(q), \A r \in Runs \ {q} : pc[r] \in {"idle", "done", "crashed"}
      PROVE  OneLive'
  BY <1>0, <1>2 DEF Configure, Goto, OneLive, Ended
<1>3. ASSUME NEW q \in Runs, RunStep(q) \/ Release(q) \/ Crash(q) PROVE OneLive'
  <2>1. pc[q] \notin Ended /\ \A r \in Runs : r # q => pc'[r] = pc[r]
    BY <1>3, Acting
  <2>2. \A r \in Runs : r # q => pc'[r] \in Ended
    BY <2>1 DEF OneLive
  <2> QED
    BY <2>2 DEF OneLive
<1> QED
  BY <1>1, <1>2, <1>3 DEF SequentialNext

LEMMA NamedBeforeStep == ASSUME TypeInv, Fresh, NamedBefore, Next PROVE NamedBefore'
<1>0. /\ stamp \in [Runs -> Nat] /\ now \in Nat /\ now' \in Nat /\ \A r \in Runs : now' >= now
      /\ \A n \in NetworkIds : dockerNetworks[n].born \in Nat
  <2>1. now' \in Nat
    BY RunInvStep, ClockAssumption
  <2>2. \A r \in Runs : now' >= now
    BY SweepEffects
  <2> QED
    BY <2>1, <2>2, ClockAssumption DEF TypeInv, DaemonInv, DaemonTypeOK, RunInv, RunTypeOK, NetworkRecords
<1>1. \A r \in Runs : stamp'[r] = stamp[r] \/ (stamp'[r] = now /\ pc[r] = "idle")
  <2> TAKE r \in Runs
  <2>1. pc[r] # "idle" => stamp'[r] = stamp[r]
    BY ConfigEffects
  <2>2. ASSUME NEW q \in Runs, Configure(q) PROVE stamp'[r] \in {stamp[r], now}
    BY <1>0, <2>2 DEF Configure
  <2>3. CASE Tick \/ \E c \in ContainerIds : ContainerExits(c)
    BY <2>3 DEF Tick, ContainerExits, config
  <2>4. ASSUME NEW q \in Runs, RunStep(q) \/ Release(q) \/ Crash(q), pc[r] = "idle" PROVE stamp'[r] = stamp[r]
    BY <2>4 DEF config, RunStep, Release, Crash, SweepStep, BuildStep, DropStep,
           New, SweepContainer, ListNetworks, SweepNetwork, SweepDone, CreatePublicNetwork, RetryPublicSubnet,
           CreateGateway, CreateRouter, CreatePeer, CreateContainer, ConnectGateway, ConnectRouterPublic,
           ConnectRouterPrivate, ConnectPeer, ConnectNetwork, StartGateway, StartRouter, StartPeer,
           StartContainer, CreateNatNetwork, RegisterGateway, RegisterPeer, ApiError, DropProcess, DropBackend,
           DropContainer, AllContainersDropped, DropNetwork, AllNetworksDropped
  <2> QED
    BY <2>1, <2>2, <2>3, <2>4 DEF Next
<1>2. \A r \in Runs : stamp'[r] \in Nat /\ stamp'[r] <= now /\ stamp'[r] <= now'
  BY <1>0, <1>1 DEF NamedBefore
<1>3. ASSUME NEW n \in NetworkIds, Present(n)' PROVE stamp'[Owner(n)] <= dockerNetworks'[n].born
  <2>1. Owner(n) \in Runs
    BY IdParts
  <2>2. CASE Present(n) /\ dockerNetworks'[n] = dockerNetworks[n]
    <3>1. pc[Owner(n)] # "idle"
      BY <2>2 DEF Fresh, Later, BeforeLoops
    <3>2. stamp'[Owner(n)] = stamp[Owner(n)]
      BY <1>1, <2>1, <3>1
    <3> QED
      BY <2>1, <2>2, <3>2 DEF NamedBefore
  <2>3. CASE dockerNetworks'[n].born = now
    BY <1>2, <2>1, <2>3
  <2> QED
    BY <1>3, <2>2, <2>3, NetworkEffects
<1> QED
  BY <1>2, <1>3 DEF NamedBefore

LEMMA PoolsSweptStep ==
  ASSUME ~DaemonFaults, TypeInv, OneLive, NamedBefore, PoolsSwept, SequentialNext
  PROVE  PoolsSwept'
<1>0. /\ pc \in [Runs -> Points] /\ MaxAge \in Nat /\ seen \in [Runs -> Nat] /\ stamp \in [Runs -> Nat]
      /\ dockerContainers \in [ContainerIds -> ContainerRecords]
      /\ dockerNetworks \in [NetworkIds -> NetworkRecords]
      /\ \A n \in NetworkIds : Owner(n) \in Runs /\ dockerNetworks[n].born \in Nat
      /\ victims \in [Runs -> SUBSET (ContainerIds \union NetworkIds)]
  BY ClockAssumption, IdParts
     DEF TypeInv, DaemonInv, DaemonTypeOK, RunInv, RunTypeOK, ContainerRecords, NetworkRecords
<1> SUFFICES ASSUME NEW r \in Runs, NEW n \in NetworkIds, Left(r, n)',
                    pc'[r] = "sweepNetworks" \/ pc'[r] \in BuildPoints
             PROVE  (pc'[r] = "sweepNetworks" /\ n \in victims'[r]) \/ Guarded(n)'
  BY DEF PoolsSwept, BuildPoints
<1>1. CASE Tick \/ \E c \in ContainerIds : ContainerExits(c)
  <2>1. UNCHANGED <<pc, dockerNetworks, seen, victims>>
    BY <1>1 DEF Tick, ContainerExits, daemon, sweep
  <2>2. \A c \in ContainerIds : Exists(c) => Exists(c)'
    BY <1>0, <1>1 DEF Tick, ContainerExits, daemon, Exists, ContainerRecords
  <2>3. Left(r, n)
    BY <2>1 DEF Left, Present
  <2> QED
    BY <2>1, <2>2, <2>3 DEF PoolsSwept, Guarded
<1>2. ASSUME NEW q \in Runs, Configure(q), \A x \in Runs \ {q} : pc[x] \in Ended PROVE FALSE
  BY <1>0, <1>2 DEF Configure, Goto, Ended, BuildPoints
<1>3. ASSUME NEW q \in Runs, q # r, RunStep(q) \/ Release(q) \/ Crash(q) PROVE FALSE
  <2>1. pc[q] \notin Ended /\ pc'[r] = pc[r]
    BY <1>3, Acting
  <2> QED
    BY <1>3, <2>1 DEF OneLive, Ended, BuildPoints
<1>4. CASE Release(r) \/ Crash(r) \/ DropStep(r)
  BY <1>0, <1>4 DEF Release, Crash, DropStep, DropProcess, DropBackend, DropContainer, AllContainersDropped,
                    DropNetwork, AllNetworksDropped, Goto, BuildPoints, DropPoints
<1>5. CASE BuildStep(r)
  <2>1. /\ pc[r] \in BuildPoints /\ seen' = seen
        /\ \A c \in ContainerIds : Exists(c) => Exists(c)'
        /\ Owner(n) # r => dockerNetworks'[n] = dockerNetworks[n]
    BY <1>5, BuildKeeps
  <2>2. Left(r, n)
    BY <2>1 DEF Left, Present
  <2>3. Guarded(n)
    BY <2>1, <2>2 DEF PoolsSwept
  <2> QED
    BY <2>1, <2>3 DEF Guarded
<1>6. CASE New(r) \/ \E c \in victims[r] : SweepContainer(r, c)
  BY <1>0, <1>6 DEF New, SweepContainer, Goto, BuildPoints
<1>7. CASE ListNetworks(r)
  <2>1. UNCHANGED <<dockerNetworks, seen>> /\ victims' = [victims EXCEPT ![r] = ListedNetworks(seen[r])]
        /\ pc'[r] = "sweepNetworks"
    BY <1>0, <1>7 DEF ListNetworks, Goto, daemon
  <2>2. Present(n) /\ Stale(dockerNetworks[n].born, seen[r])
    BY <2>1 DEF Left, Present
  <2>3. stamp[Owner(n)] <= dockerNetworks[n].born
    BY <2>2 DEF NamedBefore
  <2>4. Stale(stamp[Owner(n)], seen[r])
    BY <1>0, <2>2, <2>3 DEF Stale
  <2> QED
    BY <1>0, <2>1, <2>2, <2>4 DEF ListedNetworks
<1>8. ASSUME NEW m \in victims[r], SweepNetwork(r, m)
      PROVE  (pc'[r] = "sweepNetworks" /\ n \in victims'[r]) \/ Guarded(n)'
  <2>1. /\ pc[r] = "sweepNetworks" /\ UNCHANGED <<pc, seen, dockerContainers>> /\ RemoveNetwork(m)
        /\ victims' = [victims EXCEPT ![r] = @ \ {m}]
    BY <1>8 DEF SweepNetwork
  <2>2. CASE n = m /\ InUse(m)
    <3>1. PICK c \in ContainerIds : dockerContainers[c].state = "running" /\ n \in dockerContainers[c].nets
      BY <2>2 DEF InUse
    <3>2. Exists(c) /\ Owner(c) = Owner(n)
      BY <3>1 DEF Exists, TypeInv, DaemonInv, NetsOwned
    <3> QED
      BY <2>1, <3>2 DEF Guarded, Exists
  <2>3. ~(n = m /\ ~InUse(m))
    <3> SUFFICES ASSUME n = m, ~InUse(m) PROVE FALSE
      OBVIOUS
    <3>1. dockerNetworks' = [dockerNetworks EXCEPT ![n] = NoNetwork]
      BY <2>1 DEF RemoveNetwork
    <3> QED
      BY <1>0, <3>1 DEF Left, Present, NoNetwork
  <2>4. CASE n # m
    <3>1. dockerNetworks'[n] = dockerNetworks[n]
      BY <1>0, <2>1, <2>4 DEF RemoveNetwork
    <3>2. Left(r, n)
      BY <2>1, <3>1 DEF Left, Present
    <3>3. n \in victims[r] \/ Guarded(n)
      BY <2>1, <3>2 DEF PoolsSwept
    <3> QED
      BY <1>0, <2>1, <2>4, <3>3 DEF Guarded, Exists
  <2> QED
    BY <2>2, <2>3, <2>4
<1>9. CASE SweepDone(r)
  <2>1. UNCHANGED <<dockerNetworks, dockerContainers, seen>> /\ pc[r] = "sweepNetworks" /\ victims[r] = {}
    BY <1>9 DEF SweepDone, daemon, sweep
  <2>2. Left(r, n)
    BY <2>1 DEF Left, Present
  <2> QED
    BY <2>1, <2>2 DEF PoolsSwept, Guarded, Exists
<1> QED
  BY <1>1, <1>2, <1>3, <1>4, <1>5, <1>6, <1>7, <1>8, <1>9 DEF SequentialNext, RunStep, SweepStep, Ended

\* For runs one after the other, a pool is lost only with a container that keeps it: the next
\* run's sweep has removed every other network of an old run before it asks for a subnet.
THEOREM PoolsAreRecovered == SequentialSpec => []RecoveredPools
<1>0. CASE DaemonFaults
  <2>1. RecoveredPools
    BY <1>0 DEF RecoveredPools
  <2> QED
    BY <2>1, PTL
<1> SUFFICES ASSUME ~DaemonFaults PROVE SequentialSpec => []RecoveredPools
  BY <1>0
<1>1. SequentialNext => Next
  BY DEF SequentialNext, Next
<1>2. SequentialSpec => []SharedInv
  <2>1. [SequentialNext]_vars => [Next]_vars
    BY <1>1
  <2>2. SequentialSpec => Spec
    BY <2>1, PTL DEF SequentialSpec, Spec
  <2> QED
    BY <2>2, SharedInductive, PTL
<1>3. Init => SequentialInv
  BY DEF Init, SequentialInv, OneLive, NamedBefore, PoolsSwept, Ended, Left, Present, NoNetwork, NoId
<1>4. SharedInv /\ SequentialInv /\ [SequentialNext]_vars => SequentialInv'
  <2>1. ASSUME SharedInv, SequentialInv, SequentialNext PROVE SequentialInv'
    BY <1>1, <2>1, OneLiveStep, NamedBeforeStep, PoolsSweptStep DEF SequentialInv, SharedInv, IInv
  <2>2. ASSUME SequentialInv, UNCHANGED vars PROVE SequentialInv'
    BY <2>2 DEF vars, daemon, config, sweep, SequentialInv, OneLive, NamedBefore, PoolsSwept, Left, Guarded,
                Present, Exists
  <2> QED
    BY <2>1, <2>2
<1>5. SharedInv /\ SequentialInv => RecoveredPools
  BY DEF SharedInv, IInv, TypeInv, DaemonInv, DaemonTypeOK, RunInv, RunTypeOK, NetworkRecords,
         SequentialInv, PoolsSwept, RecoveredPools, Left, Guarded, Stale, OlderThanMaxAge
<1> QED
  BY <1>2, <1>3, <1>4, <1>5, PTL DEF SequentialSpec

-----------------------------------------------------------------------------
\* What the ledger promises, by its own steps, read in the backend's state: what exists is
\* entered unless its owner crashed, and who has ended has nothing entered.
Entered ==
  /\ \A x \in ContainerIds \union NetworkIds : BornOf[x] # Never =>
       PhaseOf[Owner(x)] = "crashed" \/ x \in LedgerOf[Owner(x)]
  /\ \A r \in Runs : PhaseOf[r] = "ended" => LedgerOf[r] = {}

\* The resource ledger, whoever keeps it, forgets nothing.
THEOREM LedgerForgetsNothing == Ledger!LedgerSpec => []Ledger!NothingForgotten
<1>0. /\ \A x \in ContainerIds \union NetworkIds : Owner(x) \in Runs
      /\ DOMAIN PhaseOf = Runs /\ DOMAIN LedgerOf = Runs
      /\ DOMAIN BornOf = ContainerIds \union NetworkIds
      /\ DOMAIN PhaseOf' = Runs /\ DOMAIN LedgerOf' = Runs
      /\ DOMAIN BornOf' = ContainerIds \union NetworkIds
  BY IdParts DEF PhaseOf, BornOf, LedgerOf
<1>1. Ledger!LedgerInit => Entered
  BY <1>0 DEF Ledger!LedgerInit, Entered, Ledger!Resources, Ledger!Never, Never, PhaseOf, BornOf
<1>2. Entered /\ [Ledger!LedgerNext]_(Ledger!ledgerVars) => Entered'
  <2> SUFFICES ASSUME Entered, Ledger!LedgerNext \/ UNCHANGED Ledger!ledgerVars PROVE Entered'
    OBVIOUS
  <2>1. CASE UNCHANGED Ledger!ledgerVars \/ Ledger!Elsewhere \/ Ledger!Passes
    <3>1. UNCHANGED <<PhaseOf, BornOf, LedgerOf>>
      BY <2>1 DEF Ledger!ledgerVars, Ledger!Elsewhere, Ledger!Passes, PhaseOf, BornOf, LedgerOf
    <3> QED
      BY <3>1 DEF Entered
  <2>2. ASSUME NEW r \in Runs,
               Ledger!Begin(r) \/ Ledger!LetGo(r) \/ Ledger!End(r) \/ Ledger!Crashes(r)
        PROVE  Entered'
    <3>1. /\ BornOf' = BornOf
          /\ \/ /\ LedgerOf' = LedgerOf
                /\ \/ PhaseOf[r] = "none" /\ PhaseOf' = [PhaseOf EXCEPT ![r] = "active"]
                   \/ PhaseOf[r] = "active" /\ PhaseOf' = [PhaseOf EXCEPT ![r] = "dropping"]
                   \/ /\ PhaseOf[r] \in {"active", "dropping"} /\ LedgerOf[r] = {}
                      /\ PhaseOf' = [PhaseOf EXCEPT ![r] = "ended"]
             \/ /\ PhaseOf' = [PhaseOf EXCEPT ![r] = "crashed"]
                /\ LedgerOf' = [LedgerOf EXCEPT ![r] = {}]
      BY <2>2 DEF Ledger!Begin, Ledger!LetGo, Ledger!End, Ledger!Crashes, PhaseOf, BornOf, LedgerOf
    <3> QED
      BY <1>0, <3>1 DEF Entered
  <2>3. ASSUME NEW x \in ContainerIds \union NetworkIds,
               Ledger!Create(x) \/ Ledger!Sweep(x) \/ Ledger!Remove(x)
        PROVE  Entered'
    <3>1. /\ PhaseOf' = PhaseOf
          /\ \/ /\ PhaseOf[Owner(x)] = "active" /\ BornOf' = [BornOf EXCEPT ![x] = now]
                /\ LedgerOf' = [LedgerOf EXCEPT ![Owner(x)] = @ \union {x}]
             \/ BornOf' = [BornOf EXCEPT ![x] = Never] /\ LedgerOf' = LedgerOf
             \/ /\ BornOf' = [BornOf EXCEPT ![x] = Never]
                /\ LedgerOf' = [LedgerOf EXCEPT ![Owner(x)] = @ \ {x}]
      BY <2>3 DEF Ledger!Create, Ledger!Sweep, Ledger!Remove, Ledger!Of, Ledger!Never, Owner, Never,
                  PhaseOf, BornOf, LedgerOf
    <3> QED
      BY <1>0, <3>1 DEF Entered
  <2> QED
    BY <2>1, <2>2, <2>3 DEF Ledger!LedgerNext, Ledger!Resources
<1>3. Entered => Ledger!NothingForgotten
  <2>1. ASSUME Entered, NEW x \in ContainerIds \union NetworkIds, BornOf[x] # Never
        PROVE  \/ PhaseOf[Owner(x)] = "crashed"
               \/ PhaseOf[Owner(x)] # "ended" /\ x \in LedgerOf[Owner(x)]
    BY <1>0, <2>1 DEF Entered
  <2> QED
    BY <2>1 DEF Ledger!NothingForgotten, Ledger!Resources, Ledger!Of, Ledger!Never, Owner, Never,
                PhaseOf, BornOf, LedgerOf
<1> QED
  BY <1>1, <1>2, <1>3, PTL DEF Ledger!LedgerSpec

\* So the backend forgets nothing, for no other reason than that it is such a ledger.
THEOREM BackendForgetsNothing ==
  ASSUME ~DaemonFaults, CleanupOnDrop
  PROVE  Spec => []Ledger!NothingForgotten
  BY ImplementsLedger, LedgerForgetsNothing, PTL DEF KeepsLedger
=============================================================================
