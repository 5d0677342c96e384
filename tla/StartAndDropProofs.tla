--------------------------- MODULE StartAndDropProofs ---------------------------
(***************************************************************************)
(* How a network begins and ends, for any bounds.  The address plan keeps  *)
(* the nodes of a network apart, and so what is given to the nodes that    *)
(* are started; the binary they are started from is the one that was       *)
(* built; and Drop leaves nothing behind.  For Drop, inductive are: as     *)
(* long as no cleanup() was dropped, what exists is on the lists, or among *)
(* what Drop has taken off them; and a first panic of Drop's own has used  *)
(* up a handle, or was on a single-threaded runtime.                       *)
(***************************************************************************)
EXTENDS MCStartAndDrop, FiniteSetTheorems, TLAPS

\* Those, 254 * 256, that have an address of their own on this machine.
FewLocals == LocalTotal <= 65024

-----------------------------------------------------------------------------
\* Addresses

\* Division by 256.
LEMMA Bytes ==
  ASSUME NEW k \in Nat
  PROVE  /\ k \div 256 \in Nat /\ k % 256 \in 0..255
         /\ k = 256 * (k \div 256) + (k % 256)
OBVIOUS

\* Numbers that are less than 256 apart differ in their last byte.
LEMMA CloseBytes ==
  ASSUME NEW a \in Nat, NEW b \in Nat, a - b < 256, b - a < 256, a % 256 = b % 256
  PROVE  a = b
BY Bytes

\* Nodes of this machine have addresses of their own, none of which is that where ports are
\* looked for (builder.rs:358-363).
LEMMA LocalAddressesApart ==
  ASSUME NEW i \in Nat, i < 65024
  PROVE  /\ LocalAddress(i) # Localhost /\ LocalAddress(i) # Wildcard
         /\ \A j \in Nat : j < 65024 /\ LocalAddress(i) = LocalAddress(j) => i = j
<1>1. ASSUME NEW k \in Nat, k < 65024 PROVE (k \div 256) % 254 = k \div 256
  <2>1. k \div 256 \in 0..253 BY <1>1
  <2> QED BY <2>1
<1>2. LocalAddress(i) # Localhost /\ LocalAddress(i) # Wildcard
  <2>1. ((i \div 256) % 254) + 1 # 0 OBVIOUS
  <2> QED BY <2>1 DEF LocalAddress, Localhost, Wildcard
<1>3. ASSUME NEW j \in Nat, j < 65024, LocalAddress(i) = LocalAddress(j) PROVE i = j
  <2>1. ((i \div 256) % 254) + 1 = ((j \div 256) % 254) + 1 /\ i % 256 = j % 256
    BY <1>3 DEF LocalAddress
  <2>2. (i \div 256) + 1 = (j \div 256) + 1 BY <1>1, <1>3, <2>1
  <2>3. i \div 256 = j \div 256 BY <2>2, Bytes
  <2> QED BY <2>1, <2>3, Bytes
<1> QED BY <1>2, <1>3

\* The first 246 gateways have addresses of their own, which Docker does not keep for itself
\* (docker.rs:953-959).
LEMMA GatewaysApart ==
  ASSUME NEW i \in 0..245
  PROVE  /\ ~GatewayOverflows(i) /\ GatewayAddress(Octet, i) \notin Reserved(Octet)
         /\ \A j \in 0..245 : GatewayAddress(Octet, i) = GatewayAddress(Octet, j) => i = j
<1>1. \A k \in 0..245 : U8(k) = k /\ U8(10 + k) = 10 + k BY DEF U8
<1>2. ~GatewayOverflows(i) BY <1>1 DEF GatewayOverflows
<1>3. \A k \in 0..245 : GatewayAddress(Octet, k) = <<172, Octet, 0, 10 + k>>
  BY <1>1 DEF GatewayAddress
<1>4. GatewayAddress(Octet, i) \notin Reserved(Octet) BY <1>3 DEF Reserved
<1>5. ASSUME NEW j \in 0..245, GatewayAddress(Octet, i) = GatewayAddress(Octet, j) PROVE i = j
  <2>1. <<172, Octet, 0, 10 + i>> = <<172, Octet, 0, 10 + j>> BY <1>3, <1>5
  <2> QED BY <2>1
<1> QED BY <1>2, <1>4, <1>5

\* The first 256 nodes have a router of their own, which keeps out of the gateways' way, unless
\* it is that of node 0 (docker.rs:627-632).
LEMMA RoutersApart ==
  ASSUME NEW i \in 0..255
  PROVE  /\ RouterAddress(Octet, i) \notin Reserved(Octet)
         /\ \A j \in 0..255 : RouterAddress(Octet, i) = RouterAddress(Octet, j) => i = j
         /\ \A g \in Nat : RouterAddress(Octet, i) = GatewayAddress(Octet, g) => i = 0
<1>1. \A k \in 0..255 : U8(k) = k BY DEF U8
<1>2. \A k \in 0..255 : RouterAddress(Octet, k) = <<172, Octet, k, 100>> BY <1>1 DEF RouterAddress
<1>3. RouterAddress(Octet, i) \notin Reserved(Octet) BY <1>2 DEF Reserved
<1>4. ASSUME NEW j \in 0..255, RouterAddress(Octet, i) = RouterAddress(Octet, j) PROVE i = j
  <2>1. <<172, Octet, i, 100>> = <<172, Octet, j, 100>> BY <1>2, <1>4
  <2> QED BY <2>1
<1>5. ASSUME NEW g \in Nat, RouterAddress(Octet, i) = GatewayAddress(Octet, g) PROVE i = 0
  <2>1. RouterAddress(Octet, i)[3] = i BY <1>2
  <2>2. GatewayAddress(Octet, g)[3] = 0 BY DEF GatewayAddress
  <2> QED BY <1>5, <2>1, <2>2
<1> QED BY <1>3, <1>4, <1>5

\* And a private network of their own (docker.rs:588-594).
LEMMA PrivateNetsApart ==
  ASSUME NEW first \in Nat, NEW i \in 0..255, NEW j \in 0..255,
         PrivateNet(first, i) = PrivateNet(first, j)
  PROVE  i = j
<1>1. U8(i) = i /\ U8(j) = j BY DEF U8
<1>2. (first + i) % 256 = (first + j) % 256
  <2>1. PrivateNet(first, i)[2] = PrivateNet(first, j)[2] OBVIOUS
  <2> QED BY <1>1, <2>1 DEF PrivateNet, U8
<1>3. first + i = first + j BY <1>2, CloseBytes
<1> QED BY <1>3

-----------------------------------------------------------------------------
\* What the steps of each backend leave alone, and how far the local build is.
Shape ==
  /\ backend = "Local" =>
       /\ size = <<0, LocalTotal>> /\ stage \in {"ws", "net", "spawn"}
       /\ stage # "ws" => index \in Locals
  /\ backend = "DockerNat" => stage \in {"create", "error"} /\ \A i \in Locals : status[i] = "none"

\* A node that has not been spawned has not started.
InTurn == backend = "Local" => \A i \in Locals : status[i] # "none" => i < index

\* A socket of a node is one that it was told to bind, and it runs.
OwnSockets ==
  \A s \in sockets : s.by # Other =>
    /\ s.by \in Locals /\ status[s.by] = "running"
    /\ s \in {Socket("udp", LocalAddress(s.by), net_port[s.by], s.by),
              Socket("tcp", Localhost, ws_port[s.by], s.by)}

\* A node is spawned with the ports it was given.
GivenPorts ==
  /\ backend = "Local" /\ stage \in {"net", "spawn"} => ws_port[index] \in Ports
  /\ backend = "Local" /\ stage = "spawn" => net_port[index] \in Ports
  /\ \A i \in Locals : status[i] # "none" => ws_port[i] \in Ports /\ net_port[i] \in Ports

StartInv == StartTypeOK /\ Shape /\ InTurn /\ GivenPorts

\* Every step keeps it.
LEMMA StartInvariant == StartSpec => []StartInv
<1>1. StartInit => StartInv
  <2> SUFFICES ASSUME StartInit PROVE StartInv OBVIOUS
  <2> USE StartAssumption DEF StartInit
  <2>1. size \in Nat \X Nat /\ 0 \in 0..(size[1] + size[2]) OBVIOUS
  <2>2. StartTypeOK BY <2>1 DEF StartTypeOK
  <2>3. Shape /\ InTurn /\ GivenPorts BY DEF Shape, InTurn, GivenPorts
  <2> QED BY <2>2, <2>3 DEF StartInv
<1>2. StartInv /\ [StartNext]_startVars => StartInv'
  <2> SUFFICES ASSUME StartInv, [StartNext]_startVars PROVE StartInv' OBVIOUS
  <2> USE StartAssumption
      DEF StartInv, StartTypeOK, Shape, InTurn, GivenPorts, localVars, dockerVars, Locals, NoPort
  <2>1. CASE ProbeWsPort BY <2>1 DEF ProbeWsPort, FreePorts
  <2>2. CASE ProbeNetPort BY <2>2 DEF ProbeNetPort, FreePorts
  <2>3. CASE Spawn BY <2>3 DEF Spawn
  <2>4. ASSUME NEW i \in Locals, NodeBinds(i) PROVE StartInv'
    <3>1. \A s \in sockets' : s.proto \in {"udp", "tcp"} /\ s.port \in Ports /\ s.by \in Locals \union {Other}
      BY <2>4 DEF NodeBinds, Socket, WsArgument, NetworkArgument
    <3> QED BY <2>4, <3>1 DEF NodeBinds
  <2>5. ASSUME NEW i \in Locals, NodeCannotBind(i) PROVE StartInv'
    BY <2>5 DEF NodeCannotBind
  <2>6. ASSUME NEW proto \in {"udp", "tcp"}, NEW addr, NEW port \in Ports, OtherBinds(proto, addr, port)
        PROVE StartInv'
    BY <2>6 DEF OtherBinds, Socket
  <2>7. CASE OtherCloses BY <2>7 DEF OtherCloses
  <2>8. CASE CreateGateway
    <3>1. index \in Int /\ size[1] \in Nat /\ size[2] \in Nat OBVIOUS
    <3> QED BY <2>8, <3>1 DEF CreateGateway, Refused
  <2>9. CASE CreatePeer
    <3>1. index \in Int /\ size[1] \in Nat /\ size[2] \in Nat OBVIOUS
    <3> QED BY <2>9, <3>1 DEF CreatePeer, MorePeers, Refused
  <2>10. CASE UNCHANGED startVars BY <2>10 DEF startVars
  <2> QED BY <2>1, <2>2, <2>3, <2>4, <2>5, <2>6, <2>7, <2>8, <2>9, <2>10 DEF StartNext
<1> QED BY <1>1, <1>2, PTL DEF StartSpec

\* The type invariant, for any sizes, ports and other programs (builder.rs:337-378,
\* docker.rs:582-640, 935-959).
THEOREM StartTypeCorrect == StartSpec => []StartTypeOK
<1>1. StartInv => StartTypeOK BY DEF StartInv
<1> QED BY StartInvariant, <1>1, PTL

-----------------------------------------------------------------------------
\* The sockets of nodes

\* Sockets of nodes are theirs, throughout.
LEMMA OwnSocketsStep ==
  ASSUME StartInv, OwnSockets, [StartNext]_startVars PROVE OwnSockets'
<1> USE DEF OwnSockets, localVars
<1>1. CASE ProbeWsPort
  <2>1. \A i \in Locals : status[i] # "none" => ws_port'[i] = ws_port[i]
    BY <1>1 DEF ProbeWsPort, StartInv, StartTypeOK, InTurn, Locals
  <2> QED BY <1>1, <2>1 DEF ProbeWsPort
<1>2. CASE ProbeNetPort
  <2>1. \A i \in Locals : status[i] # "none" => net_port'[i] = net_port[i]
    BY <1>2 DEF ProbeNetPort, StartInv, StartTypeOK, InTurn, Locals
  <2> QED BY <1>2, <2>1 DEF ProbeNetPort
<1>3. CASE Spawn
  <2>1. \A i \in Locals : status[i] = "running" => status'[i] = "running"
    BY <1>3 DEF Spawn, StartInv, StartTypeOK, InTurn, Locals
  <2> QED BY <1>3, <2>1 DEF Spawn
<1>4. ASSUME NEW i \in Locals, NodeBinds(i) PROVE OwnSockets'
  <2>1. \A j \in Locals : status[j] = "running" => status'[j] = "running"
    BY <1>4 DEF NodeBinds, StartInv, StartTypeOK
  <2>2. status'[i] = "running" BY <1>4 DEF NodeBinds, StartInv, StartTypeOK
  <2>3. sockets' = sockets \union {Socket("udp", LocalAddress(i), net_port[i], i),
                                   Socket("tcp", Localhost, ws_port[i], i)}
    BY <1>4 DEF NodeBinds, WsArgument, NetworkArgument
  <2>4. UNCHANGED <<ws_port, net_port>> BY <1>4 DEF NodeBinds
  <2> QED BY <2>1, <2>2, <2>3, <2>4 DEF Socket
<1>5. ASSUME NEW i \in Locals, NodeCannotBind(i) PROVE OwnSockets'
  <2>1. \A j \in Locals : status[j] = "running" => status'[j] = "running"
    BY <1>5 DEF NodeCannotBind, StartInv, StartTypeOK
  <2> QED BY <1>5, <2>1 DEF NodeCannotBind
<1>6. ASSUME NEW proto, NEW addr, NEW port, OtherBinds(proto, addr, port) PROVE OwnSockets'
  <2>1. Socket(proto, addr, port, Other).by = Other BY DEF Socket
  <2> QED BY <1>6, <2>1 DEF OtherBinds
<1>7. CASE OtherCloses BY <1>7 DEF OtherCloses
<1>8. CASE CreateGateway BY <1>8 DEF CreateGateway
<1>9. CASE CreatePeer BY <1>9 DEF CreatePeer
<1>10. CASE UNCHANGED startVars BY <1>10 DEF startVars
<1> QED BY <1>1, <1>2, <1>3, <1>4, <1>5, <1>6, <1>7, <1>8, <1>9, <1>10 DEF StartNext

\* Whoever is in the way of a node's transport is another program.
LEMMA OthersInTheWay ==
  ASSUME StartTypeOK, OwnSockets, FewLocals, NEW i \in Locals, status[i] # "running",
         NEW s \in InTheWay(i), s.proto = "udp"
  PROVE  s.by = Other
<1> SUFFICES ASSUME s.by # Other PROVE FALSE OBVIOUS
<1>1. s \in sockets /\ (s.addr = LocalAddress(i) \/ Wildcard \in {s.addr, LocalAddress(i)})
  BY DEF InTheWay, Binders
<1>2. /\ s.by \in Locals /\ status[s.by] = "running"
      /\ s \in {Socket("udp", LocalAddress(s.by), net_port[s.by], s.by),
                Socket("tcp", Localhost, ws_port[s.by], s.by)}
  BY <1>1 DEF OwnSockets
<1>3. s.addr = LocalAddress(s.by)
  <2>1. Socket("tcp", Localhost, ws_port[s.by], s.by).proto = "tcp" BY DEF Socket
  <2>2. s = Socket("udp", LocalAddress(s.by), net_port[s.by], s.by) BY <1>2, <2>1
  <2> DEFINE n == s.by
  <2>3. Socket("udp", LocalAddress(n), net_port[n], n).addr = LocalAddress(n) BY DEF Socket
  <2> QED BY <2>2, <2>3
<1>4. /\ i \in Nat /\ i < 65024 /\ s.by \in Nat /\ s.by < 65024
  BY <1>2, StartAssumption DEF FewLocals, Locals
<1>5. LocalAddress(i) # Wildcard /\ LocalAddress(s.by) # Wildcard
  BY <1>4, LocalAddressesApart
<1>6. LocalAddress(i) = LocalAddress(s.by) BY <1>1, <1>3, <1>5
<1>7. i = s.by BY <1>4, <1>6, LocalAddressesApart
<1> QED BY <1>2, <1>7

\* No node finds its transport taken by another of its own network, with up to 254 * 256 nodes
\* on this machine, whatever ports they are given and whatever nodes of a second network and
\* other programs take (builder.rs:358-363, peer.rs:83-87).
THEOREM TransportsApart == ASSUME FewLocals PROVE StartSpec => []OwnTransportsApart
<1>1. StartInit => OwnSockets BY DEF StartInit, OwnSockets
<1>2. StartInv /\ OwnSockets /\ [StartNext]_startVars => OwnSockets' BY OwnSocketsStep
<1>3. StartInv /\ OwnSockets => OwnTransportsApart
  BY OthersInTheWay DEF StartInv, OwnTransportsApart
<1> QED BY <1>1, <1>2, <1>3, StartInvariant, PTL DEF StartSpec

\* Every running node answers at its url, and no other that runs does, however many there are
\* and whatever ports they and other programs take (peer.rs:21, builder.rs:440-441).
THEOREM UrlsAreAnswered == StartSpec => []RunningAnswersItsUrl
<1>1. StartInit => RunningAnswersItsUrl BY DEF StartInit, RunningAnswersItsUrl
<1>2. StartInv /\ RunningAnswersItsUrl /\ [StartNext]_startVars => RunningAnswersItsUrl'
  <2> SUFFICES ASSUME StartInv, RunningAnswersItsUrl, [StartNext]_startVars,
                      NEW i \in Locals, status'[i] = "running"
      PROVE (\E s \in sockets : s.by = i /\ Binders("tcp", Localhost, ws_port[i]) = {s})'
    BY DEF RunningAnswersItsUrl
  <2> USE DEF StartInv, StartTypeOK, localVars
  <2>1. ASSUME status[i] = "running", UNCHANGED sockets, ws_port'[i] = ws_port[i]
        PROVE (\E s \in sockets : s.by = i /\ Binders("tcp", Localhost, ws_port[i]) = {s})'
    BY <2>1 DEF RunningAnswersItsUrl, Binders
  <2>2. CASE ProbeWsPort
    <3>1. status[i] = "running" /\ ws_port'[i] = ws_port[i] /\ UNCHANGED sockets
      BY <2>2 DEF ProbeWsPort, InTurn, Locals
    <3> QED BY <2>1, <3>1
  <2>3. CASE ProbeNetPort BY <2>1, <2>3 DEF ProbeNetPort
  <2>4. CASE Spawn
    <3>1. status[i] = "running" /\ ws_port'[i] = ws_port[i] /\ UNCHANGED sockets
      BY <2>4 DEF Spawn, Locals
    <3> QED BY <2>1, <3>1
  <2>5. ASSUME NEW j \in Locals, NodeBinds(j)
        PROVE (\E s \in sockets : s.by = i /\ Binders("tcp", Localhost, ws_port[i]) = {s})'
    <3> DEFINE u == Socket("udp", LocalAddress(j), net_port[j], j)
               w == Socket("tcp", Localhost, ws_port[j], j)
    <3>1. /\ sockets' = sockets \union {u, w} /\ UNCHANGED ws_port
          /\ Binders("tcp", Localhost, ws_port[j]) = {}
      BY <2>5 DEF NodeBinds, InTheWay, WsArgument, NetworkArgument
    <3>2. u.proto # "tcp" /\ w.proto = "tcp" /\ w.port = ws_port[j] /\ w.addr = Localhost /\ w.by = j
      BY DEF Socket
    <3>3. CASE i = j
      <4>1. Binders("tcp", Localhost, ws_port[i])' = {w}
        BY <3>1, <3>2, <3>3 DEF Binders
      <4> QED BY <3>1, <3>2, <3>3, <4>1
    <3>4. CASE i # j
      <4>1. status[i] = "running" BY <2>5, <3>4 DEF NodeBinds
      <4>2. PICK s \in sockets : s.by = i /\ Binders("tcp", Localhost, ws_port[i]) = {s}
        BY <4>1 DEF RunningAnswersItsUrl
      <4>3. ws_port[i] # ws_port[j] BY <3>1, <4>2
      <4>4. Binders("tcp", Localhost, ws_port[i])' = {s}
        BY <3>1, <3>2, <4>2, <4>3 DEF Binders
      <4> QED BY <3>1, <4>2, <4>4
    <3> QED BY <3>3, <3>4
  <2>6. ASSUME NEW j \in Locals, NodeCannotBind(j)
        PROVE (\E s \in sockets : s.by = i /\ Binders("tcp", Localhost, ws_port[i]) = {s})'
    <3>1. status[i] = "running" BY <2>6 DEF NodeCannotBind
    <3> QED BY <2>1, <2>6, <3>1 DEF NodeCannotBind
  <2>7. ASSUME NEW proto \in {"udp", "tcp"}, NEW addr \in OtherAddresses, NEW port \in Ports,
               OtherBinds(proto, addr, port)
        PROVE (\E s \in sockets : s.by = i /\ Binders("tcp", Localhost, ws_port[i]) = {s})'
    <3> DEFINE o == Socket(proto, addr, port, Other)
    <3>1. /\ sockets' = sockets \union {o} /\ UNCHANGED <<ws_port, status>>
          /\ Binders(proto, addr, port) = {}
      BY <2>7 DEF OtherBinds
    <3>2. PICK s \in sockets : s.by = i /\ Binders("tcp", Localhost, ws_port[i]) = {s}
      BY <3>1 DEF RunningAnswersItsUrl
    <3>3. s.proto = "tcp" /\ s.port = ws_port[i] /\ (s.addr = Localhost \/ s.addr = Wildcard)
      BY <3>2 DEF Binders, Localhost, Wildcard
    <3>4. o.proto = proto /\ o.port = port /\ o.addr = addr BY DEF Socket
    <3>5. o \notin Binders("tcp", Localhost, ws_port[i])'
      <4>1. CASE addr \in {Localhost, Wildcard}
        <5> SUFFICES ASSUME proto = "tcp", port = ws_port[i] PROVE s \in Binders(proto, addr, port)
          BY <3>1, <3>4 DEF Binders
        <5> QED BY <3>3, <4>1 DEF Binders
      <4>2. CASE addr \notin {Localhost, Wildcard}
        <5>1. Wildcard # Localhost BY DEF Localhost, Wildcard
        <5> QED BY <3>4, <4>2, <5>1 DEF Binders
      <4> QED BY <4>1, <4>2
    <3>6. Binders("tcp", Localhost, ws_port[i])' = {s}
      BY <3>1, <3>2, <3>5 DEF Binders
    <3> QED BY <3>1, <3>2, <3>6
  <2>8. CASE OtherCloses
    <3>1. PICK o \in sockets : o.by = Other /\ sockets' = sockets \ {o} BY <2>8 DEF OtherCloses
    <3>2. UNCHANGED <<ws_port, status>> BY <2>8 DEF OtherCloses
    <3>3. PICK s \in sockets : s.by = i /\ Binders("tcp", Localhost, ws_port[i]) = {s}
      BY <3>2 DEF RunningAnswersItsUrl
    <3>4. s # o BY <3>1, <3>3, StartAssumption DEF Locals, Other
    <3>5. Binders("tcp", Localhost, ws_port[i])' = {s} BY <3>1, <3>2, <3>3, <3>4 DEF Binders
    <3> QED BY <3>1, <3>3, <3>4, <3>5
  <2>9. CASE CreateGateway BY <2>1, <2>9 DEF CreateGateway
  <2>10. CASE CreatePeer BY <2>1, <2>10 DEF CreatePeer
  <2>11. CASE UNCHANGED startVars BY <2>1, <2>11 DEF startVars
  <2> QED
    BY <2>2, <2>3, <2>4, <2>5, <2>6, <2>7, <2>8, <2>9, <2>10, <2>11 DEF StartNext
<1> QED BY <1>1, <1>2, StartInvariant, PTL DEF StartSpec

-----------------------------------------------------------------------------
\* Containers

\* What is in use on the public network, and the private networks: those of the nodes so far.
OwnPlaces ==
  backend = "DockerNat" =>
    /\ \A a \in placed : \/ a \in Reserved(Octet)
                         \/ \E k \in Nat : k < index /\ k < size[1] /\ a = GatewayAddress(Octet, k)
                         \/ \E k \in Nat : k < index /\ k >= size[1] /\ a = RouterAddress(Octet, k)
    /\ \A n \in nets : \E k \in Nat : k < index /\ k >= size[1] /\ n = PrivateNet(base, k)

\* A build that is refused something goes no further.
Stops == backend = "DockerNat" => /\ stage = "create" => failed = "no"
                                  /\ base \in Nat

PlacesInv == OwnPlaces /\ Stops /\ RefusedBeyondBounds

LEMMA GatewayPlaced ==
  ASSUME StartInv, PlacesInv, CreateGateway PROVE PlacesInv'
<1> USE DEF StartInv, StartTypeOK, Shape
<1> DEFINE addr == GatewayAddress(Octet, index)
<1>1. /\ backend = "DockerNat" /\ stage = "create" /\ failed = "no" /\ index \in Nat /\ index < size[1]
      /\ UNCHANGED <<backend, size, base>>
  BY DEF CreateGateway, PlacesInv, Stops
<1>2. ASSUME index < 246 PROVE addr \notin placed /\ ~GatewayOverflows(index)
  <2>1. index \in 0..245 BY <1>1, <1>2
  <2>2. addr \notin Reserved(Octet) /\ ~GatewayOverflows(index) BY <2>1, GatewaysApart
  <2>3. ASSUME NEW k \in Nat, k < index PROVE addr # GatewayAddress(Octet, k)
    <3>1. k \in 0..245 /\ k # index BY <1>1, <1>2, <2>3
    <3> QED BY <2>1, <3>1, GatewaysApart
  <2>4. ~\E k \in Nat : k < index /\ k >= size[1] BY <1>1
  <2> QED BY <1>1, <2>2, <2>3, <2>4 DEF PlacesInv, OwnPlaces
<1>3. CASE stage' = "error" /\ UNCHANGED <<index, dockerVars>> /\ index >= 246
  <2>1. RefusedBeyondBounds' BY <1>1, <1>3 DEF RefusedBeyondBounds
  <2>2. OwnPlaces' BY <1>1, <1>3 DEF PlacesInv, OwnPlaces, dockerVars
  <2>3. Stops' BY <1>1, <1>3 DEF PlacesInv, Stops
  <2> QED BY <2>1, <2>2, <2>3 DEF PlacesInv
<1>4. CASE placed' = placed \union {addr} /\ index' = index + 1 /\ UNCHANGED <<stage, nets, failed>>
  <2>1. RefusedBeyondBounds' BY <1>1, <1>4 DEF RefusedBeyondBounds
  <2>2. Stops' BY <1>1, <1>4 DEF PlacesInv, Stops
  <2>3. OwnPlaces'
    <3>1. ASSUME NEW a \in placed
          PROVE \/ a \in Reserved(Octet)
                \/ \E k \in Nat : k < index' /\ k < size[1] /\ a = GatewayAddress(Octet, k)
                \/ \E k \in Nat : k < index' /\ k >= size[1] /\ a = RouterAddress(Octet, k)
      BY <1>1, <1>4, \A k \in Nat : k < index => k < index' DEF PlacesInv, OwnPlaces
    <3>2. index < index' BY <1>1, <1>4
    <3>3. \E k \in Nat : k < index' /\ k < size[1] /\ addr = GatewayAddress(Octet, k)
      BY <1>1, <3>2
    <3>4. \A n \in nets : \E k \in Nat : k < index' /\ k >= size[1] /\ n = PrivateNet(base, k)
      BY <1>1, <1>4, \A k \in Nat : k < index => k < index' DEF PlacesInv, OwnPlaces
    <3> QED BY <1>1, <1>4, <3>1, <3>3, <3>4 DEF OwnPlaces
  <2> QED BY <2>1, <2>2, <2>3 DEF PlacesInv
<1>5. \/ stage' = "error" /\ UNCHANGED <<index, dockerVars>> /\ (GatewayOverflows(index) \/ addr \in placed)
      \/ placed' = placed \union {addr} /\ index' = index + 1 /\ UNCHANGED <<stage, nets, failed>>
  BY DEF CreateGateway, Refused
<1>6. index >= 246 \/ index < 246 BY <1>1
<1> QED BY <1>2, <1>3, <1>4, <1>5, <1>6

LEMMA RouterPlaced ==
  ASSUME StartInv, PlacesInv, CreatePeer PROVE PlacesInv'
<1> USE DEF StartInv, StartTypeOK, Shape
<1> DEFINE addr == RouterAddress(Octet, index)
           net == PrivateNet(base, index)
<1>1. /\ backend = "DockerNat" /\ stage = "create" /\ failed = "no" /\ index \in Nat /\ index >= size[1]
      /\ UNCHANGED <<backend, size, base>> /\ base \in Nat /\ size[1] \in Nat
  BY DEF CreatePeer, PlacesInv, Stops
<1>2. ASSUME index < 256 PROVE addr \notin placed /\ net \notin nets
  <2>1. index \in 0..255 BY <1>1, <1>2
  <2>2. addr \notin Reserved(Octet) BY <2>1, RoutersApart
  <2>3. ASSUME NEW k \in Nat, k < index PROVE addr # RouterAddress(Octet, k) /\ net # PrivateNet(base, k)
    <3>1. k \in 0..255 /\ k # index BY <1>1, <1>2, <2>3
    <3>2. addr # RouterAddress(Octet, k) BY <2>1, <3>1, RoutersApart
    <3>3. net # PrivateNet(base, k)
      <4> SUFFICES ASSUME PrivateNet(base, index) = PrivateNet(base, k) PROVE index = k BY <3>1
      <4>1. base \in Nat /\ index \in 0..255 /\ k \in 0..255 BY <1>1, <2>1, <3>1
      <4> HIDE DEF StartInv, StartTypeOK, Shape
      <4> QED BY ONLY <4>1, PrivateNet(base, index) = PrivateNet(base, k), PrivateNetsApart
    <3> QED BY <3>2, <3>3
  <2>4. ASSUME NEW k \in Nat, k < index, k < size[1] PROVE addr # GatewayAddress(Octet, k)
    <3>1. index # 0 BY <1>1, <2>4
    <3> QED BY <2>1, <3>1, RoutersApart
  <2>5. addr \notin placed BY <1>1, <2>2, <2>3, <2>4 DEF PlacesInv, OwnPlaces
  <2>6. net \notin nets BY <1>1, <2>3 DEF PlacesInv, OwnPlaces
  <2> QED BY <2>5, <2>6
<1>3. CASE stage' = "error" /\ UNCHANGED <<index, dockerVars>> /\ index >= 256
  <2>1. RefusedBeyondBounds' BY <1>1, <1>3 DEF RefusedBeyondBounds
  <2>2. OwnPlaces' BY <1>1, <1>3 DEF PlacesInv, OwnPlaces, dockerVars
  <2>3. Stops' BY <1>1, <1>3 DEF PlacesInv, Stops
  <2> QED BY <2>1, <2>2, <2>3 DEF PlacesInv
<1>4. CASE /\ placed' = placed \union {addr} /\ nets' = nets \union {net}
           /\ index' = index + 1 /\ UNCHANGED <<stage, failed>>
  <2>1. RefusedBeyondBounds' BY <1>1, <1>4 DEF RefusedBeyondBounds
  <2>2. Stops' BY <1>1, <1>4 DEF PlacesInv, Stops
  <2>3. OwnPlaces'
    <3>1. ASSUME NEW a \in placed
          PROVE \/ a \in Reserved(Octet)
                \/ \E k \in Nat : k < index' /\ k < size[1] /\ a = GatewayAddress(Octet, k)
                \/ \E k \in Nat : k < index' /\ k >= size[1] /\ a = RouterAddress(Octet, k)
      BY <1>1, <1>4, \A k \in Nat : k < index => k < index' DEF PlacesInv, OwnPlaces
    <3>2. index < index' BY <1>1, <1>4
    <3>3. \E k \in Nat : k < index' /\ k >= size[1] /\ addr = RouterAddress(Octet, k)
      BY <1>1, <3>2
    <3>4. ASSUME NEW n \in nets PROVE \E k \in Nat : k < index' /\ k >= size[1] /\ n = PrivateNet(base, k)
      BY <1>1, <1>4, \A k \in Nat : k < index => k < index' DEF PlacesInv, OwnPlaces
    <3>5. \E k \in Nat : k < index' /\ k >= size[1] /\ net = PrivateNet(base, k)
      BY <1>1, <3>2
    <3> QED BY <1>1, <1>4, <3>1, <3>3, <3>4, <3>5 DEF OwnPlaces
  <2> QED BY <2>1, <2>2, <2>3 DEF PlacesInv
<1>5. \/ stage' = "error" /\ UNCHANGED <<index, dockerVars>> /\ (addr \in placed \/ net \in nets)
      \/ /\ placed' = placed \union {addr} /\ nets' = nets \union {net}
         /\ index' = index + 1 /\ UNCHANGED <<stage, failed>>
  BY DEF CreatePeer, Refused
<1>6. index >= 256 \/ index < 256 BY <1>1
<1> QED BY <1>2, <1>3, <1>4, <1>5, <1>6

\* Up to 246 gateways and 256 nodes no container is refused for its address, on whichever
\* subnets, with or without checks of overflow (docker.rs:589-594, 627-632, 953-959).
THEOREM ContainersApart == StartSpec => []RefusedBeyondBounds
<1>1. StartInit => PlacesInv
  <2> SUFFICES ASSUME StartInit PROVE PlacesInv OBVIOUS
  <2> USE StartAssumption DEF StartInit
  <2>1. OwnPlaces BY DEF OwnPlaces
  <2>2. base \in Nat /\ (backend = "DockerNat" => stage = "create") /\ failed = "no"
    <3>1. CASE base = 1 BY <3>1
    <3>2. CASE base \in Bases BY <3>2
    <3> QED BY <3>1, <3>2
  <2>3. RefusedBeyondBounds BY DEF RefusedBeyondBounds
  <2> QED BY <2>1, <2>2, <2>3 DEF PlacesInv, Stops
<1>2. StartInv /\ PlacesInv /\ [StartNext]_startVars => PlacesInv'
  <2> SUFFICES ASSUME StartInv, PlacesInv, [StartNext]_startVars PROVE PlacesInv' OBVIOUS
  <2>1. CASE CreateGateway BY <2>1, GatewayPlaced
  <2>2. CASE CreatePeer BY <2>2, RouterPlaced
  <2>3. CASE backend = "Local" /\ UNCHANGED backend
    BY <2>3 DEF PlacesInv, OwnPlaces, Stops, RefusedBeyondBounds
  <2>4. CASE UNCHANGED startVars
    BY <2>4 DEF startVars, dockerVars, PlacesInv, OwnPlaces, Stops, RefusedBeyondBounds
  <2>5. ASSUME NEW i \in Locals, NodeBinds(i) \/ NodeCannotBind(i)
        PROVE backend = "Local" /\ UNCHANGED backend
    BY <2>5 DEF NodeBinds, NodeCannotBind, StartInv, StartTypeOK, Shape
  <2>6. CASE OtherCloses
    BY <2>6 DEF OtherCloses, dockerVars, PlacesInv, OwnPlaces, Stops, RefusedBeyondBounds
  <2> QED
    BY <2>1, <2>2, <2>3, <2>4, <2>5, <2>6
    DEF StartNext, ProbeWsPort, ProbeNetPort, Spawn, OtherBinds
<1>3. PlacesInv => RefusedBeyondBounds BY DEF PlacesInv
<1> QED BY <1>1, <1>2, <1>3, StartInvariant, PTL DEF StartSpec

-----------------------------------------------------------------------------
\* The binary.  While cargo's output is looked for it is where cargo has put it, of the
\* version that was built or of a newer one.
WhereBuilt ==
  /\ step = "resolve" => built = Missing
  /\ step = "locate" =>
       Builds /\ built \in 1..version /\ files[<<CargoPlace, profile>>] >= built

\* Nothing is of a version that there is not yet.
NoneAhead == built <= version /\ \A f \in Places \X Profiles : files[f] <= version

ResolveInv == ResolveTypeOK /\ WhereBuilt /\ NoneAhead /\ NeverStale

LEMMA ResolveInitInv == ResolveInit => ResolveInv
<1> SUFFICES ASSUME ResolveInit PROVE ResolveInv OBVIOUS
<1> USE VersionAssumption DEF ResolveInit, Missing
<1>1. ResolveTypeOK BY DEF ResolveTypeOK
<1>2. WhereBuilt /\ NoneAhead /\ NeverStale BY DEF WhereBuilt, NoneAhead, NeverStale
<1> QED BY <1>1, <1>2 DEF ResolveInv

\* The file that cargo writes is one of those there may be.
LEMMA CargoFile == ASSUME ResolveTypeOK PROVE <<CargoPlace, profile>> \in Places \X Profiles
BY DEF ResolveTypeOK, CargoPlace, Places

\* Where the code looks is where cargo puts it, unless it looks elsewhere.
LEMMA LooksThere ==
  ASSUME Builds, ~LooksElsewhere, kind \in Kinds
  PROVE  (IF kind = "CurrentCrate" THEN CurrentPlace ELSE WorkspacePlace) = CargoPlace
BY DEF Builds, LooksElsewhere, CurrentPlace, WorkspacePlace, CargoPlace, Kinds

LEMMA ResolveStep == ASSUME ResolveInv, [ResolveNext]_resolveVars PROVE ResolveInv'
<1> USE VersionAssumption
<1>0. /\ ResolveTypeOK /\ WhereBuilt /\ NoneAhead /\ NeverStale /\ version \in Nat /\ built \in Nat
      /\ <<CargoPlace, profile>> \in Places \X Profiles
  BY CargoFile DEF ResolveInv, ResolveTypeOK
<1>1. CASE UNCHANGED resolveVars
  BY <1>0, <1>1 DEF resolveVars, choices, ResolveInv, ResolveTypeOK, WhereBuilt, NoneAhead, NeverStale,
     Builds, CargoPlace, LooksElsewhere
<1>2. CASE Edit
  <2>1. version' = version + 1 /\ version' \in 1..MaxVersion
    BY <1>0, <1>2 DEF Edit, ResolveTypeOK
  <2>2. ResolveTypeOK' BY <1>0, <1>2, <2>1 DEF Edit, choices, ResolveTypeOK
  <2>3. NoneAhead'
    BY <1>0, <1>2, <2>1 DEF Edit, NoneAhead, ResolveTypeOK
  <2>4. WhereBuilt' /\ NeverStale'
    BY <1>0, <1>2, <2>1 DEF Edit, choices, WhereBuilt, NeverStale, Builds, CargoPlace, LooksElsewhere
  <2> QED BY <2>2, <2>3, <2>4 DEF ResolveInv
<1>3. ASSUME NEW place \in Places, NEW p \in Profiles, OtherBuilds(place, p) PROVE ResolveInv'
  <2>1. files' = [files EXCEPT ![<<place, p>>] = version] /\ UNCHANGED <<choices, version, step, built, binary>>
    BY <1>3 DEF OtherBuilds
  <2>2. ResolveTypeOK' BY <1>0, <2>1 DEF choices, ResolveTypeOK
  <2>3. NoneAhead' BY <1>0, <2>1 DEF NoneAhead, ResolveTypeOK
  <2>4. \A f \in Places \X Profiles : files'[f] \in {files[f], version}
    BY <1>0, <2>1 DEF ResolveTypeOK
  <2>5. WhereBuilt'
    <3>1. files'[<<CargoPlace, profile>>] >= built \/ ~(files[<<CargoPlace, profile>>] >= built)
      BY <1>0, <2>4 DEF NoneAhead, ResolveTypeOK
    <3> QED BY <1>0, <2>1, <3>1 DEF WhereBuilt, choices, Builds, CargoPlace
  <2>6. NeverStale' BY <1>0, <2>1 DEF NeverStale, choices, Builds, LooksElsewhere
  <2> QED BY <2>2, <2>3, <2>5, <2>6 DEF ResolveInv
<1>4. CASE CargoBuild
  <2>1. step = "resolve" /\ Builds /\ built = Missing /\ UNCHANGED <<choices, version, binary>>
    BY <1>0, <1>4 DEF CargoBuild, Fails, WhereBuilt
  <2>2. CASE /\ files' = [files EXCEPT ![<<CargoPlace, profile>>] = version]
             /\ built' = version /\ step' = "locate"
    <3>1. files'[<<CargoPlace, profile>>] = version
          /\ \A f \in Places \X Profiles : files'[f] \in {files[f], version}
      BY <1>0, <2>2 DEF ResolveTypeOK
    <3>2. ResolveTypeOK' BY <1>0, <2>1, <2>2 DEF choices, ResolveTypeOK, Missing
    <3>3. NoneAhead' BY <1>0, <2>1, <2>2, <3>1 DEF NoneAhead, ResolveTypeOK
    <3>4. WhereBuilt' BY <1>0, <2>1, <2>2, <3>1 DEF WhereBuilt, choices, Builds, CargoPlace, ResolveTypeOK
    <3>5. NeverStale' BY <2>2 DEF NeverStale
    <3> QED BY <3>2, <3>3, <3>4, <3>5 DEF ResolveInv
  <2>3. CASE step' = "error" /\ UNCHANGED <<files, built>>
    <3>1. ResolveTypeOK' BY <1>0, <2>1, <2>3 DEF choices, ResolveTypeOK
    <3>2. NoneAhead' /\ WhereBuilt' /\ NeverStale'
      BY <1>0, <2>1, <2>3 DEF NoneAhead, WhereBuilt, NeverStale
    <3> QED BY <3>1, <3>2 DEF ResolveInv
  <2> QED BY <1>4, <2>2, <2>3 DEF CargoBuild, Fails
<1>5. CASE Locate
  <2> DEFINE place == IF kind = "CurrentCrate" THEN CurrentPlace ELSE WorkspacePlace
             found == files[<<place, profile>>]
  <2>1. /\ step = "locate" /\ Builds /\ built \in 1..version /\ files[<<CargoPlace, profile>>] >= built
        /\ UNCHANGED <<choices, version, files, built>>
    BY <1>0, <1>5 DEF Locate, WhereBuilt
  <2>2. <<place, profile>> \in Places \X Profiles
    BY <1>0 DEF ResolveTypeOK, CurrentPlace, WorkspacePlace, CargoPlace, Places
  <2>3. found \in 0..MaxVersion BY <1>0, <2>2 DEF ResolveTypeOK
  <2>4. ~LooksElsewhere => found >= built
    BY <1>0, <2>1, LooksThere DEF ResolveTypeOK
  <2>5. \/ found = Missing /\ step' = "error" /\ binary' = binary
        \/ found # Missing /\ step' = "resolved" /\ binary' = found
    BY <1>5 DEF Locate, Finds, Fails, ProfileDir
  <2> HIDE DEF found
  <2>6. ResolveTypeOK' BY <1>0, <2>1, <2>3, <2>5 DEF choices, ResolveTypeOK, Missing
  <2>7. NoneAhead' /\ WhereBuilt' BY <1>0, <2>1, <2>5 DEF NoneAhead, WhereBuilt
  <2>8. NeverStale'
    BY <1>0, <2>1, <2>3, <2>4, <2>5 DEF NeverStale, choices, Builds, LooksElsewhere, Missing
  <2> QED BY <2>6, <2>7, <2>8 DEF ResolveInv
<1>6. CASE Takes
  <2>1. /\ step = "resolve" /\ ~Builds /\ UNCHANGED <<choices, version, files, built>>
        /\ \/ binary' \in 1..version /\ step' = "resolved"
           \/ step' = "error" /\ binary' = binary
    BY <1>6 DEF Takes, Fails
  <2>2. ResolveTypeOK' BY <1>0, <2>1 DEF choices, ResolveTypeOK, Missing
  <2>3. NoneAhead' /\ WhereBuilt' /\ NeverStale'
    BY <1>0, <2>1 DEF NoneAhead, WhereBuilt, NeverStale, choices, Builds
  <2> QED BY <2>2, <2>3 DEF ResolveInv
<1> QED BY <1>1, <1>2, <1>3, <1>4, <1>5, <1>6 DEF ResolveNext

LEMMA ResolveInvariant == ResolveSpec => []ResolveInv
BY ResolveInitInv, ResolveStep, PTL DEF ResolveSpec

\* The binary a network is started with is never older than the one built for it, and one that
\* was built is found, however often sources are edited and others build, unless the code looks
\* for it elsewhere (binary.rs:94-168, 171-207).
THEOREM BinaryIsCurrent == ResolveSpec => []NeverStale
<1>1. ResolveInv => NeverStale BY DEF ResolveInv
<1> QED BY ResolveInvariant, <1>1, PTL

-----------------------------------------------------------------------------
\* Drop
\* Before Drop has taken the lists, all there is is on them.
Listed ==
  ~cancelled /\ pc \in {"build", "live", "cleanup", "handles", "backend"} =>
    exists.containers \subseteq containers /\ exists.networks \subseteq networks

\* After, among what it has taken.
Taken ==
  ~cancelled /\ pc \in {"containers", "networks"} =>
    exists.containers \subseteq taken.containers /\ exists.networks \subseteq taken.networks

\* Networks have their turn when no container is left to be dropped.
ContainersFirst == pc = "networks" => taken.containers = {}

\* The runtime a network is built in has threads, or is its caller's.
BuildRuntime == pc = "build" => runtime = IF how = "sync" THEN "multi" ELSE how

\* Nothing panics before the network is let go of or the build fails.
CalmBefore ==
  /\ pc \in {"build", "live", "cleanup"} => ~panicking
  /\ pc = "build" => ~failing

\* Where a panic of Drop's own came from.
FirstPanic ==
  panicking /\ ~failing /\ pc \in {"handles", "backend"} =>
    /\ total >= 1
    /\ pc = "handles" => runtime = "current" \/ \E j \in 1..total : j \notin handles

DropInv ==
  /\ DropTypeOK /\ Listed /\ Taken /\ ContainersFirst /\ LeavesNothing
  /\ BuildRuntime /\ CalmBefore /\ FirstPanic /\ AbortTakesTwo

-----------------------------------------------------------------------------
\* The handles, the containers and the networks of a network are finitely many.
LEMMA ContainersCounted ==
  ASSUME DropTypeOK PROVE Cardinality(containers) \in Nat
<1>1. total \in Nat BY DropAssumption DEF DropTypeOK
<1>2. IsFiniteSet(1..total) BY <1>1, FS_Interval
<1>3. IsFiniteSet(containers) BY <1>2, FS_Subset DEF DropTypeOK
<1> QED BY <1>3, FS_CardinalityType

\* The initial states: one network, and a list with it.
LEMMA DropInitInv == DropInit => DropInv
<1> SUFFICES ASSUME DropInit PROVE DropInv OBVIOUS
<1>1. DropTypeOK
  <2>1. total \in Nat /\ {Public} \subseteq 0..total BY DropAssumption DEF DropInit, Public
  <2>2. Nothing \in [containers : SUBSET (1..total), networks : SUBSET (0..total)]
    BY DEF Nothing
  <2>3. exists \in [containers : SUBSET (1..total), networks : SUBSET (0..total)]
    BY <2>1, <2>2 DEF DropInit, Nothing
  <2>4. runtime \in {"none", "current", "multi"} BY DropAssumption DEF DropInit
  <2> QED BY <2>1, <2>2, <2>3, <2>4 DEF DropInit, DropTypeOK
<1>2. Listed /\ Taken /\ ContainersFirst /\ LeavesNothing
  BY DEF DropInit, Listed, Taken, ContainersFirst, LeavesNothing, Nothing
<1>3. BuildRuntime /\ CalmBefore /\ FirstPanic /\ AbortTakesTwo
  BY DEF DropInit, BuildRuntime, CalmBefore, FirstPanic, AbortTakesTwo
<1> QED BY <1>1, <1>2, <1>3 DEF DropInv

-----------------------------------------------------------------------------
\* Every step keeps the type invariant.
LEMMA DropTypeStep == ASSUME DropTypeOK, [DropNext]_dropVars PROVE DropTypeOK'
<1> USE DEF DropTypeOK
<1>1. ASSUME NEW i \in Containers, CreateNode(i) PROVE DropTypeOK'
  <2>1. Cardinality(containers) \in Nat BY ContainersCounted
  <2>2. i \in 1..total /\ i \in 0..total
    BY <1>1, <2>1, DropAssumption DEF CreateNode, MoreToCreate
  <2>3. containers' \subseteq 1..total /\ networks' \subseteq 0..total /\ handles' \subseteq 1..total
    BY <1>1, <2>2 DEF CreateNode
  <2>4. exists' \in [containers : SUBSET (1..total), networks : SUBSET (0..total)]
    BY <1>1, <2>3 DEF CreateNode
  <2> QED BY <1>1, <2>3, <2>4 DEF CreateNode, plan
<1>2. CASE BuildReturns BY <1>2 DEF BuildReturns, RuntimeAfter, plan, lists
<1>3. CASE BuildFails BY <1>3 DEF BuildFails, Panics, Goes, plan, lists
<1>4. CASE LetsGo BY <1>4 DEF LetsGo, plan, lists
<1>5. CASE CleansUp BY <1>5 DEF CleansUp, plan, lists
<1>6. CASE CleanupStep BY <1>6 DEF CleanupStep, plan, control
<1>7. CASE CleanupReturns BY <1>7 DEF CleanupReturns, plan, lists
<1>8. CASE CleanupCancelled BY <1>8 DEF CleanupCancelled, plan
<1>9. ASSUME NEW i \in Containers, DropHandle(i) PROVE DropTypeOK'
  BY <1>9 DEF DropHandle, Panics, Goes, plan, lists
<1>10. ASSUME NEW i \in Containers, DropContainer(i) PROVE DropTypeOK'
  BY <1>10 DEF DropContainer, plan, control
<1>11. ASSUME NEW n \in Networks, DropNetwork(n) PROVE DropTypeOK'
  BY <1>11 DEF DropNetwork, plan, control
<1>12. CASE HandlesDropped BY <1>12 DEF HandlesDropped, plan, lists
<1>13. CASE DropBackend BY <1>13 DEF DropBackend, Panics, Goes, Nothing, plan
<1>14. CASE ContainersDropped BY <1>14 DEF ContainersDropped, plan, lists
<1>15. CASE Dropped BY <1>15 DEF Dropped, plan, lists
<1>16. CASE UNCHANGED dropVars BY <1>16 DEF dropVars, plan, control, lists
<1> QED
  BY <1>1, <1>2, <1>3, <1>4, <1>5, <1>6, <1>7, <1>8, <1>9, <1>10, <1>11, <1>12, <1>13, <1>14,
     <1>15, <1>16 DEF DropNext, DropStep

-----------------------------------------------------------------------------
\* What exists, and where it is still known.
Kept == Listed /\ Taken /\ ContainersFirst

LEMMA KeptStep == ASSUME DropTypeOK, Kept, [DropNext]_dropVars PROVE Kept'
<1> USE DEF DropTypeOK, Kept, Listed, Taken, ContainersFirst
<1>1. ASSUME NEW i \in Containers, CreateNode(i) PROVE Kept'
  BY <1>1 DEF CreateNode, plan
<1>2. CASE BuildReturns BY <1>2 DEF BuildReturns, plan, lists
<1>3. CASE BuildFails BY <1>3 DEF BuildFails, Panics, Goes, plan, lists
<1>4. CASE LetsGo BY <1>4 DEF LetsGo, plan, lists
<1>5. CASE CleansUp BY <1>5 DEF CleansUp, plan, lists
<1>6. CASE CleanupStep BY <1>6 DEF CleanupStep, Attached, Public, plan, control
<1>7. CASE CleanupReturns BY <1>7 DEF CleanupReturns, plan, lists
<1>8. CASE CleanupCancelled BY <1>8 DEF CleanupCancelled, plan
<1>9. ASSUME NEW i \in Containers, DropHandle(i) PROVE Kept'
  BY <1>9 DEF DropHandle, Panics, Goes, plan, lists
<1>10. ASSUME NEW i \in Containers, DropContainer(i) PROVE Kept'
  BY <1>10 DEF DropContainer, plan, control
<1>11. ASSUME NEW n \in Networks, DropNetwork(n) PROVE Kept'
  BY <1>11 DEF DropNetwork, Attached, Public, plan, control
<1>12. CASE HandlesDropped BY <1>12 DEF HandlesDropped, plan, lists
<1>13. CASE DropBackend BY <1>13 DEF DropBackend, BackendPanics, Panics, Goes, Nothing, plan
<1>14. CASE ContainersDropped BY <1>14 DEF ContainersDropped, AllJoined, plan, lists
<1>15. CASE Dropped BY <1>15 DEF Dropped, plan, lists
<1>16. CASE UNCHANGED dropVars BY <1>16 DEF dropVars, plan, control, lists
<1> QED
  BY <1>1, <1>2, <1>3, <1>4, <1>5, <1>6, <1>7, <1>8, <1>9, <1>10, <1>11, <1>12, <1>13, <1>14, <1>15, <1>16
  DEF DropNext, DropStep

\* Only Drop's last step, with all networks taken and removed, or a panic on a single-threaded
\* runtime leads to "gone".
LEMMA LeavesNothingStep ==
  ASSUME DropTypeOK, Kept, LeavesNothing, [DropNext]_dropVars PROVE LeavesNothing'
<1> USE DEF LeavesNothing
<1>1. CASE Dropped
  <2>1. pc = "networks" /\ taken.networks = {} /\ taken.containers = {}
    BY <1>1 DEF Dropped, Kept, ContainersFirst
  <2>2. ASSUME ~cancelled PROVE exists = Nothing
    <3>1. exists.containers = {} /\ exists.networks = {} BY <2>1, <2>2 DEF Kept, Taken
    <3>2. exists = [containers |-> exists.containers, networks |-> exists.networks]
      BY DEF DropTypeOK
    <3> QED BY <3>1, <3>2 DEF Nothing
  <2> QED BY <1>1, <2>2 DEF Dropped, lists
<1>2. CASE DropBackend BY <1>2 DEF DropBackend, BackendPanics, Panics, Goes
<1>3. CASE UNCHANGED dropVars BY <1>3 DEF dropVars, plan, control, lists
<1>4. CASE pc' # "gone" BY <1>4
<1>5. ASSUME DropNext, ~Dropped, ~DropBackend, pc' = "gone" PROVE LeavesNothing'
  <2>1. pc = "gone" => UNCHANGED <<exists, cancelled, runtime>>
    BY <1>5 DEF DropNext, DropStep, CreateNode, BuildReturns, BuildFails, LetsGo, CleansUp,
       CleanupStep, CleanupReturns, CleanupCancelled, DropHandle, DropContainer, DropNetwork,
       HandlesDropped, ContainersDropped, AllJoined
  <2>2. pc = "gone"
    <3>1. ASSUME NEW i \in Containers, CreateNode(i) PROVE FALSE
      BY <1>5, <3>1 DEF CreateNode
    <3>2. ~BuildReturns /\ ~LetsGo /\ ~CleansUp /\ ~CleanupReturns /\ ~CleanupCancelled
      BY <1>5 DEF BuildReturns, LetsGo, CleansUp, CleanupReturns, CleanupCancelled
    <3>3. ~BuildFails BY <1>5 DEF BuildFails, Panics, Goes
    <3>4. ASSUME CleanupStep PROVE pc = "gone" BY <1>5, <3>4 DEF CleanupStep, control
    <3>5. ASSUME NEW i \in Containers, DropHandle(i) PROVE FALSE
      BY <1>5, <3>5 DEF DropHandle, Panics, Goes
    <3>6. ASSUME NEW i \in Containers, DropContainer(i) PROVE pc = "gone"
      BY <1>5, <3>6 DEF DropContainer, control
    <3>7. ASSUME NEW n \in Networks, DropNetwork(n) PROVE pc = "gone"
      BY <1>5, <3>7 DEF DropNetwork, control
    <3>8. ~HandlesDropped /\ ~ContainersDropped
      BY <1>5 DEF HandlesDropped, ContainersDropped
    <3> QED
      BY <1>5, <3>1, <3>2, <3>3, <3>4, <3>5, <3>6, <3>7, <3>8 DEF DropNext, DropStep
  <2> QED BY <2>1, <2>2
<1> QED BY <1>1, <1>2, <1>3, <1>4, <1>5

-----------------------------------------------------------------------------
\* Where panics come from.
Panicked == BuildRuntime /\ CalmBefore /\ FirstPanic /\ AbortTakesTwo

LEMMA PanickedStep == ASSUME DropTypeOK, Panicked, [DropNext]_dropVars PROVE Panicked'
<1> USE DropAssumption DEF DropTypeOK, Panicked, BuildRuntime, CalmBefore, FirstPanic, AbortTakesTwo
<1>1. ASSUME NEW i \in Containers, CreateNode(i) PROVE Panicked'
  BY <1>1 DEF CreateNode, plan
<1>2. CASE BuildReturns BY <1>2 DEF BuildReturns, plan, lists
<1>3. CASE BuildFails
  <2>1. pc = "build" /\ ~panicking /\ ~failing /\ UNCHANGED <<total, runtime, handles, failing>>
    BY <1>3 DEF BuildFails, plan
  <2>2. runtime # "multi" => runtime = "current"
    BY <2>1
  <2>3. CASE Cardinality(handles) = total /\ handles # {} /\ BlockingPanics
    <3>1. total >= 1
      <4>1. PICK i \in handles : TRUE BY <2>3
      <4>2. i \in 1..total BY <4>1
      <4> QED BY <4>2
    <3>2. pc' = "handles" /\ panicking' BY <1>3, <2>1, <2>3 DEF BuildFails, Panics
    <3> QED BY <2>1, <2>2, <2>3, <3>1, <3>2 DEF BlockingPanics
  <2>4. CASE ~(Cardinality(handles) = total /\ handles # {} /\ BlockingPanics)
    BY <1>3, <2>1, <2>4 DEF BuildFails, Goes
  <2> QED BY <2>3, <2>4
<1>4. CASE LetsGo BY <1>4 DEF LetsGo, plan, lists
<1>5. CASE CleansUp BY <1>5 DEF CleansUp, plan, lists
<1>6. CASE CleanupStep BY <1>6 DEF CleanupStep, Attached, Public, plan, control
<1>7. CASE CleanupReturns BY <1>7 DEF CleanupReturns, plan, lists
<1>8. CASE CleanupCancelled BY <1>8 DEF CleanupCancelled, plan
<1>9. ASSUME NEW i \in Containers, DropHandle(i) PROVE Panicked'
  <2>1. /\ pc = "handles" /\ i \in handles /\ handles' = handles \ {i}
        /\ UNCHANGED <<how, total, runtime, failing>>
    BY <1>9 DEF DropHandle, plan
  <2>2. i \in 1..total /\ total >= 1 BY <2>1
  <2>3. CASE ~BlockingPanics
    <3>1. pc' = "handles" /\ UNCHANGED panicking BY <1>9, <2>3 DEF DropHandle, Goes
    <3> QED BY <2>1, <2>2, <3>1
  <2>4. CASE BlockingPanics /\ ~panicking
    <3>1. pc' = "handles" BY <1>9, <2>4 DEF DropHandle, Panics
    <3> QED BY <2>1, <2>2, <3>1
  <2>5. CASE BlockingPanics /\ panicking
    <3>1. pc' = "aborted" /\ runtime # "multi" BY <1>9, <2>5 DEF DropHandle, Panics, BlockingPanics
    <3>2. CASE failing BY <2>1, <2>2, <3>1, <3>2
    <3>3. CASE runtime = "current" BY <2>1, <2>2, <3>1, <3>3
    <3>4. CASE ~failing /\ runtime # "current"
      <4>1. PICK j \in 1..total : j \notin handles BY <2>1, <2>5, <3>4
      <4>2. total >= 2 BY <2>1, <2>2, <4>1
      <4> QED BY <2>1, <3>1, <4>2
    <3> QED BY <3>2, <3>3, <3>4
  <2> QED BY <2>3, <2>4, <2>5
<1>10. ASSUME NEW i \in Containers, DropContainer(i) PROVE Panicked'
  BY <1>10 DEF DropContainer, plan, control
<1>11. ASSUME NEW n \in Networks, DropNetwork(n) PROVE Panicked'
  BY <1>11 DEF DropNetwork, Attached, Public, plan, control
<1>12. CASE HandlesDropped BY <1>12 DEF HandlesDropped, plan, lists
<1>13. CASE DropBackend BY <1>13 DEF DropBackend, BackendPanics, Panics, Goes, Nothing, plan
<1>14. CASE ContainersDropped BY <1>14 DEF ContainersDropped, AllJoined, plan, lists
<1>15. CASE Dropped BY <1>15 DEF Dropped, plan, lists
<1>16. CASE UNCHANGED dropVars BY <1>16 DEF dropVars, plan, control, lists
<1> QED
  BY <1>1, <1>2, <1>3, <1>4, <1>5, <1>6, <1>7, <1>8, <1>9, <1>10, <1>11, <1>12, <1>13, <1>14, <1>15, <1>16
  DEF DropNext, DropStep

-----------------------------------------------------------------------------
\* All of it together.
LEMMA DropInvariant == DropSpec => []DropInv
<1>1. DropInv /\ [DropNext]_dropVars => DropInv'
  <2> SUFFICES ASSUME DropInv, [DropNext]_dropVars PROVE DropInv' OBVIOUS
  <2>1. DropTypeOK' BY DropTypeStep DEF DropInv
  <2>2. Kept' BY KeptStep DEF DropInv, Kept
  <2>3. LeavesNothing' BY LeavesNothingStep DEF DropInv, Kept
  <2>4. Panicked' BY PanickedStep DEF DropInv, Panicked
  <2> QED BY <2>1, <2>2, <2>3, <2>4 DEF DropInv, Kept, Panicked
<1> QED BY DropInitInv, <1>1, PTL DEF DropSpec

\* The type invariant, for networks of any size (docker.rs:1667-1732).
THEOREM DropTypeCorrect == DropSpec => []DropTypeOK
<1>1. DropInv => DropTypeOK BY DEF DropInv
<1> QED BY DropInvariant, <1>1, PTL

\* Drop leaves no container and no network, whichever step of the build failed and however
\* large the network, on a runtime with threads, and without one unless the process is aborted
\* (docker.rs:1667-1732).
THEOREM DropLeavesNothing == DropSpec => []LeavesNothing
<1>1. DropInv => LeavesNothing BY DEF DropInv
<1> QED BY DropInvariant, <1>1, PTL

\* Drop aborts the process only without a runtime with threads, and only for a second panic
\* (docker.rs:286, 1719).
THEOREM DropAbortsForTwo == DropSpec => []AbortTakesTwo
<1>1. DropInv => AbortTakesTwo BY DEF DropInv
<1> QED BY DropInvariant, <1>1, PTL

-----------------------------------------------------------------------------
\* Drop goes on: what it has before it can be counted, and gets less.
LEMMA DropCounted ==
  ASSUME DropTypeOK
  PROVE  /\ IsFiniteSet(handles) /\ Cardinality(handles) \in Nat
         /\ IsFiniteSet(taken.containers) /\ Cardinality(taken.containers) \in Nat
         /\ IsFiniteSet(taken.networks) /\ Cardinality(taken.networks) \in Nat
<1>1. total \in Nat BY DropAssumption DEF DropTypeOK
<1>2. IsFiniteSet(1..total) /\ IsFiniteSet(0..total) BY <1>1, FS_Interval
<1>3. IsFiniteSet(handles) /\ IsFiniteSet(taken.containers) /\ IsFiniteSet(taken.networks)
  BY <1>2, FS_Subset DEF DropTypeOK
<1> QED BY <1>3, FS_CardinalityType

LEMMA OneFewer ==
  ASSUME NEW S, IsFiniteSet(S), NEW x \in S
  PROVE  Cardinality(S \ {x}) \in Nat /\ Cardinality(S \ {x}) < Cardinality(S)
<1>1. Cardinality(S \ {x}) = Cardinality(S) - 1 BY FS_RemoveElement
<1>2. IsFiniteSet(S \ {x}) BY FS_RemoveElement
<1> QED BY <1>1, <1>2, FS_CardinalityType

\* Drop ends after finitely many steps, however large the network and whatever panics.
THEOREM DropIsFinite == DropSpec => DropGoesOn
<1>1. DropTypeOK => DropLeft \in Nat \X Nat
  BY DropCounted DEF DropTypeOK, DropLeft, PartsLeft
<1>2. ASSUME DropTypeOK, DropNext, LetGoOf PROVE Fewer(DropLeft', DropLeft)
  <2> DEFINE less == Fewer(DropLeft', DropLeft)
  <2>1. DropStep
    BY <1>2 DEF DropNext, LetGoOf, CreateNode, BuildReturns, BuildFails, LetsGo, CleansUp, CleanupStep,
                CleanupReturns, CleanupCancelled
  <2>2. ASSUME PartsLeft[pc'] < PartsLeft[pc] PROVE less
    BY <2>2 DEF DropLeft, PartsLeft, Fewer
  <2>3. ASSUME NEW i \in Containers, DropHandle(i) PROVE less
    <3>1. pc' = "aborted" \/ (pc' = pc /\ taken' = taken /\ handles' = handles \ {i})
      BY <2>3 DEF DropHandle, Panics, Goes, lists
    <3>2. CASE pc' = "aborted"
      BY <2>2, <2>3, <3>2 DEF DropHandle, PartsLeft
    <3>3. CASE pc' = pc /\ taken' = taken /\ handles' = handles \ {i}
      BY <1>2, <2>3, <3>3, DropCounted, OneFewer DEF DropHandle, DropLeft, PartsLeft, Fewer
    <3> QED BY <3>1, <3>2, <3>3
  <2>4. ASSUME NEW c \in Containers, DropContainer(c) PROVE less
    <3>1. /\ pc' = pc /\ handles' = handles /\ c \in taken.containers
          /\ taken'.containers = taken.containers \ {c} /\ taken'.networks = taken.networks
      BY <1>2, <2>4 DEF DropContainer, DropTypeOK, control
    <3> QED
      BY <1>2, <3>1, DropCounted, OneFewer DEF DropLeft, PartsLeft, Fewer
  <2>5. ASSUME NEW n \in Networks, DropNetwork(n) PROVE less
    <3>1. /\ pc' = pc /\ handles' = handles /\ n \in taken.networks
          /\ taken'.networks = taken.networks \ {n} /\ taken'.containers = taken.containers
      BY <1>2, <2>5 DEF DropNetwork, DropTypeOK, control
    <3> QED
      BY <1>2, <3>1, DropCounted, OneFewer DEF DropLeft, PartsLeft, Fewer
  <2>6. CASE HandlesDropped \/ ContainersDropped \/ Dropped
    <3>1. PartsLeft[pc'] < PartsLeft[pc]
      BY <2>6 DEF HandlesDropped, ContainersDropped, AllJoined, Dropped, PartsLeft
    <3> QED BY <2>2, <3>1
  <2>7. CASE DropBackend
    <3>1. PartsLeft[pc'] < PartsLeft[pc]
      BY <2>7 DEF DropBackend, Panics, Goes, PartsLeft
    <3> QED BY <2>2, <3>1
  <2> QED BY <2>1, <2>3, <2>4, <2>5, <2>6, <2>7 DEF DropStep
<1>3. DropTypeOK /\ [DropNext]_dropVars => [LetGoOf => Fewer(DropLeft', DropLeft)]_dropVars
  BY <1>2
<1> QED BY <1>1, <1>3, DropTypeCorrect, PTL DEF DropSpec, DropGoesOn

-----------------------------------------------------------------------------
\* The three in behaviours of their own, as they are checked: each does what it does alone.
THEOREM TypesCorrect == MCSpec => []TypeOK
<1>1. MCInit => StartInit /\ ResolveInit /\ DropInit
  BY DEF MCInit
<1>2. [MCNext]_<<about, startVars, resolveVars, dropVars>> =>
        [StartNext]_startVars /\ [ResolveNext]_resolveVars /\ [DropNext]_dropVars
  BY DEF MCNext
<1>3. ResolveInv => ResolveTypeOK
  BY DEF ResolveInv
<1>4. StartTypeOK /\ ResolveTypeOK /\ DropTypeOK => TypeOK
  BY DEF TypeOK
<1> QED
  BY <1>1, <1>2, <1>3, <1>4, StartTypeCorrect, ResolveInvariant, DropTypeCorrect, PTL
  DEF MCSpec, StartSpec, ResolveSpec, DropSpec
=================================================================================
