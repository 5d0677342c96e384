------------------------------- MODULE NodeStart -------------------------------
(***************************************************************************)
(* The addresses and ports that nodes are started with.  On this machine   *)
(* (src/builder.rs, src/peer.rs) a port is one that was free for UDP at    *)
(* 127.0.0.1 a moment ago; the node binds it later, for its WebSocket by   *)
(* TCP and for its transport at an address of its own, while other nodes   *)
(* and programs take and leave ports, nodes of a second network with the   *)
(* same addresses among them.  In containers (src/docker.rs) the addresses *)
(* are fixed by the index, and the daemon refuses one in use.              *)
(***************************************************************************)
EXTENDS AddressPlan, FiniteSets

CONSTANTS
  LocalTotal,   \* nodes of a network on this machine
  Ports,        \* ports the operating system gives out
  MaxOthers,    \* bound of the sockets other programs have at once
  DockerSizes,  \* pairs of gateways and peers in containers
  Octet,        \* second octet of the public subnet
  Bases,        \* second octets of the private subnets' base
  Debug         \* overflow is checked

ASSUME StartAssumption ==
  /\ LocalTotal \in Nat /\ MaxOthers \in Nat /\ DockerSizes \subseteq Nat \X Nat
  /\ Octet \in 16..31 /\ Bases \subseteq 1..250 /\ Debug \in BOOLEAN

VARIABLES
  backend,   \* "Local" or "DockerNat"
  size,      \* gateways and peers
  base,      \* of the private subnets
  index,     \* the node being started
  stage,     \* what is done next for it
  ws_port,   \* given to each local node for its WebSocket
  net_port,  \* and for its transport
  status,    \* of each local node: "none", "starting", "running", "exited"
  sockets,   \* bound sockets of this machine: protocol, address, port, and whose they are
  placed,    \* addresses in use on the public network
  nets,      \* private networks there are
  failed     \* what the build in containers has failed of, if it has

localVars == <<ws_port, net_port, status, sockets>>
dockerVars == <<placed, nets>>
startVars == <<backend, size, base, index, stage, localVars, dockerVars, failed>>

Locals == 0..(LocalTotal - 1)
Other == -1
NoPort == 0

\* The sockets that keep another from being bound there.
Binders(proto, addr, port) ==
  {s \in sockets : s.proto = proto /\ s.port = port /\ (s.addr = addr \/ Wildcard \in {s.addr, addr})}
Socket(proto, addr, port, by) == [proto |-> proto, addr |-> addr, port |-> port, by |-> by]

-----------------------------------------------------------------------------
\* On this machine

\* get_free_port: bound for UDP at 127.0.0.1, and closed again.
FreePorts == {p \in Ports : Binders("udp", Localhost, p) = {}}

ProbeWsPort ==
  /\ backend = "Local" /\ stage = "ws" /\ index \in Locals
  /\ \E p \in FreePorts : ws_port' = [ws_port EXCEPT ![index] = p]
  /\ stage' = "net"
  /\ UNCHANGED <<backend, size, base, index, net_port, status, sockets, dockerVars, failed>>

ProbeNetPort ==
  /\ backend = "Local" /\ stage = "net"
  /\ \E p \in FreePorts : net_port' = [net_port EXCEPT ![index] = p]
  /\ stage' = "spawn"
  /\ UNCHANGED <<backend, size, base, index, ws_port, status, sockets, dockerVars, failed>>

Spawn ==
  /\ backend = "Local" /\ stage = "spawn"
  /\ status' = [status EXCEPT ![index] = "starting"]
  /\ index' = index + 1 /\ stage' = "ws"
  /\ UNCHANGED <<backend, size, base, ws_port, net_port, sockets, dockerVars, failed>>

\* Mutant: the two ports are swapped.
WsArgument_Swapped(i) == net_port[i]

\* --ws-api-port, and --network-port with --network-address
WsArgument(i) == ws_port[i]
NetworkArgument(i) == net_port[i]

InTheWay(i) ==
  Binders("udp", LocalAddress(i), NetworkArgument(i)) \union Binders("tcp", Localhost, WsArgument(i))

\* The node binds its sockets.
NodeBinds(i) ==
  /\ status[i] = "starting" /\ InTheWay(i) = {}
  /\ sockets' = sockets \union {Socket("udp", LocalAddress(i), NetworkArgument(i), i),
                                Socket("tcp", Localhost, WsArgument(i), i)}
  /\ status' = [status EXCEPT ![i] = "running"]
  /\ UNCHANGED <<backend, size, base, index, stage, ws_port, net_port, dockerVars, failed>>

\* Or one is taken, and it exits.
NodeCannotBind(i) ==
  /\ status[i] = "starting" /\ InTheWay(i) # {}
  /\ status' = [status EXCEPT ![i] = "exited"]
  /\ UNCHANGED <<backend, size, base, index, stage, ws_port, net_port, sockets, dockerVars, failed>>

\* Other programs take ports, of 127.0.0.1 or of all addresses, and leave them.  Nodes of a second
\* network on this machine have the very addresses of this one's, which are of the index alone.
OtherAddresses == {Localhost, Wildcard} \union {LocalAddress(i) : i \in Locals}

OtherBinds(proto, addr, port) ==
  /\ backend = "Local" /\ Binders(proto, addr, port) = {}
  /\ Cardinality({s \in sockets : s.by = Other}) < MaxOthers
  /\ sockets' = sockets \union {Socket(proto, addr, port, Other)}
  /\ UNCHANGED <<backend, size, base, index, stage, ws_port, net_port, status, dockerVars, failed>>

OtherCloses ==
  /\ \E s \in sockets : s.by = Other /\ sockets' = sockets \ {s}
  /\ UNCHANGED <<backend, size, base, index, stage, ws_port, net_port, status, dockerVars, failed>>

-----------------------------------------------------------------------------
\* In containers

Refused(what) ==
  /\ failed' = what /\ stage' = "error"
  /\ UNCHANGED <<index, dockerVars>>

\* create_gateway, as far as its address goes.
CreateGateway ==
  /\ backend = "DockerNat" /\ stage = "create" /\ index < size[1]
  /\ LET addr == GatewayAddress(Octet, index)
     IN  IF Debug /\ GatewayOverflows(index) THEN Refused("overflow")
         ELSE IF addr \in placed THEN Refused("address")
         ELSE /\ placed' = placed \union {addr}
              /\ index' = index + 1
              /\ UNCHANGED <<stage, nets, failed>>
  /\ UNCHANGED <<backend, size, base, localVars>>

MorePeers == index < size[1] + size[2]

\* create_peer with create_nat_network: the private network, then the router's address.
CreatePeer ==
  /\ backend = "DockerNat" /\ stage = "create" /\ index >= size[1] /\ MorePeers
  /\ LET addr == RouterAddress(Octet, index)
         net == PrivateNet(base, index)
     IN  IF net \in nets THEN Refused("pool")
         ELSE IF addr \in placed THEN Refused("address")
         ELSE /\ placed' = placed \union {addr} /\ nets' = nets \union {net}
              /\ index' = index + 1
              /\ UNCHANGED <<stage, failed>>
  /\ UNCHANGED <<backend, size, base, localVars>>

-----------------------------------------------------------------------------
StartInit ==
  /\ \/ backend = "Local" /\ stage = "ws" /\ size = <<0, LocalTotal>> /\ base = 1
     \/ backend = "DockerNat" /\ stage = "create" /\ size \in DockerSizes /\ base \in Bases
  /\ index = 0
  /\ ws_port = [i \in Locals |-> NoPort] /\ net_port = [i \in Locals |-> NoPort]
  /\ status = [i \in Locals |-> "none"]
  /\ sockets = {}
  /\ placed = Reserved(Octet) /\ nets = {}
  /\ failed = "no"

StartNext ==
  \/ ProbeWsPort \/ ProbeNetPort \/ Spawn
  \/ \E i \in Locals : NodeBinds(i) \/ NodeCannotBind(i)
  \/ \E proto \in {"udp", "tcp"}, addr \in OtherAddresses, port \in Ports : OtherBinds(proto, addr, port)
  \/ OtherCloses
  \/ CreateGateway \/ CreatePeer

StartSpec == StartInit /\ [][StartNext]_startVars

-----------------------------------------------------------------------------
\* Properties

\* The type invariant.
StartTypeOK ==
  /\ backend \in {"Local", "DockerNat"} /\ size \in Nat \X Nat
  /\ index \in 0..(size[1] + size[2])
  /\ stage \in {"ws", "net", "spawn", "create", "error"}
  /\ ws_port \in [Locals -> Ports \union {NoPort}] /\ net_port \in [Locals -> Ports \union {NoPort}]
  /\ status \in [Locals -> {"none", "starting", "running", "exited"}]
  /\ \A s \in sockets : s.proto \in {"udp", "tcp"} /\ s.port \in Ports /\ s.by \in Locals \union {Other}
  /\ failed \in {"no", "overflow", "address", "pool"}

\* Nodes are given ports that were looked for somewhere else, at 127.0.0.1, and two may be
\* given the same; all the same no node that binds finds its transport taken by another of its
\* own network, since each has an address of its own (builder.rs:358-363, peer.rs:83-87).  A
\* node of a second network, which has the same addresses, or another program may have taken it.
OwnTransportsApart ==
  \A i \in Locals : status[i] = "starting" =>
    \A s \in InTheWay(i) : s.proto = "udp" => s.by = Other

\* Every running node answers at its own url, and none at that of another that runs: the
\* port the url names is the one the node was told to bind (peer.rs:21, builder.rs:440-441).
\* Only the url of a node that has exited, or not started yet, can be another's.
RunningAnswersItsUrl ==
  \A i \in Locals : status[i] = "running" =>
    \E s \in sockets : s.by = i /\ Binders("tcp", Localhost, ws_port[i]) = {s}

\* Up to 246 gateways and 256 nodes no container is refused for its address, nor is there an
\* overflow: gateways, routers and private networks keep out of each other's way
\* (docker.rs:589-594, 627-632, 953-959).
RefusedBeyondBounds ==
  backend = "DockerNat" /\ failed # "no" => index >= 256 \/ (index >= 246 /\ index < size[1])
=============================================================================
