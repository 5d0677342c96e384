------------------------------ MODULE RingReport ------------------------------
(***************************************************************************)
(* What a network tells of its ring (src/network.rs): the diagnostics and  *)
(* the snapshots of the ring are collected from one node after the other,  *)
(* each by a WebSocket client of its own, while connections come and go;   *)
(* the metrics are computed from what was collected.                       *)
(* Locations are in hundredths of the ring.                                *)
(***************************************************************************)
EXTENDS Integers, FiniteSets, FiniteSetsExt

CONSTANTS
  Polled,        \* the nodes 1 .. Polled are asked in this order
  RingGateways,  \* those that are gateways
  LocationsSet,  \* assignments of locations considered
  Storing,       \* nodes that store the contract asked for
  Subscribed,    \* nodes that subscribe to it
  MaxChanges     \* bound of the changes of connections during one collection

Asked == 1..Polled
NoLocation == -1

ASSUME AskedAssumption ==
  /\ Polled \in Nat /\ MaxChanges \in Nat
  /\ RingGateways \subseteq Asked /\ Storing \subseteq Asked /\ Subscribed \subseteq Asked
ASSUME LocationsAssumption == LocationsSet \subseteq [Asked -> 0..99 \union {NoLocation}]

VARIABLES
  locations,  \* where each node is on the ring
  lists,      \* the connections of each node, as that node sees them
  changes,    \* changes of connections since the collection began
  op,         \* what is collected: "diagnostics", "ring" or "contract"
  asking,     \* the node being asked
  stage,      \* "idle", "connect", "send", "receive" or "ended"
  nodes,      \* what has been collected
  ok,         \* whether it is returned, or an error
  unanswered, \* history: the nodes that were asked and gave no answer
  told,       \* history: those that answered, and told of their connections
  abandoned,  \* history: the clients let go of without a Disconnect
  ever,       \* history: connections there were at some moment of the collection
  always      \* history: those there were at every moment

world == <<locations, lists, changes, ever, always>>
collection == <<op, asking, stage, nodes, ok, unanswered, told, abandoned>>
ringVars == <<world, collection>>

\* The id a node gives itself, and the label ("gw-0", "peer-1") the test gave it, which differ.
NodeId(p) == p
Label(p) == -p
Links(l) == {e \in Asked \X Asked : e[2] \in l[e[1]]}

-----------------------------------------------------------------------------
\* One node's list changes: a connection is known to its two ends at different moments.
ListChanges(p, q) ==
  /\ stage \notin {"idle", "ended"} /\ changes < MaxChanges
  /\ lists' = [lists EXCEPT ![p] = SymDiff(@, {q})]
  /\ changes' = changes + 1
  /\ ever' = ever \union Links(lists')
  /\ always' = always \intersect Links(lists')
  /\ UNCHANGED <<locations, collection>>

\* collect_diagnostics, or collect_ring_snapshot without or with a contract.
Collects(what) ==
  /\ stage = "idle"
  /\ op' = what
  /\ asking' = 1 /\ stage' = "connect"
  /\ UNCHANGED <<world, nodes, ok, unanswered, told, abandoned>>

Diagnosing == op = "diagnostics"

ToAsk == stage = "connect" /\ asking <= Polled

\* connect_async
Connects ==
  /\ ToAsk
  /\ stage' = "send"
  /\ UNCHANGED <<world, op, asking, nodes, ok, unanswered, told, abandoned>>

\* client.send
Sends ==
  /\ stage = "send"
  /\ stage' = "receive"
  /\ UNCHANGED <<world, op, asking, nodes, ok, unanswered, told, abandoned>>

\* PeerDiagnosticsSnapshot::new, with an error: no location, no connections.
FailedNode(p) ==
  [id |-> Label(p), is_gateway |-> p \in RingGateways, location |-> NoLocation,
   connections |-> {}, contract |-> {}]

\* A node that cannot be asked has an entry with an error in the diagnostics; a ring snapshot
\* is given up (`?`), and no other node asked.
Fails ==
  /\ IF Diagnosing
     THEN /\ nodes' = nodes \union {FailedNode(asking)}
          /\ asking' = asking + 1 /\ stage' = "connect" /\ UNCHANGED ok
     ELSE ok' = FALSE /\ stage' = "ended" /\ UNCHANGED <<asking, nodes>>
  /\ unanswered' = unanswered \union {asking}
  /\ UNCHANGED <<world, op, told>>

\* Dropped without graceful_disconnect.
Abandons == abandoned' = abandoned \union {asking}
Disconnects == UNCHANGED abandoned

\* Refused, or not within the limit.
ConnectFails ==
  /\ ToAsk
  /\ Fails /\ UNCHANGED abandoned

\* Mutant: the diagnostics, too, return at once.
EarlyReturn_Always == Abandons

\* A ring snapshot returns before it would disconnect.
EarlyReturn == IF Diagnosing THEN Disconnects ELSE Abandons

SendFails == stage = "send" /\ Fails /\ EarlyReturn

\* No response within the limit.
NoResponse == stage = "receive" /\ Fails /\ EarlyReturn

\* Another response, or an error.
WrongResponse == stage = "receive" /\ Fails /\ Disconnects

\* retain, sort, dedup: the others, each once.
Others(id, list) == list \ {id}

\* PeerContractStatus, if there is anything to say.
ContractStatus(p) ==
  IF op = "contract" /\ p \in Storing \union Subscribed
  THEN {[stores_contract |-> p \in Storing, subscribed_locally |-> p \in Subscribed]} ELSE {}

\* The parts of an answer that list connections; basic_status() asks for no details.
PartsAskedFor ==
  IF op = "ring" THEN {"network_info"} ELSE {"network_info", "connected_peers_detailed"}

\* ring_nodes_from_diagnostics looks at the first alone.
PartsLookedAt == IF Diagnosing THEN {"network_info"} ELSE PartsAskedFor

\* Mutant: no second look.
Connections_Detailed(detailed, network_info) == detailed

\* connected_peers_detailed, or the network_info's peers if that is empty.
Connections(detailed, network_info) == IF detailed = {} THEN network_info ELSE detailed

\* The node made of an answer, whose parts may be absent or empty.
AnsweredNode(p, id, location, parts) ==
  LET In(part) == IF part \in parts THEN lists[p] ELSE {}
      list == IF Diagnosing
              THEN In("network_info")
              ELSE Connections(In("connected_peers_detailed"), In("network_info"))
  IN  [id |-> id, is_gateway |-> p \in RingGateways, location |-> location,
       connections |-> Others(id, list), contract |-> ContractStatus(p)]

\* A response.
Responds ==
  /\ stage = "receive"
  /\ \E parts \in SUBSET PartsAskedFor :
       /\ nodes' = nodes \union {AnsweredNode(asking, NodeId(asking), locations[asking], parts)}
       /\ told' = told \union (IF parts \intersect PartsLookedAt = {} THEN {} ELSE {asking})
  /\ asking' = asking + 1 /\ stage' = "connect"
  /\ Disconnects
  /\ UNCHANGED <<world, op, ok, unanswered>>

\* A response without node_info: the diagnostics have the label and what else there is; a
\* ring snapshot is given up, and the client with it.
RespondsWithoutInfo ==
  /\ stage = "receive"
  /\ IF Diagnosing
     THEN /\ \E parts \in SUBSET PartsAskedFor :
               nodes' = nodes \union {AnsweredNode(asking, Label(asking), NoLocation, parts)}
          /\ asking' = asking + 1 /\ stage' = "connect"
          /\ UNCHANGED <<world, op, ok, unanswered, told, abandoned>>
     ELSE Fails /\ Abandons

\* Every node has been asked.
Collected ==
  /\ stage = "connect" /\ asking = Polled + 1
  /\ stage' = "ended"
  /\ UNCHANGED <<world, op, asking, nodes, ok, unanswered, told, abandoned>>

RingInit ==
  /\ locations \in LocationsSet
  /\ lists \in [Asked -> SUBSET Asked]
  /\ changes = 0
  /\ op = "diagnostics" /\ asking = 1 /\ stage = "idle"
  /\ nodes = {} /\ ok = TRUE
  /\ unanswered = {} /\ told = {} /\ abandoned = {}
  /\ ever = Links(lists) /\ always = Links(lists)

RingNext ==
  \/ \E p, q \in Asked : ListChanges(p, q)
  \/ \E what \in {"diagnostics", "ring", "contract"} : Collects(what)
  \/ Connects \/ ConnectFails \/ Sends \/ SendFails
  \/ NoResponse \/ WrongResponse \/ Responds \/ RespondsWithoutInfo
  \/ Collected

RingSpec == RingInit /\ [][RingNext]_ringVars

-----------------------------------------------------------------------------
\* compute_ring_metrics

\* An edge is the pair in the order of the ids, so that both its ends name the same.
Edge(n, c) == IF n.id < c THEN <<n.id, c>> ELSE <<c, n.id>>
UniqueEdges == UNION {{Edge(n, c) : c \in n.connections \ {n.id}} : n \in nodes}

\* total_degree, the lengths of all lists: as many as there are nodes with one of their connections.
Degrees == UNION {{n} \X n.connections : n \in nodes}
TotalDegree == Cardinality(Degrees)

LocationOf(id) ==
  IF \E n \in nodes : n.id = id THEN (CHOOSE n \in nodes : n.id = id).location ELSE NoLocation

\* The edges with a distance: both ends are among the nodes and have a location.
Measured == {e \in UniqueEdges : LocationOf(e[1]) # NoLocation /\ LocationOf(e[2]) # NoLocation}

Abs(x) == IF x < 0 THEN -x ELSE x

\* Mutant: the ring is taken for a line.
RingDistance_Line(a, b) == Abs(a - b)

\* The shorter way round.
RingDistance(a, b) == LET d == Abs(a - b) IN IF d > 50 THEN 100 - d ELSE d

Distance(e) == RingDistance(LocationOf(e[1]), LocationOf(e[2]))
UpTo(bound) == Cardinality({e \in Measured : Distance(e) <= bound})
Under(threshold) == Cardinality({e \in Measured : Distance(e) < threshold})

\* The counts of distance_histogram, its bounds 0.1 .. 0.5.
Histogram == [i \in 1..5 |-> UpTo(10 * i) - (IF i = 1 THEN 0 ELSE UpTo(10 * (i - 1)))]
ShortEdges == UpTo(10)
LongEdges == Cardinality({e \in Measured : Distance(e) > 10 /\ Distance(e) <= 50})

-----------------------------------------------------------------------------
\* Properties

\* The type invariant.
RingTypeOK ==
  /\ locations \in LocationsSet /\ lists \in [Asked -> SUBSET Asked]
  /\ changes \in 0..MaxChanges
  /\ op \in {"diagnostics", "ring", "contract"} /\ ok \in BOOLEAN
  /\ asking \in 1..(Polled + 1) /\ stage \in {"idle", "connect", "send", "receive", "ended"}
  /\ \A n \in nodes :
       /\ n.id \in {NodeId(p) : p \in Asked} \union {Label(p) : p \in Asked}
       /\ n.location \in 0..99 \union {NoLocation} /\ n.connections \subseteq Asked
  /\ unanswered \subseteq Asked /\ told \subseteq Asked /\ abandoned \subseteq Asked
  /\ always \subseteq ever /\ ever \subseteq Asked \X Asked

Returned == stage = "ended" /\ ok

\* Collecting leaves no client open on a node but at most one, that of the node at which a
\* snapshot of the ring was given up; the diagnostics, which ask the next node whatever has
\* happened, leave none (network.rs:343, 1021-1065).
OneClientAbandoned ==
  /\ Cardinality(abandoned) <= 1 /\ abandoned \subseteq unanswered
  /\ Diagnosing => abandoned = {}

\* The nodes were asked at different moments, so the ring is one that perhaps never was; but
\* every edge was a connection at some moment of the collection, whoever gave no answer.  And a
\* connection that both ends had all the time is an edge once one of them has told of its
\* connections, in whichever part of the answer that is looked at: connected_peers_detailed or
\* network_info, of which an answer may lack either (network.rs:364, 844, 1072-1090).
EdgesWereLinks ==
  Returned =>
    \A p, q \in Asked : p < q =>
      /\ <<p, q>> \in UniqueEdges => ever \intersect {<<p, q>>, <<q, p>>} # {}
      /\ {<<p, q>>, <<q, p>>} \subseteq always /\ {p, q} \intersect told # {} =>
           <<p, q>> \in UniqueEdges

\* The metrics add up.  An edge counts in the degree of one of its ends or of both, never more,
\* also when one end did not see the connection yet or gave no answer; and every edge between
\* located nodes is in one bucket of the histogram and either short or long, wherever its ends
\* are on the ring, across its origin too (network.rs:1139-1210).
MetricsAddUp ==
  Returned =>
    /\ TotalDegree \in Cardinality(UniqueEdges)..(2 * Cardinality(UniqueEdges))
    /\ Histogram[1] + Histogram[2] + Histogram[3] + Histogram[4] + Histogram[5] = Cardinality(Measured)
    /\ ShortEdges + LongEdges = Cardinality(Measured)
    /\ Under(5) <= Under(10) /\ Under(10) <= Histogram[1]
=============================================================================
