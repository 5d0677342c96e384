-------------------------- MODULE NetworkReportProofs --------------------------
(***************************************************************************)
(* What a network reports of itself, for any number of nodes and any       *)
(* bounds: the ring that is collected node by node and its metrics, the    *)
(* logs as they are read and shown, and the flow of a contract.            *)
(***************************************************************************)
EXTENDS MCNetworkReport, FiniteSetTheorems, SequenceTheorems, WellFoundedInduction, TLAPS

-----------------------------------------------------------------------------
\* The ring: collecting

Ids == {NodeId(p) : p \in Asked} \union {Label(p) : p \in Asked}
RingNode(n) ==
  n.id \in Ids /\ n.location \in 0..99 \union {NoLocation} /\ n.connections \subseteq Asked

RingTypes ==
  /\ locations \in LocationsSet /\ lists \in [Asked -> SUBSET Asked]
  /\ changes \in 0..MaxChanges
  /\ op \in {"diagnostics", "ring", "contract"} /\ ok \in BOOLEAN
  /\ asking \in 1..(Polled + 1) /\ stage \in {"idle", "connect", "send", "receive", "ended"}
  /\ \A n \in nodes : RingNode(n)
  /\ unanswered \subseteq Asked /\ told \subseteq Asked /\ abandoned \subseteq Asked
  /\ always \subseteq ever /\ ever \subseteq Asked \X Asked

\* Whoever is being asked is one of the nodes; nothing is collected before the beginning.
OneAsked ==
  /\ stage \in {"send", "receive"} => asking \in Asked
  /\ stage = "idle" => nodes = {}

\* What is collected is of the nodes asked so far, one entry of each, and no node is among its
\* own connections.
OneEach ==
  /\ IsFiniteSet(nodes)
  /\ \A n \in nodes : \E p \in Asked : p < asking /\ n.id \in {p, -p}
  /\ \A n, m \in nodes : n.id = m.id => n = m
  /\ \A n \in nodes : n.id \notin n.connections

\* A node says only what is so, and one that has told says all of it.
Seen ==
  /\ always \subseteq Links(lists) /\ Links(lists) \subseteq ever
  /\ \A n \in nodes : n.id \in Asked =>
       \A c \in n.connections : <<n.id, c>> \in ever
  /\ \A p \in told : \E n \in nodes :
       /\ n.id = p
       /\ \A c \in Asked \ {p} : <<p, c>> \in always => c \in n.connections

\* A client is abandoned only when the collection ends with it.
AtTheEnd ==
  /\ stage # "ended" => abandoned = {}
  /\ abandoned # {} => abandoned = {asking} /\ asking \in unanswered /\ ~Diagnosing

RingInv == RingTypes /\ OneAsked /\ OneEach /\ Seen /\ AtTheEnd

LEMMA RingInitInv == RingInit => RingInv
<1> SUFFICES ASSUME RingInit PROVE RingInv
  OBVIOUS
<1>1. RingTypes
  BY AskedAssumption DEF RingInit, RingTypes, Links
<1>2. OneAsked /\ AtTheEnd /\ Seen
  BY DEF RingInit, OneAsked, AtTheEnd, Seen
<1>3. OneEach
  BY FS_EmptySet DEF RingInit, OneEach
<1> QED
  BY <1>1, <1>2, <1>3 DEF RingInv

\* Entering one more node, that of whoever is asked.
LEMMA OneMore ==
  ASSUME OneEach, RingTypes, asking \in Asked, NEW n, n.id \in {asking, -asking},
         n.id \notin n.connections, nodes' = nodes \union {n}, asking' = asking + 1
  PROVE  OneEach'
<1>0. asking \in Nat /\ asking < asking' /\ \A p \in Asked : p \in Nat \ {0}
  BY AskedAssumption DEF Asked
<1>1. IsFiniteSet(nodes')
  BY FS_AddElement DEF OneEach
<1>2. ASSUME NEW m \in nodes' PROVE \E p \in Asked : p < asking' /\ m.id \in {p, -p}
  <2>1. CASE m = n
    BY <1>0, <2>1
  <2>2. CASE m \in nodes
    BY <1>0, <2>2 DEF OneEach
  <2> QED
    BY <2>1, <2>2
<1>3. \A m \in nodes : m.id # n.id
  BY <1>0 DEF OneEach
<1>4. \A l, m \in nodes' : l.id = m.id => l = m
  BY <1>3 DEF OneEach
<1>5. \A m \in nodes' : m.id \notin m.connections
  BY DEF OneEach
<1> QED
  BY <1>1, <1>2, <1>4, <1>5 DEF OneEach

\* The entries there may be.
LEMMA FailedEntry ==
  ASSUME NEW p \in Asked
  PROVE  /\ RingNode(FailedNode(p)) /\ FailedNode(p).id = -p /\ FailedNode(p).connections = {}
         /\ -p \notin Asked
<1>1. p \in Nat \ {0}
  BY AskedAssumption DEF Asked
<1>2. -p \notin Asked
  BY <1>1, AskedAssumption DEF Asked
<1> QED
  BY <1>1, <1>2 DEF FailedNode, RingNode, Ids, Label

LEMMA AnsweredEntry ==
  ASSUME RingTypes, NEW p \in Asked, NEW id \in {p, -p}, NEW location \in {locations[p], NoLocation},
         NEW parts \in SUBSET PartsAskedFor
  PROVE  LET n == AnsweredNode(p, id, location, parts)
         IN  /\ RingNode(n) /\ n.id = id /\ id \notin n.connections /\ n.connections \subseteq lists[p]
             /\ parts \intersect PartsLookedAt # {} => n.connections = lists[p] \ {id}
<1> DEFINE In(part) == IF part \in parts THEN lists[p] ELSE {}
           list == IF Diagnosing
                   THEN In("network_info")
                   ELSE Connections(In("connected_peers_detailed"), In("network_info"))
           n == AnsweredNode(p, id, location, parts)
<1>1. location \in 0..99 \union {NoLocation}
  BY LocationsAssumption DEF RingTypes
<1>2. n.id = id /\ n.location = location /\ n.connections = list \ {id}
  BY DEF AnsweredNode, Others
<1>3. list \subseteq lists[p] /\ lists[p] \subseteq Asked
  BY DEF RingTypes, Connections
<1>4. ASSUME parts \intersect PartsLookedAt # {} PROVE list = lists[p]
  <2>1. CASE Diagnosing
    <3>1. "network_info" \in parts
      BY <1>4, <2>1 DEF PartsLookedAt
    <3> QED
      BY <2>1, <3>1
  <2>2. CASE ~Diagnosing
    <3>1. "network_info" \in parts \/ "connected_peers_detailed" \in parts
      BY <1>4, <2>2 DEF PartsLookedAt, PartsAskedFor
    <3> QED
      BY <2>2, <3>1 DEF Connections
  <2> QED
    BY <2>1, <2>2
<1> HIDE DEF list, n
<1>5. n.id \in Ids
  BY <1>2 DEF Ids, NodeId, Label
<1>6. RingNode(n)
  BY <1>1, <1>2, <1>3, <1>5 DEF RingNode
<1> QED
  BY <1>2, <1>3, <1>4, <1>6 DEF n

\* The error of a node, in either of the two collections.
LEMMA FailsKeeps ==
  ASSUME RingInv, asking \in Asked, Fails, abandoned = {},
         abandoned' \in {{}, {asking}}, Diagnosing => abandoned' = {}
  PROVE  RingInv'
<1>0. RingTypes /\ OneEach /\ Seen
  BY DEF RingInv
<1>1. UNCHANGED <<locations, lists, changes, ever, always, op, told>>
  BY DEF Fails, world
<1>2. unanswered' = unanswered \union {asking}
  BY DEF Fails
<1>3. CASE Diagnosing
  <2>1. /\ nodes' = nodes \union {FailedNode(asking)} /\ asking' = asking + 1
        /\ stage' = "connect" /\ UNCHANGED ok
    BY <1>3 DEF Fails
  <2>2. asking' \in 1..(Polled + 1)
    BY <2>1, AskedAssumption DEF Asked
  <2>3. RingTypes'
    BY <1>0, <1>1, <1>2, <1>3, <2>1, <2>2, FailedEntry DEF RingTypes, RingNode
  <2>4. OneEach'
    BY <1>0, <2>1, FailedEntry, OneMore
  <2>5. Seen'
    BY <1>0, <1>1, <2>1, FailedEntry DEF Seen, Links
  <2>6. OneAsked' /\ AtTheEnd'
    BY <1>3, <2>1 DEF OneAsked, AtTheEnd
  <2> QED
    BY <2>3, <2>4, <2>5, <2>6 DEF RingInv
<1>4. CASE ~Diagnosing
  <2>1. ok' = FALSE /\ stage' = "ended" /\ UNCHANGED <<asking, nodes>>
    BY <1>4 DEF Fails
  <2>2. RingTypes'
    BY <1>0, <1>1, <1>2, <2>1 DEF RingTypes, RingNode
  <2>3. OneEach' /\ Seen'
    BY <1>0, <1>1, <2>1 DEF OneEach, Seen, Links
  <2>4. OneAsked' /\ AtTheEnd'
    BY <1>1, <1>2, <1>4, <2>1 DEF OneAsked, AtTheEnd, Diagnosing
  <2> QED
    BY <2>2, <2>3, <2>4 DEF RingInv
<1> QED
  BY <1>3, <1>4

LEMMA RingStep == ASSUME RingInv, [RingNext]_ringVars PROVE RingInv'
<1>0. RingTypes /\ OneAsked /\ OneEach /\ Seen /\ AtTheEnd
  BY DEF RingInv
<1>1. CASE UNCHANGED ringVars
  BY <1>1 DEF ringVars, world, collection, RingInv, RingTypes, RingNode, OneAsked, OneEach, Seen, AtTheEnd,
              Links, Diagnosing
<1>2. ASSUME NEW p \in Asked, NEW q \in Asked, ListChanges(p, q) PROVE RingInv'
  <2>1. /\ lists' = [lists EXCEPT ![p] = SymDiff(@, {q})] /\ changes' = changes + 1
        /\ ever' = ever \union Links(lists') /\ always' = always \intersect Links(lists')
        /\ changes < MaxChanges /\ UNCHANGED <<locations, collection>>
    BY <1>2 DEF ListChanges
  <2>2. lists' \in [Asked -> SUBSET Asked]
    BY <1>0, <2>1 DEF SymDiff, RingTypes
  <2>3. Links(lists') \subseteq Asked \X Asked
    BY DEF Links
  <2>7. changes' \in 0..MaxChanges
    BY <1>0, <2>1, AskedAssumption DEF RingTypes
  <2>8. always' \subseteq ever' /\ ever' \subseteq Asked \X Asked
    BY <1>0, <2>1, <2>3, Zenon DEF RingTypes
  <2>4. RingTypes'
    BY <1>0, <2>1, <2>2, <2>7, <2>8 DEF RingTypes, collection, RingNode
  <2>5. Seen'
    BY <1>0, <2>1 DEF Seen, collection
  <2>6. OneAsked' /\ OneEach' /\ AtTheEnd'
    BY <1>0, <2>1 DEF OneAsked, OneEach, AtTheEnd, collection, Diagnosing
  <2> QED
    BY <2>4, <2>5, <2>6 DEF RingInv
<1>3. ASSUME NEW what \in {"diagnostics", "ring", "contract"}, Collects(what) PROVE RingInv'
  <2>1. /\ stage = "idle" /\ op' = what /\ asking' = 1 /\ stage' = "connect"
        /\ UNCHANGED <<world, nodes, ok, unanswered, told, abandoned>>
    BY <1>3 DEF Collects
  <2>2. abandoned' = {}
    BY <1>0, <2>1 DEF AtTheEnd
  <2>3. RingTypes' /\ Seen' /\ OneAsked' /\ AtTheEnd'
    BY <1>0, <2>1, <2>2, AskedAssumption DEF RingTypes, RingNode, Seen, OneAsked, AtTheEnd, world, Links
  <2>4. OneEach'
    BY <1>0, <2>1, FS_EmptySet DEF OneAsked, OneEach
  <2> QED
    BY <2>3, <2>4 DEF RingInv
<1>4. CASE Connects \/ Sends \/ Collected
  <2>1. /\ stage' \in {"send", "receive", "ended"} /\ stage # "ended" /\ (stage' # "ended" => asking \in Asked)
        /\ UNCHANGED <<world, op, asking, nodes, ok, unanswered, told, abandoned>>
    BY <1>0, <1>4, AskedAssumption DEF Connects, Sends, Collected, ToAsk, OneAsked, RingTypes, Asked
  <2>2. RingTypes' /\ OneAsked' /\ OneEach' /\ Seen'
    BY <1>0, <2>1 DEF RingTypes, RingNode, OneAsked, OneEach, Seen, Links, world
  <2>3. AtTheEnd'
    BY <1>0, <2>1 DEF AtTheEnd, Diagnosing
  <2> QED
    BY <2>2, <2>3 DEF RingInv
<1>5. CASE ConnectFails \/ SendFails \/ NoResponse \/ WrongResponse
  <2>1. asking \in Asked /\ abandoned = {} /\ Fails
    BY <1>0, <1>5, AskedAssumption
       DEF ConnectFails, SendFails, NoResponse, WrongResponse, ToAsk, OneAsked, AtTheEnd, RingTypes, Asked
  <2>2. abandoned' \in {{}, {asking}} /\ (Diagnosing => abandoned' = {})
    BY <1>5, <2>1 DEF ConnectFails, SendFails, NoResponse, WrongResponse, EarlyReturn, Abandons, Disconnects
  <2> QED
    BY <2>1, <2>2, FailsKeeps
<1>6. CASE Responds
  <2>1. PICK parts \in SUBSET PartsAskedFor :
          /\ nodes' = nodes \union {AnsweredNode(asking, NodeId(asking), locations[asking], parts)}
          /\ told' = told \union (IF parts \intersect PartsLookedAt = {} THEN {} ELSE {asking})
    BY <1>6 DEF Responds
  <2>2. /\ stage = "receive" /\ asking' = asking + 1 /\ stage' = "connect" /\ UNCHANGED abandoned
        /\ UNCHANGED <<locations, lists, changes, ever, always, op, ok, unanswered>>
    BY <1>6 DEF Responds, Disconnects, world
  <2>3. asking \in Asked /\ abandoned' = {}
    BY <1>0, <2>2 DEF OneAsked, AtTheEnd
  <2> DEFINE n == AnsweredNode(asking, asking, locations[asking], parts)
  <2>4. /\ RingNode(n) /\ n.id = asking /\ asking \notin n.connections
        /\ n.connections \subseteq lists[asking]
        /\ parts \intersect PartsLookedAt # {} => n.connections = lists[asking] \ {asking}
    BY <1>0, <2>1, <2>3, AnsweredEntry
  <2> HIDE DEF n
  <2>5. nodes' = nodes \union {n}
    BY <2>1 DEF n, NodeId
  <2>6. asking' \in 1..(Polled + 1) /\ told' \subseteq Asked
    <3>1. told \subseteq Asked
      BY <1>0 DEF RingTypes
    <3> QED
      BY <2>1, <2>2, <2>3, <3>1, AskedAssumption DEF Asked
  <2>7. RingTypes'
    BY <1>0, <2>2, <2>3, <2>4, <2>5, <2>6 DEF RingTypes, RingNode
  <2>8. OneEach'
    BY <1>0, <2>2, <2>3, <2>4, <2>5, OneMore
  <2>9. Seen'
    <3>1. \A c \in n.connections : c \in Asked /\ <<n.id, c>> \in ever
      BY <1>0, <2>3, <2>4 DEF Seen, Links, RingTypes
    <3>2. ASSUME NEW p \in told'
          PROVE  \E m \in nodes' : /\ m.id = p
                                   /\ \A c \in Asked \ {p} : <<p, c>> \in always => c \in m.connections
      <4>1. CASE p \in told
        BY <1>0, <2>5, <4>1 DEF Seen
      <4>2. CASE p \notin told
        <5>1. p = asking /\ n.connections = lists[asking] \ {asking}
          BY <2>1, <2>4, <3>2, <4>2
        <5>2. \A c \in Asked : <<asking, c>> \in always => c \in lists[asking]
          BY <1>0 DEF Seen, Links
        <5> QED
          BY <2>4, <2>5, <5>1, <5>2
      <4> QED
        BY <4>1, <4>2
    <3> QED
      BY <1>0, <2>2, <2>5, <3>1, <3>2 DEF Seen, Links
  <2>10. OneAsked' /\ AtTheEnd'
    BY <2>2, <2>3 DEF OneAsked, AtTheEnd
  <2> QED
    BY <2>7, <2>8, <2>9, <2>10 DEF RingInv
<1>7. CASE RespondsWithoutInfo
  <2>1. stage = "receive" /\ asking \in Asked /\ abandoned = {}
    BY <1>0, <1>7 DEF RespondsWithoutInfo, OneAsked, AtTheEnd
  <2>2. CASE Diagnosing
    <3>0. PICK parts \in SUBSET PartsAskedFor :
            nodes' = nodes \union {AnsweredNode(asking, Label(asking), NoLocation, parts)}
      BY <1>7, <2>2 DEF RespondsWithoutInfo
    <3> DEFINE n == AnsweredNode(asking, -asking, NoLocation, parts)
    <3>1. /\ nodes' = nodes \union {n} /\ asking' = asking + 1 /\ stage' = "connect"
          /\ UNCHANGED <<locations, lists, changes, ever, always, op, ok, unanswered, told, abandoned>>
      BY <1>7, <2>2, <3>0 DEF RespondsWithoutInfo, world, Label
    <3>2. RingNode(n) /\ n.id = -asking /\ n.id \notin n.connections /\ n.id \notin Asked
      BY <1>0, <2>1, AnsweredEntry, FailedEntry
    <3> HIDE DEF n
    <3>3. asking' \in 1..(Polled + 1)
      BY <2>1, <3>1, AskedAssumption DEF Asked
    <3>4. RingTypes'
      BY <1>0, <2>1, <3>1, <3>2, <3>3 DEF RingTypes, RingNode
    <3>5. OneEach'
      BY <1>0, <2>1, <3>1, <3>2, OneMore
    <3>6. Seen'
      BY <1>0, <3>1, <3>2 DEF Seen, Links
    <3>7. OneAsked' /\ AtTheEnd'
      BY <2>1, <3>1 DEF OneAsked, AtTheEnd
    <3> QED
      BY <3>4, <3>5, <3>6, <3>7 DEF RingInv
  <2>3. CASE ~Diagnosing
    BY <1>7, <2>1, <2>3, FailsKeeps DEF RespondsWithoutInfo, Abandons
  <2> QED
    BY <2>2, <2>3
<1> QED
  BY <1>1, <1>2, <1>3, <1>4, <1>5, <1>6, <1>7 DEF RingNext

LEMMA RingInvariant == RingSpec => []RingInv
BY RingInitInv, RingStep, PTL DEF RingSpec

\* The type invariant of the ring, for any number of nodes and changes.
THEOREM RingTypeCorrect == RingSpec => []RingTypeOK
<1>1. RingInv => RingTypeOK
  BY DEF RingInv, RingTypes, RingNode, Ids, RingTypeOK
<1> QED
  BY RingInvariant, <1>1, PTL

\* However many nodes are asked and whichever fail how, at most one client is abandoned, and
\* none when diagnostics are collected.
THEOREM AtMostOneAbandoned == RingSpec => []OneClientAbandoned
<1>1. RingInv => OneClientAbandoned
  <2> SUFFICES ASSUME RingInv PROVE OneClientAbandoned
    OBVIOUS
  <2>1. \/ abandoned = {}
        \/ abandoned = {asking} /\ asking \in unanswered /\ ~Diagnosing
    BY DEF RingInv, AtTheEnd
  <2>2. CASE abandoned = {}
    BY <2>2, FS_EmptySet DEF OneClientAbandoned
  <2>3. CASE abandoned = {asking}
    <3>1. Cardinality(abandoned) = 1
      BY <2>3, FS_Singleton
    <3> QED
      BY <2>1, <2>3, <3>1 DEF OneClientAbandoned
  <2> QED
    BY <2>1, <2>2, <2>3
<1> QED
  BY RingInvariant, <1>1, PTL

\* Every edge was a connection while the ring was collected, and one that was there all the
\* time is an edge if one of its ends has told of it, however many nodes there are, connections
\* come and go, and answers lack parts.
THEOREM EdgesAreLinks == RingSpec => []EdgesWereLinks
<1>1. RingInv => EdgesWereLinks
  <2> SUFFICES ASSUME RingInv, NEW p \in Asked, NEW q \in Asked, p < q
               PROVE  /\ <<p, q>> \in UniqueEdges => ever \intersect {<<p, q>>, <<q, p>>} # {}
                      /\ {<<p, q>>, <<q, p>>} \subseteq always /\ {p, q} \intersect told # {} =>
                           <<p, q>> \in UniqueEdges
    BY DEF EdgesWereLinks
  <2>0. p \in Int /\ q \in Int
    BY AskedAssumption DEF Asked
  <2>1. ASSUME <<p, q>> \in UniqueEdges PROVE ever \intersect {<<p, q>>, <<q, p>>} # {}
    <3>1. PICK n \in nodes : \E c \in n.connections \ {n.id} : <<p, q>> = Edge(n, c)
      BY <2>1 DEF UniqueEdges
    <3>2. PICK c \in n.connections \ {n.id} : <<p, q>> = Edge(n, c)
      BY <3>1
    <3>3. (n.id = p /\ c = q) \/ (n.id = q /\ c = p)
      BY <3>2 DEF Edge
    <3>4. <<n.id, c>> \in ever
      BY <3>2, <3>3 DEF RingInv, Seen
    <3> QED
      BY <3>3, <3>4
  <2>2. ASSUME {<<p, q>>, <<q, p>>} \subseteq always, {p, q} \intersect told # {}
        PROVE  <<p, q>> \in UniqueEdges
    <3>1. CASE p \in told
      <4>1. PICK n \in nodes : n.id = p /\ q \in n.connections
        BY <2>0, <2>2, <3>1 DEF RingInv, Seen
      <4>2. Edge(n, q) = <<p, q>> /\ q \in n.connections \ {n.id}
        BY <2>0, <4>1 DEF Edge
      <4> QED
        BY <4>2 DEF UniqueEdges
    <3>2. CASE q \in told
      <4>1. PICK n \in nodes : n.id = q /\ p \in n.connections
        BY <2>0, <2>2, <3>2 DEF RingInv, Seen
      <4>2. Edge(n, p) = <<p, q>> /\ p \in n.connections \ {n.id}
        BY <2>0, <4>1 DEF Edge
      <4> QED
        BY <4>2 DEF UniqueEdges
    <3> QED
      BY <2>2, <3>1, <3>2
  <2> QED
    BY <2>1, <2>2
<1> QED
  BY RingInvariant, <1>1, PTL

-----------------------------------------------------------------------------
\* The ring: the metrics

\* A node with one of its connections has an edge of its own, up to which end it is: an edge is
\* counted at least once and at most twice.
LEMMA DegreesOfEdges ==
  ASSUME RingTypes, OneEach
  PROVE  /\ IsFiniteSet(UniqueEdges)
         /\ TotalDegree \in Cardinality(UniqueEdges)..(2 * Cardinality(UniqueEdges))
<1> DEFINE Side(d) == IF d[1].id < d[2] THEN 0 ELSE 1
           edge == [d \in Degrees |-> Edge(d[1], d[2])]
           half == [d \in Degrees |-> <<Edge(d[1], d[2]), Side(d)>>]
<1>1. \A d \in Degrees : d = <<d[1], d[2]>> /\ d[1] \in nodes /\ d[2] \in d[1].connections
  BY DEF Degrees
<1>2. Asked \subseteq Int /\ IsFiniteSet(Asked)
  BY AskedAssumption, FS_Interval DEF Asked
<1>3. \A d \in Degrees : d[1].id \in Int /\ d[2] \in Int /\ d[1].id # d[2]
  BY <1>1, <1>2 DEF RingTypes, RingNode, OneEach, Ids, NodeId, Label
<1>4. IsFiniteSet(Degrees)
  <2>1. Degrees \subseteq nodes \X Asked
    BY <1>1 DEF RingTypes, RingNode
  <2>2. IsFiniteSet(nodes \X Asked)
    BY <1>2, FS_Product DEF OneEach
  <2> QED
    BY <2>1, <2>2, FS_Subset
<1>5. \A d \in Degrees : Edge(d[1], d[2]) \in UniqueEdges
  BY <1>1, <1>3 DEF UniqueEdges
<1>6. edge \in Surjection(Degrees, UniqueEdges)
  <2>1. edge \in [Degrees -> UniqueEdges]
    BY <1>5
  <2>2. ASSUME NEW e \in UniqueEdges PROVE \E d \in Degrees : edge[d] = e
    <3>1. PICK n \in nodes : \E c \in n.connections \ {n.id} : e = Edge(n, c)
      BY DEF UniqueEdges
    <3>2. PICK c \in n.connections \ {n.id} : e = Edge(n, c)
      BY <3>1
    <3>3. <<n, c>> \in Degrees
      BY <3>2 DEF Degrees
    <3> QED
      BY <3>2, <3>3
  <2> QED
    BY <2>1, <2>2 DEF Surjection
<1>7. IsFiniteSet(UniqueEdges) /\ Cardinality(UniqueEdges) <= Cardinality(Degrees)
  BY <1>4, <1>6, FS_Surjection
<1>8. half \in Injection(Degrees, UniqueEdges \X (0..1))
  <2>1. half \in [Degrees -> UniqueEdges \X (0..1)]
    BY <1>5
  <2>2. ASSUME NEW d \in Degrees, NEW x \in Degrees, half[d] = half[x] PROVE d = x
    <3>1. Edge(d[1], d[2]) = Edge(x[1], x[2]) /\ Side(d) = Side(x)
      BY <2>2
    <3>2. d[1].id = x[1].id /\ d[2] = x[2]
      <4>1. CASE d[1].id < d[2]
        BY <3>1, <4>1, <1>3 DEF Edge
      <4>2. CASE ~(d[1].id < d[2])
        BY <3>1, <4>2, <1>3 DEF Edge
      <4> QED
        BY <4>1, <4>2
    <3>3. d[1] = x[1]
      BY <1>1, <3>2 DEF OneEach
    <3> QED
      BY <1>1, <3>2, <3>3
  <2> QED
    BY <2>1, <2>2 DEF Injection, IsInjective
<1>9. /\ IsFiniteSet(UniqueEdges \X (0..1))
      /\ Cardinality(UniqueEdges \X (0..1)) = 2 * Cardinality(UniqueEdges)
  <2>1. IsFiniteSet(0..1) /\ Cardinality(0..1) = 2
    <3>1. IsFiniteSet({0}) /\ Cardinality({0}) = 1
      BY FS_Singleton
    <3>2. 0..1 = {0} \cup {1} /\ 1 \notin {0}
      OBVIOUS
    <3>3. IsFiniteSet({0} \cup {1}) /\ Cardinality({0} \cup {1}) = Cardinality({0}) + 1
      BY <3>1, <3>2, FS_AddElement
    <3> QED
      BY <3>1, <3>2, <3>3
  <2>2. Cardinality(UniqueEdges) \in Nat
    BY <1>7, FS_CardinalityType
  <2> QED
    BY <1>7, <2>1, <2>2, FS_Product
<1>10. Cardinality(Degrees) <= 2 * Cardinality(UniqueEdges)
  BY <1>8, <1>9, FS_Injection
<1>11. Cardinality(Degrees) \in Nat /\ Cardinality(UniqueEdges) \in Nat
  BY <1>4, <1>7, FS_CardinalityType
<1> QED
  BY <1>7, <1>10, <1>11 DEF TotalDegree

\* Wherever they are, two located nodes are at most half the ring apart.
LEMMA DistancesOnTheRing ==
  ASSUME RingTypes, NEW e \in Measured
  PROVE  Distance(e) \in 0..50
<1>1. ASSUME NEW id, LocationOf(id) # NoLocation PROVE LocationOf(id) \in 0..99
  BY <1>1 DEF LocationOf, RingTypes, RingNode
<1>2. LocationOf(e[1]) \in 0..99 /\ LocationOf(e[2]) \in 0..99
  BY <1>1 DEF Measured
<1>3. \A a, b \in 0..99 : RingDistance(a, b) \in 0..50
  BY DEF RingDistance, Abs
<1> QED
  BY <1>2, <1>3 DEF Distance

\* The measured edges up to a distance.
LEMMA EdgesUpTo ==
  ASSUME IsFiniteSet(Measured), NEW b
  PROVE  UpTo(b) \in Nat
<1>1. {e \in Measured : Distance(e) <= b} \in SUBSET Measured
  OBVIOUS
<1> QED
  BY <1>1, FS_Subset, FS_CardinalityType DEF UpTo

\* The metrics add up, whatever was collected of however many nodes.
THEOREM MetricsAreConsistent == RingSpec => []MetricsAddUp
<1>1. RingInv => MetricsAddUp
  <2> SUFFICES ASSUME RingInv PROVE MetricsAddUp
    OBVIOUS
  <2>0. RingTypes /\ OneEach
    BY DEF RingInv
  <2>1. /\ IsFiniteSet(UniqueEdges)
        /\ TotalDegree \in Cardinality(UniqueEdges)..(2 * Cardinality(UniqueEdges))
    BY <2>0, DegreesOfEdges
  <2>2. IsFiniteSet(Measured)
    <3>1. Measured \in SUBSET UniqueEdges
      BY DEF Measured
    <3> QED
      BY <2>1, <3>1, FS_Subset
  <2>3. \A e \in Measured : Distance(e) \in 0..50
    BY <2>0, DistancesOnTheRing
  <2>4. UpTo(50) = Cardinality(Measured)
    <3>1. {e \in Measured : Distance(e) <= 50} = Measured
      BY <2>3
    <3> QED
      BY <3>1 DEF UpTo
  <2>5. Histogram[1] + Histogram[2] + Histogram[3] + Histogram[4] + Histogram[5] = Cardinality(Measured)
    <3>1. UpTo(10) \in Nat /\ UpTo(20) \in Nat /\ UpTo(30) \in Nat /\ UpTo(40) \in Nat /\ UpTo(50) \in Nat
      BY <2>2, EdgesUpTo
    <3>2. /\ 10 * 1 = 10 /\ 10 * 2 = 20 /\ 10 * 3 = 30 /\ 10 * 4 = 40 /\ 10 * 5 = 50
          /\ 10 * (2 - 1) = 10 /\ 10 * (3 - 1) = 20 /\ 10 * (4 - 1) = 30 /\ 10 * (5 - 1) = 40
      OBVIOUS
    <3>3. /\ Histogram[1] = UpTo(10 * 1) - 0 /\ Histogram[2] = UpTo(10 * 2) - UpTo(10 * (2 - 1))
          /\ Histogram[3] = UpTo(10 * 3) - UpTo(10 * (3 - 1))
          /\ Histogram[4] = UpTo(10 * 4) - UpTo(10 * (4 - 1))
          /\ Histogram[5] = UpTo(10 * 5) - UpTo(10 * (5 - 1))
      BY DEF Histogram
    <3>4. /\ Histogram[1] = UpTo(10) - 0 /\ Histogram[2] = UpTo(20) - UpTo(10)
          /\ Histogram[3] = UpTo(30) - UpTo(20) /\ Histogram[4] = UpTo(40) - UpTo(30)
          /\ Histogram[5] = UpTo(50) - UpTo(40)
      BY <3>2, <3>3
    <3> QED
      BY <2>4, <3>1, <3>4
  <2>6. ShortEdges + LongEdges = Cardinality(Measured)
    <3> DEFINE short == {e \in Measured : Distance(e) <= 10}
               long == {e \in Measured : Distance(e) > 10 /\ Distance(e) <= 50}
    <3>1. short \in SUBSET Measured /\ long \in SUBSET Measured
      OBVIOUS
    <3>2. IsFiniteSet(short) /\ IsFiniteSet(long)
      BY <2>2, <3>1, FS_Subset
    <3>3. short \cup long = Measured /\ short \cap long = {}
      BY <2>3
    <3>4. Cardinality(short) \in Nat /\ Cardinality(long) \in Nat
      BY <3>2, FS_CardinalityType
    <3>5. ShortEdges = Cardinality(short) /\ LongEdges = Cardinality(long)
      BY DEF ShortEdges, LongEdges, UpTo
    <3> HIDE DEF short, long
    <3>6. Cardinality(short \cup long) = Cardinality(short) + Cardinality(long) - Cardinality(short \cap long)
      BY <3>2, FS_Union
    <3>7. Cardinality(short \cap long) = 0
      BY <3>3, FS_EmptySet
    <3>8. Cardinality(short \cup long) = Cardinality(Measured)
      BY <3>3, Zenon
    <3> QED
      BY <3>4, <3>5, <3>6, <3>7, <3>8
  <2>7. Under(5) <= Under(10) /\ Under(10) <= Histogram[1]
    <3>1. /\ {e \in Measured : Distance(e) < 5} \subseteq {e \in Measured : Distance(e) < 10}
          /\ {e \in Measured : Distance(e) < 10} \subseteq {e \in Measured : Distance(e) <= 10}
          /\ {e \in Measured : Distance(e) <= 10} \subseteq Measured
      BY <2>3
    <3>2. Under(5) <= Under(10) /\ Under(10) <= UpTo(10)
      BY <2>2, <3>1, FS_Subset DEF Under, UpTo
    <3>3. Histogram[1] = UpTo(10 * 1) - 0 /\ 10 * 1 = 10
      BY DEF Histogram
    <3>4. UpTo(10) \in Nat
      BY <2>2, EdgesUpTo
    <3> QED
      BY <3>2, <3>3, <3>4
  <2> QED
    BY <2>1, <2>5, <2>6, <2>7 DEF MetricsAddUp
<1> QED
  BY RingInvariant, <1>1, PTL

-----------------------------------------------------------------------------
\* Induction, over the places of a sequence

Precedes == {p \in Nat \X Nat : p[1] < p[2]}

LEMMA PrecedesWellFounded == IsWellFoundedOn(Precedes, Nat)
BY NatLessThanWellFounded DEF OpToRel, Precedes

\* A set of numbers with 0 and with the next of each of them has them all.
LEMMA Induction ==
  ASSUME NEW T \in SUBSET Nat, 0 \in T, \A n \in T : n + 1 \in T
  PROVE  T = Nat
<1> SUFFICES ASSUME Nat \ T # {} PROVE FALSE
  OBVIOUS
<1>1. PICK x \in Nat \ T : \A y \in Nat \ T : <<y, x>> \notin Precedes
  BY PrecedesWellFounded, WFMin
<1>2. x # 0 /\ x - 1 \in Nat /\ <<x - 1, x>> \in Precedes
  BY DEF Precedes
<1>3. x - 1 \in T
  BY <1>1, <1>2
<1> QED
  BY <1>1, <1>2, <1>3

-----------------------------------------------------------------------------
\* Sorting

StrictTotal(n, O) ==
  /\ \A i \in 1..n : <<i, i>> \notin O
  /\ \A i, j, k \in 1..n : <<i, j>> \in O /\ <<j, k>> \in O => <<i, k>> \in O
  /\ \A i, j \in 1..n : i = j \/ <<i, j>> \in O \/ <<j, i>> \in O

\* Whoever counts those before it in a strict total order gets a pos of its own.
LEMMA Places ==
  ASSUME NEW n \in Nat, NEW O, StrictTotal(n, O),
         NEW pos, pos = [i \in 1..n |-> 1 + Cardinality({j \in 1..n : <<j, i>> \in O})]
  PROVE  /\ pos \in Bijection(1..n, 1..n)
         /\ \A i, j \in 1..n : pos[i] < pos[j] <=> <<i, j>> \in O
<1> DEFINE B(i) == {j \in 1..n : <<j, i>> \in O}
<1>1. IsFiniteSet(1..n) /\ Cardinality(1..n) = n
  BY FS_Interval
<1>2. \A i \in 1..n : IsFiniteSet(B(i)) /\ Cardinality(B(i)) \in Nat
  BY <1>1, FS_Subset, FS_CardinalityType
<1>3. ASSUME NEW i \in 1..n, NEW j \in 1..n, <<i, j>> \in O PROVE Cardinality(B(i)) + 1 <= Cardinality(B(j))
  <2>1. i \notin B(i) /\ B(i) \cup {i} \subseteq B(j)
    BY <1>3 DEF StrictTotal
  <2>2. IsFiniteSet(B(i)) /\ IsFiniteSet(B(j))
    BY <1>2
  <2> HIDE DEF B
  <2>3. Cardinality(B(i) \cup {i}) = Cardinality(B(i)) + 1
    BY <2>1, <2>2, FS_AddElement
  <2>4. Cardinality(B(i) \cup {i}) <= Cardinality(B(j))
    BY <2>1, <2>2, FS_Subset
  <2> QED
    BY <2>3, <2>4
<1>4. ASSUME NEW i \in 1..n PROVE Cardinality(B(i)) < n
  <2>1. B(i) \in SUBSET (1..n) /\ B(i) # 1..n
    BY DEF StrictTotal
  <2>2. Cardinality(B(i)) <= Cardinality(1..n) /\ (Cardinality(1..n) = Cardinality(B(i)) => 1..n = B(i))
    BY <1>1, <2>1, FS_Subset
  <2>3. Cardinality(B(i)) \in Nat /\ Cardinality(B(i)) <= n /\ Cardinality(B(i)) # n
    BY <1>1, <1>2, <2>1, <2>2
  <2> QED
    BY <2>3
<1>5. \A i \in 1..n : pos[i] = 1 + Cardinality(B(i)) /\ Cardinality(B(i)) \in Nat /\ Cardinality(B(i)) < n
  BY <1>2, <1>4
<1> HIDE DEF B
<1>6. \A i, j \in 1..n : pos[i] < pos[j] <=> <<i, j>> \in O
  <2> TAKE i, j \in 1..n
  <2>1. CASE <<i, j>> \in O
    BY <1>3, <1>5, <2>1
  <2>2. CASE <<j, i>> \in O
    <3>1. <<i, j>> \notin O
      BY <2>2 DEF StrictTotal
    <3>2. pos[j] < pos[i]
      BY <1>3, <1>5, <2>2
    <3>3. pos[i] \in Int /\ pos[j] \in Int
      BY <1>5
    <3> QED
      BY <3>1, <3>2, <3>3
  <2>3. CASE i = j
    BY <1>5, <2>3 DEF StrictTotal
  <2> QED
    BY <2>1, <2>2, <2>3 DEF StrictTotal
<1>7. pos \in Injection(1..n, 1..n)
  <2>1. pos \in [1..n -> 1..n]
    <3>1. \A i \in 1..n : pos[i] \in 1..n
      BY <1>5
    <3> QED
      BY <3>1
  <2>2. ASSUME NEW i \in 1..n, NEW j \in 1..n, pos[i] = pos[j] PROVE i = j
    <3>1. pos[i] \in Int /\ ~(pos[i] < pos[j]) /\ ~(pos[j] < pos[i])
      BY <1>5, <2>2
    <3> QED
      BY <1>6, <3>1 DEF StrictTotal
  <2> QED
    BY <2>1, <2>2 DEF Injection, IsInjective
<1>8. pos \in Surjection(1..n, 1..n)
  BY <1>1, <1>7, FS_Injection
<1> QED
  BY <1>6, <1>7, <1>8 DEF Bijection

\* A stable sort puts every element in one pos, and none before one it should follow.
LEMMA SortedFrom ==
  ASSUME NEW S, NEW s \in Seq(S), NEW less,
         StrictTotal(Len(s), {ij \in (1..Len(s)) \X (1..Len(s)) : InPlace(less, ij[1], ij[2])})
  PROVE  \E from \in Bijection(1..Len(s), 1..Len(s)) :
           /\ StableSort(s, less) = [k \in 1..Len(s) |-> s[from[k]]]
           /\ \A k, l \in 1..Len(s) : k < l => InPlace(less, from[k], from[l])
<1> DEFINE n == Len(s)
           O == {ij \in (1..n) \X (1..n) : InPlace(less, ij[1], ij[2])}
           pos == [i \in 1..n |-> 1 + Cardinality({j \in 1..n : <<j, i>> \in O})]
           from == [k \in 1..n |-> CHOOSE i \in 1..n : pos[i] = k]
<1>1. n \in Nat /\ DOMAIN s = 1..n
  BY LenProperties
<1>2. \A i, j \in 1..n : <<i, j>> \in O <=> InPlace(less, i, j)
  OBVIOUS
<1> HIDE DEF O
<1>3. /\ pos \in Bijection(1..n, 1..n)
      /\ \A i, j \in 1..n : pos[i] < pos[j] <=> <<i, j>> \in O
  <2>1. StrictTotal(n, O)
    BY DEF O
  <2> QED
    BY <1>1, <2>1, Places
<1>4. \A i \in 1..n : pos[i] = 1 + Cardinality({j \in DOMAIN s : InPlace(less, j, i)})
  <2> TAKE i \in 1..n
  <2>1. {j \in 1..n : <<j, i>> \in O} = {j \in DOMAIN s : InPlace(less, j, i)}
    BY <1>1, <1>2
  <2> QED
    BY <2>1
<1> HIDE DEF pos
<1>5. StableSort(s, less) = [k \in 1..n |-> s[from[k]]]
  <2> DEFINE Place(i) == 1 + Cardinality({j \in DOMAIN s : InPlace(less, j, i)})
  <2>0. \A i \in 1..n : pos[i] = Place(i)
    BY <1>4
  <2>1. StableSort(s, less) = [k \in DOMAIN s |-> s[CHOOSE i \in DOMAIN s : Place(i) = k]]
    BY DEF StableSort
  <2> HIDE DEF Place
  <2>2. \A k \in 1..n : (CHOOSE i \in DOMAIN s : Place(i) = k) = from[k]
    <3> TAKE k \in 1..n
    <3>1. \A i : (i \in DOMAIN s /\ Place(i) = k) <=> (i \in 1..n /\ pos[i] = k)
      BY <1>1, <2>0
    <3>2. (CHOOSE i \in DOMAIN s : Place(i) = k) = CHOOSE i \in 1..n : pos[i] = k
      BY <3>1, Zenon
    <3> QED
      BY <3>2
  <2> QED
    BY <1>1, <2>1, <2>2
<1>6. \A k \in 1..n : from[k] \in 1..n /\ pos[from[k]] = k
  BY <1>3 DEF Bijection, Surjection
<1>7. \A i \in 1..n : pos[i] \in 1..n /\ from[pos[i]] = i
  <2>1. \A i \in 1..n : pos[i] \in 1..n
    BY <1>3 DEF Bijection, Injection
  <2>2. \A i, j \in 1..n : pos[i] = pos[j] => i = j
    BY <1>3 DEF Bijection, Injection, IsInjective
  <2> QED
    BY <1>6, <2>1, <2>2
<1> HIDE DEF from
<1>8. from \in Bijection(1..n, 1..n)
  <2>1. from \in [1..n -> 1..n]
    BY <1>6 DEF from
  <2>2. \A k, l \in 1..n : from[k] = from[l] => k = l
    BY <1>6
  <2>3. \A i \in 1..n : \E k \in 1..n : from[k] = i
    BY <1>7
  <2> QED
    BY <2>1, <2>2, <2>3 DEF Bijection, Injection, Surjection, IsInjective
<1>9. \A k, l \in 1..n : k < l => InPlace(less, from[k], from[l])
  BY <1>2, <1>3, <1>6
<1> QED
  BY <1>5, <1>8, <1>9

\* A comparison that tells apart classes of equal elements gives, with their places, a strict
\* total order.
LEMMA StableOrder ==
  ASSUME NEW n \in Nat, NEW less,
         \A i, j \in 1..n : <<i, j>> \in less => <<j, i>> \notin less,
         \A i, j, k \in 1..n : <<i, k>> \in less => <<i, j>> \in less \/ <<j, k>> \in less
  PROVE  StrictTotal(n, {ij \in (1..n) \X (1..n) : InPlace(less, ij[1], ij[2])})
<1> DEFINE O == {ij \in (1..n) \X (1..n) : InPlace(less, ij[1], ij[2])}
<1>1. \A i, j \in 1..n : <<i, j>> \in O <=> InPlace(less, i, j)
  OBVIOUS
<1> HIDE DEF O
<1>2. \A i \in 1..n : ~InPlace(less, i, i)
  BY DEF InPlace
<1>3. \A i, j \in 1..n : i = j \/ InPlace(less, i, j) \/ InPlace(less, j, i)
  <2> TAKE i, j \in 1..n
  <2>1. i < j \/ i = j \/ j < i
    OBVIOUS
  <2> QED
    BY <2>1 DEF InPlace
<1>4. ASSUME NEW i \in 1..n, NEW j \in 1..n, NEW k \in 1..n, InPlace(less, i, j), InPlace(less, j, k)
      PROVE  InPlace(less, i, k)
  <2>1. CASE <<i, j>> \in less
    <3>1. <<i, k>> \in less \/ <<k, j>> \in less
      BY <2>1
    <3> QED
      BY <1>4, <3>1 DEF InPlace
  <2>2. CASE <<j, k>> \in less
    <3>1. <<j, i>> \in less \/ <<i, k>> \in less
      BY <2>2
    <3> QED
      BY <1>4, <3>1 DEF InPlace
  <2>3. CASE <<i, j>> \notin less /\ <<j, k>> \notin less
    <3>1. i < j /\ j < k /\ <<j, i>> \notin less /\ <<k, j>> \notin less
      BY <1>4, <2>3 DEF InPlace
    <3>2. <<k, i>> \notin less /\ i < k
      BY <3>1
    <3> QED
      BY <3>2 DEF InPlace
  <2> QED
    BY <2>1, <2>2, <2>3
<1> QED
  BY <1>1, <1>2, <1>3, <1>4 DEF StrictTotal, O

-----------------------------------------------------------------------------
\* Entries

AllLines == UNION {LogLines(p) : p \in LogPeers}
Entry == [peer_id : LogPeers \X {0, 1}, timestamp : 0..MaxTime, message : Seq(AllLines)]

\* The two comparisons are weak orders.
LEMMA ComparisonsOrder ==
  ASSUME NEW a \in Entry, NEW b \in Entry, NEW c \in Entry
  PROVE  /\ Before(a, b) => ~Before(b, a)
         /\ Before(a, c) => Before(a, b) \/ Before(b, c)
         /\ BeforeInDump(a, b) => ~BeforeInDump(b, a)
         /\ BeforeInDump(a, c) => BeforeInDump(a, b) \/ BeforeInDump(b, c)
<1>1. \A e \in Entry : e.timestamp \in Int /\ e.peer_id[1] \in Int /\ e.peer_id[2] \in Int
  BY LogPeersAssumption, LogBoundsAssumption DEF Entry, LogPeers
<1>2. /\ a.timestamp \in Int /\ a.peer_id[1] \in Int /\ a.peer_id[2] \in Int
      /\ b.timestamp \in Int /\ b.peer_id[1] \in Int /\ b.peer_id[2] \in Int
      /\ c.timestamp \in Int /\ c.peer_id[1] \in Int /\ c.peer_id[2] \in Int
  BY <1>1
<1>3. Before(a, b) => ~Before(b, a)
  BY <1>2 DEF Before, NoTime
<1>4. Before(a, c) => Before(a, b) \/ Before(b, c)
  BY <1>2 DEF Before, NoTime
<1>5. BeforeInDump(a, b) => ~BeforeInDump(b, a)
  BY <1>2 DEF BeforeInDump, NoTime
<1>6. BeforeInDump(a, c) => BeforeInDump(a, b) \/ BeforeInDump(b, c)
  BY <1>2 DEF BeforeInDump, NoTime
<1> QED
  BY <1>3, <1>4, <1>5, <1>6

\* read_logs sorts: the sorted entries are the entries, each once; none is before one that
\* compares as less, and equal ones are in the order they were in.
LEMMA EntriesSorted ==
  ASSUME NEW s \in Seq(Entry)
  PROVE  \E from \in Bijection(1..Len(s), 1..Len(s)) :
           /\ StableSort(s, Less(s)) = [k \in 1..Len(s) |-> s[from[k]]]
           /\ \A k, l \in 1..Len(s) : k < l =>
                \/ Before(s[from[k]], s[from[l]])
                \/ ~Before(s[from[l]], s[from[k]]) /\ from[k] < from[l]
<1> DEFINE n == Len(s)
<1>1. n \in Nat /\ s \in [1..n -> Entry] /\ DOMAIN s = 1..n
  BY LenProperties
<1>2. \A i, j \in 1..n : <<i, j>> \in Less(s) <=> Before(s[i], s[j])
  BY <1>1 DEF Less
<1>3. \A i, j \in 1..n : <<i, j>> \in Less(s) => <<j, i>> \notin Less(s)
  BY <1>1, <1>2, ComparisonsOrder
<1>4. \A i, j, k \in 1..n : <<i, k>> \in Less(s) => <<i, j>> \in Less(s) \/ <<j, k>> \in Less(s)
  BY <1>1, <1>2, ComparisonsOrder
<1>5. StrictTotal(n, {ij \in (1..n) \X (1..n) : InPlace(Less(s), ij[1], ij[2])})
  BY <1>1, <1>3, <1>4, StableOrder
<1>6. PICK from \in Bijection(1..n, 1..n) :
           /\ StableSort(s, Less(s)) = [k \in 1..n |-> s[from[k]]]
           /\ \A k, l \in 1..n : k < l => InPlace(Less(s), from[k], from[l])
  BY <1>5, SortedFrom
<1>7. \A k \in 1..n : from[k] \in 1..n
  BY DEF Bijection, Injection
<1>8. \A k, l \in 1..n : k < l =>
                \/ Before(s[from[k]], s[from[l]])
                \/ ~Before(s[from[l]], s[from[k]]) /\ from[k] < from[l]
  BY <1>2, <1>6, <1>7 DEF InPlace
<1> QED
  BY <1>6, <1>8

\* Sorting by the comparison of the dumps leaves entries that are sorted already as they are.
LEMMA SortedInDump ==
  ASSUME NEW s \in Seq(Entry),
         \A i, j \in 1..Len(s) : i < j => ~BeforeInDump(s[j], s[i])
  PROVE  StableSort(s, LessInDump(s)) = s
<1> DEFINE n == Len(s)
<1>1. n \in Nat /\ s \in [1..n -> Entry] /\ DOMAIN s = 1..n
  BY LenProperties
<1>2. \A i, j \in 1..n : InPlace(LessInDump(s), j, i) <=> j < i
  <2>1. \A i, j \in 1..n : <<i, j>> \in LessInDump(s) <=> BeforeInDump(s[i], s[j])
    BY <1>1 DEF LessInDump
  <2>2. \A i \in 1..n : ~BeforeInDump(s[i], s[i])
    BY <1>1, ComparisonsOrder
  <2> TAKE i, j \in 1..n
  <2>3. i < j \/ i = j \/ j < i
    OBVIOUS
  <2>4. /\ i < j => <<j, i>> \notin LessInDump(s)
        /\ j < i => <<i, j>> \notin LessInDump(s)
        /\ i = j => <<i, j>> \notin LessInDump(s)
    BY <2>1, <2>2
  <2> QED
    BY <2>3, <2>4 DEF InPlace
<1> DEFINE Place(i) == 1 + Cardinality({j \in DOMAIN s : InPlace(LessInDump(s), j, i)})
<1>3. \A i \in 1..n : Place(i) = i
  <2> TAKE i \in 1..n
  <2>1. {j \in DOMAIN s : InPlace(LessInDump(s), j, i)} = 1..(i - 1)
    BY <1>1, <1>2
  <2>2. i - 1 \in Int /\ 1 \in Int
    OBVIOUS
  <2>3. Cardinality(1..(i - 1)) = IF 1 > i - 1 THEN 0 ELSE (i - 1) - 1 + 1
    BY <2>2, FS_Interval
  <2>4. Cardinality(1..(i - 1)) = i - 1
    BY <2>3
  <2>5. Cardinality({j \in DOMAIN s : InPlace(LessInDump(s), j, i)}) = i - 1
    BY <2>1, <2>4, Zenon
  <2> QED
    BY <2>5
<1>4. StableSort(s, LessInDump(s)) = [k \in DOMAIN s |-> s[CHOOSE i \in DOMAIN s : Place(i) = k]]
  BY DEF StableSort
<1> HIDE DEF Place
<1>5. \A k \in DOMAIN s : (CHOOSE i \in DOMAIN s : Place(i) = k) = k
  BY <1>1, <1>3
<1> QED
  BY <1>1, <1>4, <1>5

-----------------------------------------------------------------------------
\* Reading a file

\* AddFile goes through the lines one by one.
Adds(p, peer_id, file, acc, added) ==
  /\ added[0] = acc
  /\ \A n \in 0..(Len(file) - 1) :
       added[n + 1] = AddLine(added[n], ParseLine(p, peer_id, file[n + 1]))
  /\ AddFile(p, peer_id, file, acc) = added[Len(file)]

LEMMA AddFileSteps ==
  ASSUME NEW p, NEW peer_id, NEW file, NEW acc, Len(file) \in Nat
  PROVE  \E added : Adds(p, peer_id, file, acc, added)
<1> DEFINE After(x, n) == AddLine(x, ParseLine(p, peer_id, file[n]))
           IsRun(g, m) == g = [n \in 0..m |-> IF n = 0 THEN acc ELSE After(g[n - 1], n)]
           T == {m \in Nat : \E g : IsRun(g, m)}
           added == CHOOSE g : IsRun(g, Len(file))
<1>1. AddFile(p, peer_id, file, acc) = added[Len(file)]
  BY DEF AddFile
<1> HIDE DEF After
<1>2. 0 \in T
  <2>1. IsRun([n \in 0..0 |-> acc], 0)
    OBVIOUS
  <2> QED
    BY <2>1
<1>3. ASSUME NEW m \in T PROVE m + 1 \in T
  <2>1. PICK g : IsRun(g, m)
    OBVIOUS
  <2> DEFINE h == [n \in 0..(m + 1) |-> IF n <= m THEN g[n] ELSE After(g[m], m + 1)]
  <2>2. \A n \in 0..m : g[n] = IF n = 0 THEN acc ELSE After(g[n - 1], n)
    BY <2>1
  <2>3. \A n \in 0..(m + 1) : h[n] = IF n = 0 THEN acc ELSE After(h[n - 1], n)
    <3> TAKE n \in 0..(m + 1)
    <3>1. CASE n = 0
      BY <2>2, <3>1
    <3>2. CASE n \in 1..m
      BY <2>2, <3>2
    <3>3. CASE n = m + 1
      BY <3>3
    <3> QED
      BY <3>1, <3>2, <3>3
  <2>4. IsRun(h, m + 1)
    BY <2>3
  <2> HIDE DEF h, IsRun
  <2> QED
    BY <2>4
<1>4. T = Nat
  BY <1>2, <1>3, Induction
<1>5. IsRun(added, Len(file))
  BY <1>4
<1>6. \A n \in 0..Len(file) : added[n] = IF n = 0 THEN acc ELSE After(added[n - 1], n)
  BY <1>5
<1> HIDE DEF added
<1>7. \A n \in 0..(Len(file) - 1) : added[n + 1] = After(added[n], n + 1)
  <2> TAKE n \in 0..(Len(file) - 1)
  <2>1. n + 1 \in 0..Len(file) /\ n + 1 # 0 /\ (n + 1) - 1 = n
    OBVIOUS
  <2> QED
    BY <1>6, <2>1
<1>8. added[0] = acc
  BY <1>6
<1>9. Adds(p, peer_id, file, acc, added)
  BY <1>1, <1>7, <1>8 DEF After, Adds
<1> QED
  BY <1>9

IsFile(p, file) == file \in Seq(LogLines(p)) /\ \A n \in 1..Len(file) : file[n].id = <<p, n>>

\* A line with a time is at the head of an entry, and the time is the entry's.
Headed(e) ==
  \A k \in 1..Len(e.message) :
    Stamped(e.message[k].id[1], e.message[k]) => k = 1 /\ e.timestamp = e.message[k].at

LEMMA LinesOfEntry ==
  ASSUME NEW e \in Entry
  PROVE  /\ e.message \in Seq(AllLines) /\ Len(e.message) \in Nat
         /\ DOMAIN e.message = 1..Len(e.message)
         /\ MessageLines(e) = {e.message[i] : i \in 1..Len(e.message)}
         /\ MessageLines(e) \subseteq AllLines
<1>1. e.message \in Seq(AllLines)
  BY DEF Entry
<1>2. /\ Len(e.message) \in Nat /\ DOMAIN e.message = 1..Len(e.message)
      /\ e.message \in [1..Len(e.message) -> AllLines]
  BY <1>1, LenProperties
<1> QED
  BY <1>1, <1>2 DEF MessageLines

\* A parsed line has a time just if it is stamped.
LEMMA Parsed ==
  ASSUME NEW p \in LogPeers, NEW id \in LogPeers \X {0, 1}, NEW l \in LogLines(p), l.id[1] = p
  PROVE  LET e == ParseLine(p, id, l) IN
         /\ e \in Entry /\ e.peer_id = id
         /\ e.timestamp = NoTime <=> ~Stamped(p, l)
         /\ e.message = IF l.line.blank THEN <<>> ELSE <<l>>
         /\ MessageLines(e) = IF l.line.blank THEN {} ELSE {l}
         /\ Headed(e)
<1> DEFINE e == ParseLine(p, id, l)
<1>1. /\ e.peer_id = id /\ e.timestamp = (IF Stamped(p, l) THEN l.at ELSE NoTime)
      /\ e.message = IF l.line.blank THEN <<>> ELSE <<l>>
      /\ e = [peer_id |-> e.peer_id, timestamp |-> e.timestamp, message |-> e.message]
  BY DEF ParseLine
<1>2. l \in AllLines /\ l.at \in 1..MaxTime
  BY DEF AllLines, LogLines
<1>3. e.message \in Seq(AllLines)
  BY <1>1, <1>2
<1>4. e.timestamp \in 0..MaxTime /\ (e.timestamp = NoTime <=> ~Stamped(p, l))
  BY <1>1, <1>2, LogBoundsAssumption DEF NoTime
<1>5. e \in Entry
  BY <1>1, <1>3, <1>4 DEF Entry
<1>6. MessageLines(e) = IF l.line.blank THEN {} ELSE {l}
  BY <1>1 DEF MessageLines
<1>7. Headed(e)
  BY <1>1 DEF Headed
<1> QED
  BY <1>1, <1>4, <1>5, <1>6, <1>7

\* One sequence is two others, one after the other.
Joined(s, t, u) ==
  /\ Len(u) = Len(s) + Len(t)
  /\ \A i \in 1..Len(s) : u[i] = s[i]
  /\ \A i \in 1..Len(t) : u[Len(s) + i] = t[i]
  /\ \A k \in 1..Len(u) : \/ k \in 1..Len(s) /\ u[k] = s[k]
                          \/ \E i \in 1..Len(t) : k = Len(s) + i /\ u[k] = t[i]
  /\ {u[i] : i \in 1..Len(u)} = {s[i] : i \in 1..Len(s)} \union {t[i] : i \in 1..Len(t)}

LEMMA ConcatElements ==
  ASSUME NEW S, NEW s \in Seq(S), NEW t \in Seq(S), NEW u, u = s \o t
  PROVE  Joined(s, t, u)
<1>1. PICK m \in Nat : m = Len(s)
  BY LenProperties
<1>2. PICK n \in Nat : n = Len(t)
  BY LenProperties
<1>3. Len(u) = m + n /\ \A i \in 1..(m + n) : u[i] = IF i <= m THEN s[i] ELSE t[i - m]
  BY <1>1, <1>2, ConcatProperties
<1>4. \A i \in 1..m : u[i] = s[i]
  BY <1>3
<1>5. ASSUME NEW i \in 1..n PROVE u[m + i] = t[i]
  <2>1. m + i \in 1..(m + n) /\ ~(m + i <= m) /\ (m + i) - m = i
    OBVIOUS
  <2> QED
    BY <1>3, <2>1
<1>6. ASSUME NEW k \in 1..(m + n)
      PROVE  \/ k \in 1..m /\ u[k] = s[k]
             \/ \E i \in 1..n : k = m + i /\ u[k] = t[i]
  <2>1. CASE k <= m
    BY <1>3, <2>1
  <2>2. CASE ~(k <= m)
    <3>1. k - m \in 1..n /\ k = m + (k - m)
      BY <2>2
    <3>2. u[k] = t[k - m]
      BY <1>3, <2>2
    <3> QED
      BY <3>1, <3>2
  <2> QED
    BY <2>1, <2>2
<1>7. {u[i] : i \in 1..(m + n)} = {s[i] : i \in 1..m} \union {t[i] : i \in 1..n}
  <2>1. ASSUME NEW i \in 1..m PROVE i \in 1..(m + n)
    OBVIOUS
  <2>2. ASSUME NEW i \in 1..n PROVE m + i \in 1..(m + n)
    OBVIOUS
  <2>3. \A k \in 1..(m + n) : u[k] \in {s[i] : i \in 1..m} \union {t[i] : i \in 1..n}
    BY <1>6
  <2>4. \A i \in 1..m : s[i] \in {u[k] : k \in 1..(m + n)}
    BY <1>4, <2>1
  <2>5. \A i \in 1..n : t[i] \in {u[k] : k \in 1..(m + n)}
    BY <1>5, <2>2
  <2> QED
    BY <2>3, <2>4, <2>5, Zenon
<1> QED
  BY <1>1, <1>2, <1>3, <1>4, <1>5, <1>6, <1>7 DEF Joined

\* One more line: an entry of its own, or a part of the last one.
AddsOne(p, id, l, a, r) ==
  /\ r \in Seq(Entry) /\ Len(r) >= 1 /\ Len(r) \in {Len(a), Len(a) + 1}
  /\ \A i \in 1..Len(r) : Headed(r[i])
  /\ \A i \in 1..Len(a) : i < Len(r) => r[i] = a[i]
  /\ Len(r) = Len(a) => /\ ~Stamped(p, l)
                        /\ r[Len(r)].peer_id = a[Len(r)].peer_id
                        /\ r[Len(r)].timestamp = a[Len(r)].timestamp
                        /\ MessageLines(r[Len(r)]) =
                             MessageLines(a[Len(r)]) \union (IF l.line.blank THEN {} ELSE {l})
  /\ Len(r) = Len(a) + 1 => /\ r[Len(r)].peer_id = id
                            /\ MessageLines(r[Len(r)]) = IF l.line.blank THEN {} ELSE {l}

LEMMA OneLine ==
  ASSUME NEW p \in LogPeers, NEW id \in LogPeers \X {0, 1}, NEW l \in LogLines(p), l.id[1] = p,
         NEW a \in Seq(Entry), \A i \in 1..Len(a) : Headed(a[i]),
         NEW r, r = AddLine(a, ParseLine(p, id, l))
  PROVE  AddsOne(p, id, l, a, r)
<1> DEFINE e == ParseLine(p, id, l)
           n == Len(a)
<1>1. /\ e \in Entry /\ e.peer_id = id
      /\ e.timestamp = NoTime <=> ~Stamped(p, l)
      /\ e.message = IF l.line.blank THEN <<>> ELSE <<l>>
      /\ MessageLines(e) = IF l.line.blank THEN {} ELSE {l}
      /\ Headed(e)
  BY Parsed
<1>0. n \in Nat
  BY LenProperties
<1>2. a \in [1..n -> Entry]
  BY LenProperties
<1> HIDE DEF e
<1>3. CASE e.timestamp # NoTime \/ a = <<>>
  <2>1. r = Append(a, e)
    BY <1>3 DEF AddLine, e
  <2>2. r \in Seq(Entry) /\ \A i \in 1..n : r[i] = a[i]
    BY <1>1, <2>1
  <2>7. Len(r) = n + 1 /\ r[n + 1] = e
    BY <1>1, <2>1
  <2>3. \A i \in 1..Len(r) : Headed(r[i])
    BY <1>0, <1>1, <2>2, <2>7
  <2>4. Len(r) >= 1 /\ Len(r) \in {Len(a), Len(a) + 1} /\ Len(r) # Len(a)
    BY <1>0, <2>7
  <2>5. r[Len(r)] = e
    BY <2>7
  <2>6. r[Len(r)].peer_id = id /\ MessageLines(r[Len(r)]) = IF l.line.blank THEN {} ELSE {l}
    BY <1>1, <2>5
  <2> QED
    BY <2>2, <2>3, <2>4, <2>6 DEF AddsOne
<1>4. CASE e.timestamp = NoTime /\ a # <<>>
  <2>0. n >= 1 /\ n \in 1..n
    BY <1>0, <1>4, EmptySeq
  <2>1. r = [a EXCEPT ![n].message = @ \o e.message]
    BY <1>4 DEF AddLine, e
  <2> DEFINE x == a[n]
             y == [x EXCEPT !.message = @ \o e.message]
  <2>2. x \in Entry /\ Headed(x)
    BY <1>2, <2>0
  <2>3. /\ x.message \in Seq(AllLines) /\ e.message \in Seq(AllLines)
        /\ x.message \o e.message \in Seq(AllLines)
    BY <1>1, <2>2, LinesOfEntry, ConcatProperties
  <2>4. /\ y \in Entry /\ y.message = x.message \o e.message
        /\ y.peer_id = x.peer_id /\ y.timestamp = x.timestamp
    BY <2>2, <2>3 DEF Entry
  <2>16. r = [a EXCEPT ![n] = y]
    BY <2>1
  <2>22. y.message = x.message \o e.message
    BY <2>4
  <2> HIDE DEF y, x
  <2>5. r \in Seq(Entry) /\ Len(r) = n /\ \A j \in 1..n : r[j] = IF j = n THEN y ELSE a[j]
    BY <2>0, <2>4, <2>16, ExceptSeq
  <2>7. MessageLines(y) = MessageLines(x) \union (IF l.line.blank THEN {} ELSE {l})
    <3>0. Joined(x.message, e.message, y.message)
      BY <2>3, <2>22, ConcatElements
    <3>1. {y.message[i] : i \in 1..Len(y.message)} =
            {x.message[i] : i \in 1..Len(x.message)} \union {e.message[i] : i \in 1..Len(e.message)}
      BY <3>0 DEF Joined
    <3>2. MessageLines(y) = {y.message[i] : i \in 1..Len(y.message)}
      BY <2>4, LinesOfEntry, Zenon
    <3>3. MessageLines(x) = {x.message[i] : i \in 1..Len(x.message)}
      BY <2>2, LinesOfEntry, Zenon
    <3>4. MessageLines(e) = {e.message[i] : i \in 1..Len(e.message)}
      BY <1>1, LinesOfEntry, Zenon
    <3>5. MessageLines(y) = MessageLines(x) \union MessageLines(e)
      BY <3>1, <3>2, <3>3, <3>4, Zenon
    <3> QED
      BY <1>1, <3>5
  <2>8. Headed(y)
    <3>0. ~Stamped(p, l)
      BY <1>1, <1>4
    <3> SUFFICES ASSUME NEW k \in 1..Len(y.message), Stamped(y.message[k].id[1], y.message[k])
                 PROVE  k = 1 /\ y.timestamp = y.message[k].at
      BY DEF Headed
    <3>1. \/ k \in 1..Len(x.message) /\ y.message[k] = x.message[k]
          \/ \E i \in 1..Len(e.message) : y.message[k] = e.message[i]
      <4>1. Joined(x.message, e.message, y.message)
        BY <2>3, <2>22, ConcatElements
      <4> QED
        BY <4>1 DEF Joined
    <3>2. CASE k \in 1..Len(x.message) /\ y.message[k] = x.message[k]
      BY <2>2, <2>4, <3>2 DEF Headed
    <3>3. CASE \E i \in 1..Len(e.message) : y.message[k] = e.message[i]
      <4>1. y.message[k] \in MessageLines(e)
        BY <1>1, <3>3, LinesOfEntry
      <4> QED
        BY <1>1, <3>0, <4>1
    <3> QED
      BY <3>1, <3>2, <3>3
  <2>9. \A i \in 1..Len(r) : Headed(r[i])
    BY <2>5, <2>8
  <2>20. Len(r) = n
    BY <2>5
  <2>10. Len(r) >= 1 /\ Len(r) \in {Len(a), Len(a) + 1} /\ Len(r) # Len(a) + 1
    BY <1>0, <2>0, <2>20
  <2>11. r[Len(r)] = y /\ a[Len(r)] = x
    BY <2>0, <2>5 DEF x
  <2>21. \A i \in 1..Len(a) : i < Len(r) => r[i] = a[i]
    BY <1>0, <2>5
  <2>12. /\ r[Len(r)].peer_id = a[Len(r)].peer_id /\ r[Len(r)].timestamp = a[Len(r)].timestamp
         /\ MessageLines(r[Len(r)]) = MessageLines(a[Len(r)]) \union (IF l.line.blank THEN {} ELSE {l})
    BY <2>4, <2>7, <2>11
  <2>13. ~Stamped(p, l)
    BY <1>1, <1>4
  <2> QED
    BY <2>5, <2>9, <2>10, <2>12, <2>13, <2>21 DEF AddsOne
<1> QED
  BY <1>3, <1>4

\* What there is after n lines of a file have been added to the entries acc, in parts: the
\* entries there were, with perhaps more in the last of them; ...
Kept(id, acc, a) ==
  /\ \A i \in 1..Len(acc) : /\ a[i].peer_id = acc[i].peer_id
                            /\ MessageLines(acc[i]) \subseteq MessageLines(a[i])
  /\ \A i \in 1..Len(a) : i > Len(acc) => a[i].peer_id = id

\* ... no other lines than theirs and those of the file, which are glued to an entry that was
\* there only up to the first with a time; ...
Origin(p, file, acc, n, a) ==
  /\ \A i \in 1..Len(a) : \A l \in MessageLines(a[i]) :
       \/ i <= Len(acc) /\ l \in MessageLines(acc[i])
       \/ /\ i >= Len(acc)
          /\ \E k \in 1..n : /\ l = file[k] /\ ~l.line.blank
                             /\ i = Len(acc) => \A j \in 1..k : ~Stamped(p, file[j])
  /\ Len(a) = Len(acc) => \A j \in 1..n : ~Stamped(p, file[j])

\* ... each of the file's lines; ...
Arrived(file, n, a) ==
  \A k \in 1..n : ~file[k].line.blank => \E i \in 1..Len(a) : file[k] \in MessageLines(a[i])

\* ... and these in their order.
FileOrder(file, n, a) ==
  \A k, m \in 1..n : \A i, j \in 1..Len(a) :
    i < j /\ file[k] \in MessageLines(a[i]) /\ file[m] \in MessageLines(a[j]) => k < m

Grown(p, id, file, acc, n, a) ==
  /\ a \in Seq(Entry) /\ Len(a) >= Len(acc) /\ (n > 0 => Len(a) >= 1)
  /\ \A i \in 1..Len(a) : Headed(a[i])
  /\ Kept(id, acc, a) /\ Origin(p, file, acc, n, a) /\ Arrived(file, n, a) /\ FileOrder(file, n, a)

\* No line of the peer is in the entries yet.
Apart(p, acc) == \A i \in 1..Len(acc) : \A l \in MessageLines(acc[i]) : l.id[1] # p

LEMMA GrownFromNothing ==
  ASSUME NEW p, NEW id, NEW file, NEW acc \in Seq(Entry), \A i \in 1..Len(acc) : Headed(acc[i])
  PROVE  Grown(p, id, file, acc, 0, acc)
<1>1. Len(acc) \in Nat
  BY LenProperties
<1>2. Kept(id, acc, acc) /\ Origin(p, file, acc, 0, acc)
  BY <1>1 DEF Kept, Origin
<1>3. Arrived(file, 0, acc) /\ FileOrder(file, 0, acc)
  BY DEF Arrived, FileOrder
<1> QED
  BY <1>1, <1>2, <1>3 DEF Grown

LEMMA GrownByOne ==
  ASSUME NEW p \in LogPeers, NEW id \in LogPeers \X {0, 1}, NEW file, IsFile(p, file),
         NEW acc \in Seq(Entry), Apart(p, acc),
         NEW n \in 0..(Len(file) - 1), NEW a, Grown(p, id, file, acc, n, a),
         NEW r, r = AddLine(a, ParseLine(p, id, file[n + 1]))
  PROVE  Grown(p, id, file, acc, n + 1, r)
<1> DEFINE l == file[n + 1]
<1>1. /\ Len(file) \in Nat /\ n + 1 \in 1..Len(file) /\ l \in LogLines(p)
      /\ \A k \in 1..Len(file) : file[k].id = <<p, k>>
  BY LenProperties, ElementOfSeq DEF IsFile
<1>2. l.id = <<p, n + 1>>
  BY <1>1
<1>3. /\ a \in Seq(Entry) /\ Len(a) \in Nat /\ Len(acc) \in Nat /\ Len(a) >= Len(acc)
      /\ \A i \in 1..Len(a) : Headed(a[i])
  BY LenProperties DEF Grown
<1>14. AddsOne(p, id, l, a, r)
  BY <1>1, <1>2, <1>3, OneLine
<1>4. /\ r \in Seq(Entry) /\ Len(r) >= 1 /\ Len(r) \in {Len(a), Len(a) + 1}
      /\ \A i \in 1..Len(r) : Headed(r[i])
      /\ \A i \in 1..Len(a) : i < Len(r) => r[i] = a[i]
  BY <1>14 DEF AddsOne
<1>5. Len(r) = Len(a) => /\ ~Stamped(p, l)
                         /\ r[Len(r)].peer_id = a[Len(r)].peer_id
                         /\ MessageLines(r[Len(r)]) =
                              MessageLines(a[Len(r)]) \union (IF l.line.blank THEN {} ELSE {l})
  BY <1>14 DEF AddsOne
<1>6. Len(r) = Len(a) + 1 => /\ r[Len(r)].peer_id = id
                             /\ MessageLines(r[Len(r)]) = IF l.line.blank THEN {} ELSE {l}
  BY <1>14 DEF AddsOne
<1> HIDE DEF l
\* Where an entry of r comes from.
<1>7. \A i \in 1..Len(r) :
        /\ i \in 1..Len(a) => /\ MessageLines(a[i]) \subseteq MessageLines(r[i])
                              /\ r[i].peer_id = a[i].peer_id
        /\ i \notin 1..Len(a) => i = Len(r) /\ Len(r) = Len(a) + 1
        /\ \A x \in MessageLines(r[i]) :
             \/ i \in 1..Len(a) /\ x \in MessageLines(a[i])
             \/ i = Len(r) /\ x = l /\ ~l.line.blank
  <2> TAKE i \in 1..Len(r)
  <2>1. CASE i < Len(r)
    <3>1. i \in 1..Len(a)
      BY <1>3, <1>4, <2>1
    <3> QED
      BY <1>4, <2>1, <3>1
  <2>2. CASE i = Len(r) /\ Len(r) = Len(a)
    BY <1>3, <1>5, <2>2
  <2>3. CASE i = Len(r) /\ Len(r) = Len(a) + 1
    BY <1>3, <1>6, <2>3
  <2> QED
    BY <1>3, <1>4, <2>1, <2>2, <2>3
<1>8. ~l.line.blank => l \in MessageLines(r[Len(r)])
  BY <1>4, <1>5, <1>6
<1>9. 1..Len(a) \subseteq 1..Len(r) /\ 1..Len(acc) \subseteq 1..Len(a) /\ Len(r) >= Len(acc)
  BY <1>3, <1>4
<1>10. Kept(id, acc, r)
  BY <1>6, <1>7, <1>9, <1>3 DEF Grown, Kept
<1>11. Origin(p, file, acc, n + 1, r)
  <2>1. ASSUME Len(r) = Len(acc) PROVE \A j \in 1..(n + 1) : ~Stamped(p, file[j])
    <3>1. Len(a) = Len(acc) /\ Len(r) = Len(a)
      BY <1>3, <1>4, <2>1
    <3>2. \A j \in 1..n : ~Stamped(p, file[j])
      BY <3>1 DEF Grown, Origin
    <3>3. ~Stamped(p, file[n + 1])
      BY <1>5, <3>1 DEF l
    <3> QED
      BY <3>2, <3>3
  <2>2. ASSUME NEW i \in 1..Len(r), NEW x \in MessageLines(r[i])
        PROVE  \/ i <= Len(acc) /\ x \in MessageLines(acc[i])
               \/ /\ i >= Len(acc)
                  /\ \E k \in 1..(n + 1) : /\ x = file[k] /\ ~x.line.blank
                                           /\ i = Len(acc) => \A j \in 1..k : ~Stamped(p, file[j])
    <3>1. CASE i \in 1..Len(a) /\ x \in MessageLines(a[i])
      <4>1. 1..n \subseteq 1..(n + 1)
        OBVIOUS
      <4> QED
        BY <3>1, <4>1 DEF Grown, Origin
    <3>2. CASE i = Len(r) /\ x = l /\ ~l.line.blank
      <4>1. i >= Len(acc) /\ n + 1 \in 1..(n + 1)
        BY <1>9, <3>2
      <4>2. x = file[n + 1] /\ ~x.line.blank
        BY <3>2 DEF l
      <4>3. i = Len(acc) => \A j \in 1..(n + 1) : ~Stamped(p, file[j])
        BY <2>1, <3>2
      <4> QED
        BY <4>1, <4>2, <4>3
    <3> QED
      BY <1>7, <3>1, <3>2
  <2> QED
    BY <2>1, <2>2 DEF Origin
<1>12. Arrived(file, n + 1, r)
  <2> SUFFICES ASSUME NEW k \in 1..(n + 1), ~file[k].line.blank
               PROVE  \E i \in 1..Len(r) : file[k] \in MessageLines(r[i])
    BY DEF Arrived
  <2>1. CASE k = n + 1
    <3>1. Len(r) \in 1..Len(r)
      BY <1>3, <1>4
    <3> QED
      BY <1>8, <2>1, <3>1 DEF l
  <2>2. CASE k \in 1..n
    <3>1. PICK i \in 1..Len(a) : file[k] \in MessageLines(a[i])
      BY <2>2 DEF Grown, Arrived
    <3> QED
      BY <1>7, <1>9, <3>1
  <2> QED
    BY <2>1, <2>2
<1>13. FileOrder(file, n + 1, r)
  <2> SUFFICES ASSUME NEW k \in 1..(n + 1), NEW m \in 1..(n + 1),
                      NEW i \in 1..Len(r), NEW j \in 1..Len(r), i < j,
                      file[k] \in MessageLines(r[i]), file[m] \in MessageLines(r[j])
               PROVE  k < m
    BY DEF FileOrder
  <2>1. \A x \in 1..(n + 1) : file[x] = l => x = n + 1
    BY <1>1, <1>2
  <2>8. Len(r) \in Nat
    BY <1>3, <1>4
  <2>9. i # Len(r)
    BY <2>8
  <2>2. i # Len(r) /\ i \in 1..Len(a) /\ file[k] \in MessageLines(a[i])
    <3>1. i \in 1..Len(a)
      BY <1>7, <2>9
    <3>2. file[k] \in MessageLines(a[i])
      BY <1>7, <2>9
    <3> QED
      BY <2>9, <3>1, <3>2
  \* A line in an entry of a is one of the first n.
  <2>3. k # n + 1
    <3>1. \/ i <= Len(acc) /\ file[k] \in MessageLines(acc[i])
          \/ \E x \in 1..n : file[k] = file[x]
      <4>1. Origin(p, file, acc, n, a)
        BY DEF Grown
      <4> QED
        BY <2>2, <4>1 DEF Origin
    <3>2. CASE i <= Len(acc) /\ file[k] \in MessageLines(acc[i])
      <4>1. file[k].id[1] # p
        BY <3>2 DEF Apart
      <4> QED
        BY <1>1, <4>1
    <3>3. CASE \E x \in 1..n : file[k] = file[x]
      <4>1. PICK x \in 1..n : file[k] = file[x]
        BY <3>3
      <4>2. file[k].id = <<p, k>> /\ file[x].id = <<p, x>>
        BY <1>1
      <4> QED
        BY <4>1, <4>2
    <3> QED
      BY <3>1, <3>2, <3>3
  <2>4. CASE m = n + 1
    BY <2>3, <2>4
  <2>5. CASE m # n + 1
    <3>0. file[m] # l
      BY <2>1, <2>5
    <3>1. j \in 1..Len(a) /\ file[m] \in MessageLines(a[j])
      BY <1>7, <3>0
    <3>2. k \in 1..n /\ m \in 1..n
      BY <2>3, <2>5
    <3> QED
      BY <2>2, <3>1, <3>2 DEF Grown, FileOrder
  <2> QED
    BY <2>4, <2>5
<1> QED
  BY <1>4, <1>9, <1>10, <1>11, <1>12, <1>13 DEF Grown

\* A file that is read adds its lines.
LEMMA FileAdded ==
  ASSUME NEW p \in LogPeers, NEW id \in LogPeers \X {0, 1}, NEW file, IsFile(p, file),
         NEW acc \in Seq(Entry), Apart(p, acc), \A i \in 1..Len(acc) : Headed(acc[i])
  PROVE  Grown(p, id, file, acc, Len(file), AddFile(p, id, file, acc))
<1>1. Len(file) \in Nat
  BY LenProperties DEF IsFile
<1>7. PICK added : Adds(p, id, file, acc, added)
  BY <1>1, AddFileSteps
<1>2. /\ added[0] = acc
      /\ \A n \in 0..(Len(file) - 1) :
           added[n + 1] = AddLine(added[n], ParseLine(p, id, file[n + 1]))
      /\ AddFile(p, id, file, acc) = added[Len(file)]
  BY <1>7 DEF Adds
<1> DEFINE T == {n \in Nat : n <= Len(file) => Grown(p, id, file, acc, n, added[n])}
<1>3. 0 \in T
  BY <1>2, GrownFromNothing
<1>4. ASSUME NEW n \in T PROVE n + 1 \in T
  <2>1. CASE n + 1 <= Len(file)
    <3>1. n \in 0..(Len(file) - 1) /\ Grown(p, id, file, acc, n, added[n])
      BY <1>1, <2>1
    <3>2. Grown(p, id, file, acc, n + 1, added[n + 1])
      BY <1>2, <3>1, GrownByOne
    <3> QED
      BY <3>2
  <2>2. CASE ~(n + 1 <= Len(file))
    BY <2>2
  <2> QED
    BY <2>1, <2>2
<1>5. T = Nat
  BY <1>3, <1>4, Induction
<1>6. Grown(p, id, file, acc, Len(file), added[Len(file)])
  BY <1>1, <1>5
<1> QED
  BY <1>2, <1>6

-----------------------------------------------------------------------------
\* Reading the logs

\* A file holds the first lines of a log.
PartOf(p, file) ==
  IsFile(p, file) /\ Len(file) <= Len(log[p]) /\ \A n \in 1..Len(file) : file[n] = log[p][n]

Written ==
  /\ place \in Placements
  /\ log \in [LogPeers -> Seq(AllLines)] /\ cache \in [LogPeers -> Seq(AllLines)]
  /\ \A p \in LogPeers : IsFile(p, log[p]) /\ Len(log[p]) <= MaxLines /\ PartOf(p, cache[p])

Reader ==
  /\ reading \in 0..Finished /\ fallen \subseteq LogPeers
  /\ entries \in Seq(Entry) /\ \A i \in 1..Len(entries) : Headed(entries[i])
  /\ taken \in [LogPeers -> Nat]
  /\ \A p \in LogPeers : taken[p] <= Len(log[p]) /\ (p >= reading => taken[p] = 0)

\* Every line that is in an entry has been read, ...
WasRead(l) ==
  /\ l.id[1] \in LogPeers /\ l.id[1] < reading /\ l.id[2] \in 1..taken[l.id[1]]
  /\ l = log[l.id[1]][l.id[2]] /\ ~l.line.blank
OnlyRead == \A i \in 1..Len(entries) : \A l \in MessageLines(entries[i]) : WasRead(l)

\* ... every line that has been read is in an entry, ...
AllRead ==
  \A p \in LogPeers : \A n \in 1..taken[p] :
    ~log[p][n].line.blank => \E i \in 1..Len(entries) : log[p][n] \in MessageLines(entries[i])

\* ... in one alone.
Once ==
  \A i, j \in 1..Len(entries) :
    MessageLines(entries[i]) \intersect MessageLines(entries[j]) # {} => i = j

Glued ==
  \A i \in 1..Len(entries) : \A l \in MessageLines(entries[i]) :
    \/ l.id[1] = entries[i].peer_id[1]
    \/ /\ l.id[1] \in fallen
       /\ \A n \in 1..l.id[2] : ~Stamped(l.id[1], log[l.id[1]][n])

\* What one node wrote is in the order written, until the sort; after it, among entries that
\* compare as equal.
Follows(a, b) ==
  \A l \in MessageLines(a), m \in MessageLines(b) : l.id[1] = m.id[1] => l.id[2] < m.id[2]
AsWritten ==
  reading # Finished =>
    \A i, j \in 1..Len(entries) : i < j => Follows(entries[i], entries[j])
Sorted ==
  reading = Finished =>
    \A i, j \in 1..Len(entries) : i < j =>
      /\ ~Before(entries[j], entries[i])
      /\ Before(entries[i], entries[j]) \/ Follows(entries[i], entries[j])

Gathered == OnlyRead /\ AllRead /\ Once /\ Glued /\ AsWritten /\ Sorted
LogsInv == Written /\ Reader /\ Gathered

LEMMA LogsInitInv == LogsInit => LogsInv
<1> SUFFICES ASSUME LogsInit PROVE LogsInv
  OBVIOUS
<1>1. Total \in Nat /\ MaxLines \in Nat
  BY LogPeersAssumption, LogBoundsAssumption
<1>2. Len(<<>>) = 0 /\ \A S : <<>> \in Seq(S)
  BY EmptySeq
<1>3. Written
  <2>1. \A p \in LogPeers : log[p] = <<>> /\ cache[p] = <<>>
    BY DEF LogsInit
  <2>2. \A p \in LogPeers : IsFile(p, <<>>)
    BY <1>2 DEF IsFile
  <2>3. \A p \in LogPeers : IsFile(p, log[p]) /\ PartOf(p, cache[p])
    BY <1>2, <2>1, <2>2 DEF PartOf
  <2> QED
    BY <1>1, <1>2, <2>1, <2>3 DEF Written, LogsInit
<1>4. Reader
  BY <1>1, <1>2 DEF Reader, LogsInit, Finished
<1>5. Gathered
  BY <1>1, <1>2 DEF Gathered, OnlyRead, AllRead, Once, Glued, AsWritten, Sorted, LogsInit
<1> QED
  BY <1>3, <1>4, <1>5 DEF LogsInv

\* The first lines of a log, or what is here of it.
LEMMA FilesRead ==
  ASSUME Written, NEW p \in LogPeers, NEW file \in Brought(p) \union Remains(p)
  PROVE  PartOf(p, file)
<1>1. /\ IsFile(p, log[p]) /\ log[p] \in Seq(LogLines(p)) /\ Len(log[p]) \in Nat
      /\ \A n \in 1..Len(log[p]) : log[p][n] \in LogLines(p) /\ log[p][n].id = <<p, n>>
  BY LenProperties, ElementOfSeq DEF Written, IsFile
<1>2. PartOf(p, log[p])
  BY <1>1 DEF PartOf
<1>3. PartOf(p, cache[p])
  BY DEF Written
<1>4. ASSUME NEW n \in 0..Len(log[p]) PROVE PartOf(p, SubSeq(log[p], 1, n))
  <2>1. \A i \in 1..n : log[p][i] \in LogLines(p) /\ log[p][i].id = <<p, i>>
    BY <1>1
  <2>2. n \in Int /\ 1 \in Int
    BY <1>1
  <2>3. /\ SubSeq(log[p], 1, n) \in Seq(LogLines(p))
        /\ Len(SubSeq(log[p], 1, n)) = IF 1 <= n THEN n - 1 + 1 ELSE 0
        /\ \A i \in 1..(n - 1 + 1) : SubSeq(log[p], 1, n)[i] = log[p][1 + i - 1]
    BY <2>1, <2>2, SubSeqProperties
  <2>4. Len(SubSeq(log[p], 1, n)) = n
    BY <2>3
  <2>5. \A i \in 1..n : SubSeq(log[p], 1, n)[i] = log[p][i]
    BY <2>2, <2>3
  <2> QED
    BY <2>1, <2>3, <2>4, <2>5 DEF PartOf, IsFile
<1>5. file = log[p] \/ file = cache[p] \/ \E n \in 0..Len(log[p]) : file = SubSeq(log[p], 1, n)
  BY DEF Brought, Remains, Stored
<1> QED
  BY <1>2, <1>3, <1>4, <1>5

\* Once more lines are written, what has been read of the logs is still what it was.
LEMMA WritesStep ==
  ASSUME LogsInv, NEW p \in LogPeers, NEW line \in Lines, NEW at \in 1..MaxTime, Writes(p, line, at)
  PROVE  LogsInv'
<1> DEFINE l == [at |-> at, line |-> line, id |-> <<p, Len(log[p]) + 1>>]
<1>1. /\ log \in [LogPeers -> Seq(AllLines)] /\ Len(log[p]) \in Nat /\ Len(log[p]) < MaxLines
      /\ log' = [log EXCEPT ![p] = Append(@, l)] /\ UNCHANGED <<place, cache, reading, entries, taken, fallen>>
  BY LenProperties DEF LogsInv, Written, Writes, reader
<1>2. l \in LogLines(p) /\ l \in AllLines /\ l.id = <<p, Len(log[p]) + 1>>
  BY <1>1, LogBoundsAssumption DEF LogLines, AllLines
<1> HIDE DEF l
<1>3. log[p] \in Seq(LogLines(p)) /\ log[p] \in Seq(AllLines)
  BY <1>1 DEF LogsInv, Written, IsFile
<1>4. /\ log'[p] \in Seq(LogLines(p)) /\ log'[p] \in Seq(AllLines)
      /\ Len(log'[p]) = Len(log[p]) + 1 /\ log'[p][Len(log[p]) + 1] = l
      /\ \A n \in 1..Len(log[p]) : log'[p][n] = log[p][n]
  BY <1>1, <1>2, <1>3
<1>5. \A q \in LogPeers : q # p => log'[q] = log[q]
  BY <1>1
\* What was there is there.
<1>6. \A q \in LogPeers : /\ Len(log[q]) \in Nat /\ Len(log[q]) <= Len(log'[q])
                         /\ \A n \in 1..Len(log[q]) : log'[q][n] = log[q][n]
  BY <1>1, <1>4, <1>5, LenProperties
<1>7. IsFile(p, log'[p])
  <2>1. \A n \in 1..Len(log[p]) : log[p][n].id = <<p, n>>
    BY DEF LogsInv, Written, IsFile
  <2>2. ASSUME NEW n \in 1..Len(log'[p]) PROVE log'[p][n].id = <<p, n>>
    <3>1. CASE n \in 1..Len(log[p])
      BY <1>4, <2>1, <3>1
    <3>2. CASE n = Len(log[p]) + 1
      BY <1>2, <1>4, <3>2
    <3> QED
      BY <1>1, <1>4, <3>1, <3>2
  <2> QED
    BY <1>4, <2>2 DEF IsFile
<1>8. Written'
  <2>1. \A q \in LogPeers : IsFile(q, log'[q]) /\ Len(log'[q]) <= MaxLines
    <3> TAKE q \in LogPeers
    <3>1. CASE q = p
      BY <1>1, <1>4, <1>7, <3>1, LogBoundsAssumption
    <3>2. CASE q # p
      BY <1>5, <3>2 DEF LogsInv, Written
    <3> QED
      BY <3>1, <3>2
  <2>2. ASSUME NEW q \in LogPeers PROVE PartOf(q, cache[q])'
    <3>1. PartOf(q, cache[q]) /\ cache'[q] = cache[q]
      BY <1>1 DEF LogsInv, Written
    <3>2. IsFile(q, cache[q]) /\ Len(cache[q]) \in Nat
      BY <3>1, LenProperties DEF PartOf, IsFile
    <3> QED
      BY <1>6, <3>1, <3>2 DEF PartOf
  <2>3. log' \in [LogPeers -> Seq(AllLines)]
    BY <1>1, <1>4
  <2> QED
    BY <1>1, <2>1, <2>2, <2>3 DEF LogsInv, Written
<1>9. Reader'
  <2>1. \A q \in LogPeers : taken[q] \in Nat /\ taken[q] <= Len(log[q])
    BY DEF LogsInv, Reader
  <2>2. \A q \in LogPeers : taken'[q] <= Len(log'[q])
    <3> TAKE q \in LogPeers
    <3>1. Len(log'[q]) \in Nat
      BY <1>1, <1>4, <1>5, LenProperties
    <3> QED
      BY <1>1, <1>6, <2>1, <3>1
  <2>3. (\A i \in 1..Len(entries) : Headed(entries[i]))'
    BY <1>1 DEF LogsInv, Reader, Headed, Stamped
  <2> QED
    BY <1>1, <2>2, <2>3 DEF LogsInv, Reader
<1>10. \A q \in LogPeers : \A n \in 1..taken[q] : log'[q][n] = log[q][n]
  <2> TAKE q \in LogPeers
  <2>1. taken[q] \in Nat /\ taken[q] <= Len(log[q])
    BY DEF LogsInv, Reader
  <2> QED
    BY <1>6, <2>1
<1>11. OnlyRead'
  <2> SUFFICES ASSUME NEW i \in 1..Len(entries), NEW x \in MessageLines(entries[i]) PROVE WasRead(x)'
    BY <1>1 DEF OnlyRead
  <2>1. WasRead(x)
    BY DEF LogsInv, Gathered, OnlyRead
  <2> QED
    BY <1>1, <1>10, <2>1 DEF WasRead
<1>12. AllRead'
  <2> SUFFICES ASSUME NEW q \in LogPeers, NEW n \in 1..taken[q], ~log'[q][n].line.blank
               PROVE  \E i \in 1..Len(entries) : log'[q][n] \in MessageLines(entries[i])
    BY <1>1 DEF AllRead
  <2>1. log'[q][n] = log[q][n]
    BY <1>10
  <2> QED
    BY <2>1 DEF LogsInv, Gathered, AllRead
<1>13. Glued'
  <2> SUFFICES ASSUME NEW i \in 1..Len(entries), NEW x \in MessageLines(entries[i]), x.id[1] # entries[i].peer_id[1]
               PROVE  x.id[1] \in fallen /\ \A n \in 1..x.id[2] : ~Stamped(x.id[1], log'[x.id[1]][n])
    BY <1>1 DEF Glued, Stamped
  <2>1. x.id[1] \in fallen /\ \A n \in 1..x.id[2] : ~Stamped(x.id[1], log[x.id[1]][n])
    BY DEF LogsInv, Gathered, Glued
  <2>2. x.id[1] \in LogPeers /\ x.id[2] \in 1..taken[x.id[1]] /\ taken[x.id[1]] \in Nat
    BY DEF LogsInv, Gathered, OnlyRead, WasRead, Reader
  <2>3. \A n \in 1..x.id[2] : log'[x.id[1]][n] = log[x.id[1]][n]
    BY <1>10, <2>2
  <2> QED
    BY <1>1, <2>1, <2>3 DEF Stamped
<1>14. Once' /\ AsWritten'
  BY <1>1 DEF LogsInv, Gathered, Once, AsWritten
<1>15. Sorted'
  BY <1>1 DEF LogsInv, Gathered, Sorted
<1> QED
  BY <1>8, <1>9, <1>11, <1>12, <1>13, <1>14, <1>15 DEF LogsInv, Gathered

LEMMA BeginStep == ASSUME LogsInv, BeginRead PROVE LogsInv'
<1>1. /\ reading' = 1 /\ entries' = <<>> /\ taken' = [p \in LogPeers |-> 0] /\ fallen' = {}
      /\ UNCHANGED <<place, log, cache>>
  BY DEF BeginRead
<1>2. Total \in Nat /\ Len(entries') = 0 /\ entries' \in Seq(Entry)
  BY <1>1, EmptySeq, LogPeersAssumption
<1>3. Written'
  BY <1>1 DEF LogsInv, Written, PartOf, IsFile
<1>4. Reader'
  <2>1. \A p \in LogPeers : Len(log[p]) \in Nat
    BY LenProperties DEF LogsInv, Written, IsFile
  <2> QED
    BY <1>1, <1>2, <2>1 DEF LogsInv, Reader, Finished
<1>5. Gathered'
  BY <1>1, <1>2 DEF Gathered, OnlyRead, AllRead, Once, Glued, AsWritten, Sorted, Finished
<1> QED
  BY <1>3, <1>4, <1>5 DEF LogsInv

\* A file that is read, into the entries there are or after them.
LEMMA ReadStep ==
  ASSUME LogsInv, reading \in LogPeers, NEW file, PartOf(reading, file),
         NEW id \in LogPeers \X {0, 1}, id[1] = reading,
         Grown(reading, id, file, entries, Len(file), entries'),
         taken' = [taken EXCEPT ![reading] = Len(file)], reading' = reading + 1,
         cache' \in {cache, [cache EXCEPT ![reading] = file]}, UNCHANGED <<place, log>>,
         fallen \subseteq fallen', fallen' \subseteq LogPeers,
         reading \in fallen' \/ \A i \in 1..Len(entries) : entries'[i] = entries[i]
  PROVE  LogsInv'
<1> DEFINE p == reading
<1>0. Total \in Nat /\ p \in 1..Total
  BY LogPeersAssumption DEF LogPeers
<1>1. /\ entries \in Seq(Entry) /\ Len(entries) \in Nat
      /\ entries' \in Seq(Entry) /\ Len(entries') \in Nat /\ Len(entries) <= Len(entries')
  BY LenProperties DEF LogsInv, Reader, Grown
<1>2. IsFile(p, file) /\ Len(file) \in Nat /\ Len(file) <= Len(log[p]) /\ \A n \in 1..Len(file) : file[n] = log[p][n]
  BY LenProperties DEF PartOf, IsFile
<1>3. /\ taken' \in [LogPeers -> Nat] /\ taken'[p] = Len(file)
      /\ \A q \in LogPeers : q # p => taken'[q] = taken[q]
  BY <1>2 DEF LogsInv, Reader
<1>4. Written'
  <2>1. \A q \in LogPeers : PartOf(q, cache'[q])
    BY DEF LogsInv, Written
  <2>2. file \in Seq(AllLines)
    <3>1. LogLines(p) \subseteq AllLines
      BY DEF AllLines
    <3> QED
      BY <1>2, <3>1, SeqMonotonic DEF IsFile
  <2>3. cache' \in [LogPeers -> Seq(AllLines)]
    BY <2>2 DEF LogsInv, Written
  <2> QED
    BY <2>1, <2>3 DEF LogsInv, Written, PartOf, IsFile
<1>5. Reader'
  <2>1. reading' \in 0..Finished
    BY <1>0 DEF Finished
  <2>2. (\A i \in 1..Len(entries) : Headed(entries[i]))'
    BY DEF Grown, Headed, Stamped
  <2>3. \A q \in LogPeers : taken'[q] <= Len(log[q]) /\ (q >= reading' => taken'[q] = 0)
    <3> TAKE q \in LogPeers
    <3>1. CASE q = p
      BY <1>0, <1>2, <1>3, <3>1
    <3>2. CASE q # p
      <4>1. q \in Int /\ (q >= reading + 1 => q >= reading)
        BY <1>0 DEF LogPeers
      <4> QED
        BY <1>3, <3>2, <4>1 DEF LogsInv, Reader
    <3> QED
      BY <3>1, <3>2
  <2> QED
    BY <1>1, <1>3, <2>1, <2>2, <2>3 DEF Reader
\* A line in an entry was there, or is one of the file's.
<1>6. ASSUME NEW i \in 1..Len(entries'), NEW l \in MessageLines(entries'[i])
      PROVE  \/ i \in 1..Len(entries) /\ l \in MessageLines(entries[i])
             \/ /\ i >= Len(entries)
                /\ \E k \in 1..Len(file) : /\ l = file[k] /\ ~l.line.blank
                                           /\ i = Len(entries) => \A j \in 1..k : ~Stamped(p, file[j])
  BY <1>1 DEF Grown, Origin
<1>7. OnlyRead'
  <2> SUFFICES ASSUME NEW i \in 1..Len(entries'), NEW l \in MessageLines(entries'[i]) PROVE WasRead(l)'
    BY DEF OnlyRead
  <2>1. CASE i \in 1..Len(entries) /\ l \in MessageLines(entries[i])
    <3>1. WasRead(l)
      BY <2>1 DEF LogsInv, Gathered, OnlyRead
    <3>2. l.id[1] # p /\ l.id[1] < reading'
      BY <1>0, <3>1 DEF WasRead, LogPeers
    <3> QED
      BY <1>3, <3>1, <3>2 DEF WasRead
  <2>2. CASE \E k \in 1..Len(file) : l = file[k] /\ ~l.line.blank
    <3>1. PICK k \in 1..Len(file) : l = file[k] /\ ~l.line.blank
      BY <2>2
    <3>2. l.id = <<p, k>> /\ l = log[p][k]
      BY <1>2, <3>1 DEF IsFile
    <3>3. p < reading'
      BY <1>0
    <3> QED
      BY <1>3, <3>1, <3>2, <3>3 DEF WasRead
  <2> QED
    BY <1>6, <2>1, <2>2
<1>8. AllRead'
  <2> SUFFICES ASSUME NEW q \in LogPeers, NEW n \in 1..taken'[q], ~log[q][n].line.blank
               PROVE  \E i \in 1..Len(entries') : log[q][n] \in MessageLines(entries'[i])
    BY DEF AllRead
  <2>1. CASE q = p
    <3>1. n \in 1..Len(file) /\ file[n] = log[q][n]
      BY <1>2, <1>3, <2>1
    <3> QED
      BY <3>1 DEF Grown, Arrived
  <2>2. CASE q # p
    <3>1. n \in 1..taken[q]
      BY <1>3, <2>2
    <3>2. PICK i \in 1..Len(entries) : log[q][n] \in MessageLines(entries[i])
      BY <3>1 DEF LogsInv, Gathered, AllRead
    <3>3. i \in 1..Len(entries')
      BY <1>1
    <3>4. MessageLines(entries[i]) \subseteq MessageLines(entries'[i])
      BY DEF Grown, Kept
    <3> QED
      BY <3>2, <3>3, <3>4
  <2> QED
    BY <2>1, <2>2
<1>9. AsWritten' /\ reading' # Finished
  <2>1. reading' # Finished /\ reading # Finished
    BY <1>0 DEF Finished
  <2> SUFFICES ASSUME NEW i \in 1..Len(entries'), NEW j \in 1..Len(entries'), i < j,
                      NEW l \in MessageLines(entries'[i]), NEW m \in MessageLines(entries'[j]),
                      l.id[1] = m.id[1]
               PROVE  l.id[2] < m.id[2]
    BY <2>1 DEF AsWritten, Follows
  <2>2. CASE l.id[1] = p
    <3>1. \A h \in 1..Len(entries) : \A x \in MessageLines(entries[h]) : x.id[1] # p
      BY <1>0 DEF LogsInv, Gathered, OnlyRead, WasRead, LogPeers
    <3>2. PICK k \in 1..Len(file) : l = file[k]
      BY <1>6, <2>2, <3>1
    <3>3. PICK n \in 1..Len(file) : m = file[n]
      BY <1>6, <2>2, <3>1
    <3>4. k < n
      BY <3>2, <3>3 DEF Grown, FileOrder
    <3>5. l.id = <<p, k>> /\ m.id = <<p, n>>
      BY <1>2, <3>2, <3>3 DEF IsFile
    <3> QED
      BY <3>4, <3>5
  <2>3. CASE l.id[1] # p
    <3>1. \A k \in 1..Len(file) : file[k].id[1] = p
      BY <1>2 DEF IsFile
    <3>2. i \in 1..Len(entries) /\ l \in MessageLines(entries[i])
      BY <1>6, <2>3, <3>1
    <3>3. j \in 1..Len(entries) /\ m \in MessageLines(entries[j])
      BY <1>6, <2>3, <3>1
    <3> QED
      BY <2>1, <3>2, <3>3 DEF LogsInv, Gathered, AsWritten, Follows
  <2> QED
    BY <2>2, <2>3
<1>10. Once'
  <2> SUFFICES ASSUME NEW i \in 1..Len(entries'), NEW j \in 1..Len(entries'),
                      NEW l \in MessageLines(entries'[i]), l \in MessageLines(entries'[j]), i # j
               PROVE  FALSE
    BY DEF Once
  <2>1. l.id[2] \in Int
    BY <1>7, <1>3 DEF OnlyRead, WasRead
  <2>2. ~(l.id[2] < l.id[2])
    BY <2>1
  <2>3. i < j \/ j < i
    OBVIOUS
  <2> QED
    BY <1>9, <2>2, <2>3 DEF AsWritten, Follows
<1>11. Glued'
  <2> SUFFICES ASSUME NEW i \in 1..Len(entries'), NEW l \in MessageLines(entries'[i]),
                      l.id[1] # entries'[i].peer_id[1]
               PROVE  l.id[1] \in fallen' /\ \A n \in 1..l.id[2] : ~Stamped(l.id[1], log[l.id[1]][n])
    BY DEF Glued, Stamped
  <2>1. CASE i \in 1..Len(entries) /\ l \in MessageLines(entries[i])
    <3>1. entries'[i].peer_id = entries[i].peer_id
      BY <2>1 DEF Grown, Kept
    <3>2. l.id[1] \in fallen /\ \A n \in 1..l.id[2] : ~Stamped(l.id[1], log[l.id[1]][n])
      BY <2>1, <3>1 DEF LogsInv, Gathered, Glued
    <3> QED
      BY <3>2 DEF Stamped
  <2>2. CASE ~(i \in 1..Len(entries) /\ l \in MessageLines(entries[i]))
    <3>1. i >= Len(entries)
      BY <1>6, <2>2
    <3>2. PICK k \in 1..Len(file) : /\ l = file[k]
                                    /\ i = Len(entries) => \A j \in 1..k : ~Stamped(p, file[j])
      BY <1>6, <2>2
    <3>3. l.id = <<p, k>>
      BY <1>2, <3>2 DEF IsFile
    <3>4. ~(i > Len(entries))
      <4> SUFFICES ASSUME i > Len(entries) PROVE FALSE
        OBVIOUS
      <4>1. entries'[i].peer_id = id
        BY DEF Grown, Kept
      <4> QED
        BY <3>3, <4>1
    <3>5. i = Len(entries)
      BY <1>1, <3>1, <3>4
    <3>6. p \in fallen'
      <4>1. i \in 1..Len(entries)
        BY <1>1, <3>5
      <4> QED
        BY <2>2, <4>1
    <3>7. \A n \in 1..k : file[n] = log[p][n]
      BY <1>2
    <3> QED
      BY <3>2, <3>3, <3>5, <3>6, <3>7 DEF Stamped
  <2> QED
    BY <2>1, <2>2
<1>12. Sorted'
  BY <1>9 DEF Sorted
<1> QED
  BY <1>4, <1>5, <1>7, <1>8, <1>9, <1>10, <1>11, <1>12 DEF LogsInv, Gathered

\* A file read by itself and put after the entries there are.
LEMMA GrownAfter ==
  ASSUME NEW p, NEW id, NEW file, IsFile(p, file), NEW acc \in Seq(Entry), Apart(p, acc),
         \A i \in 1..Len(acc) : Headed(acc[i]),
         NEW a, Grown(p, id, file, <<>>, Len(file), a), NEW r, r = acc \o a
  PROVE  Grown(p, id, file, acc, Len(file), r)
<1>0. /\ a \in Seq(Entry) /\ Len(a) \in Nat /\ Len(acc) \in Nat /\ r \in Seq(Entry)
      /\ Len(file) \in Nat /\ \A k \in 1..Len(file) : file[k].id = <<p, k>>
  BY ConcatProperties, LenProperties DEF Grown, IsFile
<1>1. Joined(acc, a, r)
  BY <1>0, ConcatElements
<1>2. /\ Len(r) = Len(acc) + Len(a)
      /\ \A i \in 1..Len(acc) : r[i] = acc[i]
      /\ \A i \in 1..Len(a) : r[Len(acc) + i] = a[i]
  BY <1>1 DEF Joined
<1>3. \A i \in 1..Len(r) : \/ i \in 1..Len(acc) /\ r[i] = acc[i]
                           \/ i > Len(acc) /\ i - Len(acc) \in 1..Len(a) /\ r[i] = a[i - Len(acc)]
  <2> TAKE i \in 1..Len(r)
  <2>1. CASE i <= Len(acc)
    BY <1>0, <1>2, <2>1
  <2>2. CASE ~(i <= Len(acc))
    <3>1. i - Len(acc) \in 1..Len(a) /\ i = Len(acc) + (i - Len(acc)) /\ i > Len(acc)
      BY <1>0, <1>2, <2>2
    <3> QED
      BY <1>2, <3>1
  <2> QED
    BY <2>1, <2>2
<1>4. Len(<<>>) = 0
  OBVIOUS
<1>5. /\ \A i \in 1..Len(a) : a[i].peer_id = id /\ Headed(a[i])
      /\ \A i \in 1..Len(a) : \A l \in MessageLines(a[i]) :
           \E k \in 1..Len(file) : l = file[k] /\ ~l.line.blank
      /\ Len(a) = 0 => Len(file) = 0
  <2>0. /\ \A i \in 1..Len(a) : i > 0 /\ ~(i <= 0)
        /\ \A i \in 1..Len(a) : Headed(a[i])
        /\ Len(file) > 0 => Len(a) >= 1
        /\ Kept(id, <<>>, a) /\ Origin(p, file, <<>>, Len(file), a)
    BY <1>0 DEF Grown
  <2>1. \A i \in 1..Len(a) : a[i].peer_id = id
    BY <1>4, <2>0 DEF Kept
  <2>2. ASSUME NEW i \in 1..Len(a), NEW l \in MessageLines(a[i])
        PROVE  \E k \in 1..Len(file) : l = file[k] /\ ~l.line.blank
    <3>1. \/ i <= Len(<<>>) /\ l \in MessageLines(<<>>[i])
          \/ /\ i >= Len(<<>>)
             /\ \E k \in 1..Len(file) : /\ l = file[k] /\ ~l.line.blank
                                        /\ i = Len(<<>>) => \A j \in 1..k : ~Stamped(p, file[j])
      BY <2>0, <2>2, Zenon DEF Origin
    <3>2. ~(i <= Len(<<>>))
      BY <1>4, <2>0
    <3> QED
      BY <3>1, <3>2
  <2>3. Len(a) = 0 => Len(file) = 0
    BY <1>0, <2>0
  <2> QED
    BY <2>0, <2>1, <2>2, <2>3
<1>6. \A i \in 1..Len(r) : Headed(r[i])
  BY <1>3, <1>5
<1>7. Kept(id, acc, r)
  <2>1. \A i \in 1..Len(r) : i > Len(acc) => r[i].peer_id = id
    BY <1>0, <1>3, <1>5
  <2>2. \A i \in 1..Len(acc) : r[i] = acc[i]
    BY <1>2
  <2> QED
    BY <2>1, <2>2 DEF Kept
<1>8. Origin(p, file, acc, Len(file), r)
  <2>1. ASSUME Len(r) = Len(acc) PROVE Len(file) = 0
    BY <1>0, <1>2, <1>5, <2>1
  <2>2. ASSUME NEW i \in 1..Len(r), NEW l \in MessageLines(r[i])
        PROVE  \/ i <= Len(acc) /\ l \in MessageLines(acc[i])
               \/ i > Len(acc) /\ \E k \in 1..Len(file) : l = file[k] /\ ~l.line.blank
    <3>1. CASE i \in 1..Len(acc) /\ r[i] = acc[i]
      BY <3>1
    <3>2. CASE i > Len(acc) /\ i - Len(acc) \in 1..Len(a) /\ r[i] = a[i - Len(acc)]
      BY <1>5, <3>2
    <3> QED
      BY <1>3, <3>1, <3>2
  <2>3. ASSUME NEW i \in 1..Len(r), NEW l \in MessageLines(r[i])
        PROVE  \/ i <= Len(acc) /\ l \in MessageLines(acc[i])
               \/ /\ i >= Len(acc)
                  /\ \E k \in 1..Len(file) :
                       /\ l = file[k] /\ ~l.line.blank
                       /\ i = Len(acc) => \A j \in 1..k : ~Stamped(p, file[j])
    <3>1. CASE i <= Len(acc) /\ l \in MessageLines(acc[i])
      BY <3>1
    <3>2. CASE i > Len(acc) /\ \E k \in 1..Len(file) : l = file[k] /\ ~l.line.blank
      <4>1. i >= Len(acc) /\ i # Len(acc)
        BY <1>0, <3>2
      <4> QED
        BY <3>2, <4>1
    <3> QED
      BY <2>2, <3>1, <3>2
  <2>4. Len(r) = Len(acc) => \A j \in 1..Len(file) : ~Stamped(p, file[j])
    BY <2>1
  <2> QED
    BY <2>3, <2>4 DEF Origin
<1>9. Arrived(file, Len(file), r)
  <2> SUFFICES ASSUME NEW k \in 1..Len(file), ~file[k].line.blank
               PROVE  \E i \in 1..Len(r) : file[k] \in MessageLines(r[i])
    BY DEF Arrived
  <2>1. PICK i \in 1..Len(a) : file[k] \in MessageLines(a[i])
    BY DEF Grown, Arrived
  <2>2. Len(acc) + i \in 1..Len(r) /\ r[Len(acc) + i] = a[i]
    BY <1>0, <1>2
  <2> QED
    BY <2>1, <2>2
<1>10. FileOrder(file, Len(file), r)
  <2> SUFFICES ASSUME NEW k \in 1..Len(file), NEW m \in 1..Len(file),
                      NEW i \in 1..Len(r), NEW j \in 1..Len(r), i < j,
                      file[k] \in MessageLines(r[i]), file[m] \in MessageLines(r[j])
               PROVE  k < m
    BY DEF FileOrder
  <2>0. ASSUME NEW x \in 1..Len(file) PROVE file[x].id[1] = p
    <3>1. file[x].id = <<p, x>>
      BY <1>0
    <3> QED
      BY <3>1
  <2>1. \A h \in 1..Len(acc) : \A x \in 1..Len(file) : file[x] \notin MessageLines(acc[h])
    BY <2>0 DEF Apart
  <2>2. i - Len(acc) \in 1..Len(a) /\ r[i] = a[i - Len(acc)]
    BY <1>3, <2>1
  <2>3. j - Len(acc) \in 1..Len(a) /\ r[j] = a[j - Len(acc)]
    BY <1>3, <2>1
  <2>4. i - Len(acc) < j - Len(acc)
    BY <1>0
  <2>5. /\ file[k] \in MessageLines(a[i - Len(acc)])
        /\ file[m] \in MessageLines(a[j - Len(acc)])
    BY <2>2, <2>3
  <2> QED
    BY <2>2, <2>3, <2>4, <2>5 DEF Grown, FileOrder
<1>11. Len(r) >= Len(acc) /\ (Len(file) > 0 => Len(r) >= 1)
  BY <1>0, <1>2, <1>5
<1> QED
  BY <1>0, <1>2, <1>6, <1>7, <1>8, <1>9, <1>10, <1>11 DEF Grown

LEMMA ReadPeerStep == ASSUME LogsInv, ReadPeer PROVE LogsInv'
<1>1. reading \in LogPeers /\ reading' = reading + 1 /\ UNCHANGED <<place, log, fallen>>
  BY DEF ReadPeer
<1>2. PICK part \in Brought(reading) :
        LET file == IF Fetched(reading) THEN Stored(cache[reading], part) ELSE part
        IN  /\ entries' = ReadLogFile(reading, file)
            /\ taken' = [taken EXCEPT ![reading] = Len(file)]
            /\ cache' = [cache EXCEPT ![reading] = IF Fetched(reading) THEN file ELSE @]
  BY DEF ReadPeer
<1>3. /\ entries' = entries \o AddFile(reading, PeerId(reading), part, <<>>)
      /\ taken' = [taken EXCEPT ![reading] = Len(part)]
      /\ cache' = [cache EXCEPT ![reading] = IF Fetched(reading) THEN part ELSE @]
  BY <1>2 DEF Stored, ReadLogFile
<1>4. cache' \in {cache, [cache EXCEPT ![reading] = part]}
  <2>1. cache \in [LogPeers -> Seq(AllLines)]
    BY DEF LogsInv, Written
  <2> QED
    BY <1>3, <2>1
<1>5. PartOf(reading, part) /\ IsFile(reading, part)
  BY <1>1, FilesRead DEF LogsInv, PartOf
<1>6. PeerId(reading) \in LogPeers \X {0, 1} /\ PeerId(reading)[1] = reading
  BY <1>1 DEF PeerId
<1>7. Apart(reading, <<>>) /\ \A i \in 1..Len(<<>>) : Headed(<<>>[i])
  BY EmptySeq DEF Apart
<1>8. <<>> \in Seq(Entry)
  BY EmptySeq
<1>9. Grown(reading, PeerId(reading), part, <<>>, Len(part), AddFile(reading, PeerId(reading), part, <<>>))
  BY <1>1, <1>5, <1>6, <1>7, <1>8, FileAdded
<1>10. entries \in Seq(Entry) /\ \A i \in 1..Len(entries) : Headed(entries[i])
  BY DEF LogsInv, Reader
<1>11. Apart(reading, entries)
  BY <1>1, LogPeersAssumption DEF LogsInv, Gathered, OnlyRead, WasRead, Apart, LogPeers
<1> DEFINE a == AddFile(reading, PeerId(reading), part, <<>>)
<1>14. entries' = entries \o a /\ Grown(reading, PeerId(reading), part, <<>>, Len(part), a)
  BY <1>3, <1>9
<1> DEFINE id == PeerId(reading)
           r == entries'
<1>15. /\ Grown(reading, id, part, <<>>, Len(part), a) /\ r = entries \o a
  BY <1>14
<1> HIDE DEF a, id, r
<1>16. Grown(reading, id, part, entries, Len(part), r)
  BY <1>5, <1>10, <1>11, <1>15, GrownAfter, Zenon
<1>17. \A i \in 1..Len(entries) : r[i] = entries[i]
  <2>1. a \in Seq(Entry)
    BY <1>15 DEF Grown
  <2>2. Joined(entries, a, r)
    BY <1>10, <1>15, <2>1, ConcatElements
  <2> QED
    BY <2>2 DEF Joined
<1>12. /\ Grown(reading, PeerId(reading), part, entries, Len(part), entries')
       /\ \A i \in 1..Len(entries) : entries'[i] = entries[i]
  BY <1>16, <1>17 DEF id, r
<1>13. fallen' = fallen /\ fallen \subseteq LogPeers
  BY <1>1 DEF LogsInv, Reader
<1> QED
  BY <1>1, <1>3, <1>4, <1>5, <1>6, <1>12, <1>13, ReadStep

LEMMA ReadFallbackStep == ASSUME LogsInv, ReadFallback PROVE LogsInv'
<1>1. /\ reading \in LogPeers /\ reading' = reading + 1 /\ UNCHANGED <<place, log>>
      /\ fallen' = fallen \union {reading}
  BY DEF ReadFallback
<1>2. PICK file \in Remains(reading) :
        /\ entries' = AddFile(reading, <<reading, 0>>, file, entries)
        /\ taken' = [taken EXCEPT ![reading] = Len(file)]
        /\ cache' = [cache EXCEPT ![reading] = file]
  BY DEF ReadFallback
<1>3. PartOf(reading, file) /\ IsFile(reading, file)
  BY <1>1, FilesRead DEF LogsInv, PartOf
<1>4. <<reading, 0>> \in LogPeers \X {0, 1} /\ <<reading, 0>>[1] = reading
  BY <1>1
<1>5. entries \in Seq(Entry) /\ \A i \in 1..Len(entries) : Headed(entries[i])
  BY DEF LogsInv, Reader
<1>6. Apart(reading, entries)
  BY <1>1, LogPeersAssumption DEF LogsInv, Gathered, OnlyRead, WasRead, Apart, LogPeers
<1>7. Grown(reading, <<reading, 0>>, file, entries, Len(file), entries')
  BY <1>1, <1>2, <1>3, <1>4, <1>5, <1>6, FileAdded
<1>8. fallen \subseteq fallen' /\ fallen' \subseteq LogPeers /\ reading \in fallen'
  BY <1>1 DEF LogsInv, Reader
<1>9. cache' \in {cache, [cache EXCEPT ![reading] = file]}
  BY <1>2
<1> QED
  BY <1>1, <1>2, <1>3, <1>4, <1>7, <1>8, <1>9, ReadStep

LEMMA SortStep == ASSUME LogsInv, SortEntries PROVE LogsInv'
<1>1. /\ reading = Sorting /\ reading' = Finished /\ entries' = StableSort(entries, Less(entries))
      /\ UNCHANGED <<place, log, cache, taken, fallen>>
  BY DEF SortEntries
<1>2. entries \in Seq(Entry) /\ Len(entries) \in Nat /\ entries \in [1..Len(entries) -> Entry]
  BY LenProperties DEF LogsInv, Reader
<1> DEFINE n == Len(entries)
<1>3. PICK from \in Bijection(1..n, 1..n) :
         /\ entries' = [k \in 1..n |-> entries[from[k]]]
         /\ \A k, l \in 1..n : k < l =>
              \/ Before(entries[from[k]], entries[from[l]])
              \/ ~Before(entries[from[l]], entries[from[k]]) /\ from[k] < from[l]
  BY <1>1, <1>2, EntriesSorted
<1>4. /\ \A k \in 1..n : from[k] \in 1..n
      /\ \A k, l \in 1..n : from[k] = from[l] => k = l
      /\ \A i \in 1..n : \E k \in 1..n : from[k] = i
  BY DEF Bijection, Injection, Surjection, IsInjective
<1>5. entries' \in Seq(Entry) /\ Len(entries') = n
  BY <1>2, <1>3, <1>4
<1>6. \A k \in 1..n : entries'[k] = entries[from[k]]
  BY <1>3
<1> HIDE DEF n
<1>7. Written'
  BY <1>1 DEF LogsInv, Written, PartOf, IsFile
<1>8. Total \in Nat
  BY LogPeersAssumption
<1>9. Reader'
  <2>1. reading' \in 0..Finished /\ \A p \in LogPeers : taken[p] = taken'[p] /\ ~(p >= reading')
    BY <1>1, <1>8 DEF Finished, LogPeers
  <2>2. (\A i \in 1..Len(entries) : Headed(entries[i]))'
    <3>1. \A i \in 1..n : Headed(entries[i])
      BY DEF n, LogsInv, Reader
    <3>2. \A i \in 1..n : Headed(entries'[i])
      BY <1>4, <1>6, <3>1
    <3> QED
      BY <1>1, <1>5, <3>2 DEF Headed, Stamped
  <2> QED
    BY <1>1, <1>5, <2>1, <2>2 DEF LogsInv, Reader
<1>10. \A l : WasRead(l) => WasRead(l)'
  BY <1>1, <1>8 DEF WasRead, Sorting, Finished, LogPeers
<1>11. OnlyRead'
  <2>1. \A i \in 1..n : \A l \in MessageLines(entries[i]) : WasRead(l)
    BY DEF LogsInv, Gathered, OnlyRead, n
  <2> QED
    BY <1>4, <1>5, <1>6, <1>10, <2>1 DEF OnlyRead
<1>12. AllRead'
  <2> SUFFICES ASSUME NEW p \in LogPeers, NEW m \in 1..taken[p], ~log[p][m].line.blank
               PROVE  \E k \in 1..n : log[p][m] \in MessageLines(entries'[k])
    BY <1>1, <1>5 DEF AllRead
  <2>1. PICK i \in 1..n : log[p][m] \in MessageLines(entries[i])
    BY DEF LogsInv, Gathered, AllRead, n
  <2> QED
    BY <1>4, <1>6, <2>1
<1>13. Once'
  <2>1. \A i, j \in 1..n : MessageLines(entries[i]) \intersect MessageLines(entries[j]) # {} => i = j
    BY DEF LogsInv, Gathered, Once, n
  <2>2. ASSUME NEW i \in 1..n, NEW j \in 1..n,
               MessageLines(entries'[i]) \intersect MessageLines(entries'[j]) # {}
        PROVE  i = j
    <3>1. from[i] \in 1..n /\ from[j] \in 1..n
      BY <1>4
    <3>2. entries'[i] = entries[from[i]] /\ entries'[j] = entries[from[j]]
      BY <1>6
    <3>3. from[i] = from[j]
      BY <2>1, <2>2, <3>1, <3>2
    <3> QED
      BY <1>4, <3>3
  <2> QED
    BY <1>5, <2>2 DEF Once
<1>14. Glued'
  <2>1. \A i \in 1..n : \A l \in MessageLines(entries[i]) :
          \/ l.id[1] = entries[i].peer_id[1]
          \/ /\ l.id[1] \in fallen
             /\ \A m \in 1..l.id[2] : ~Stamped(l.id[1], log[l.id[1]][m])
    BY DEF LogsInv, Gathered, Glued, n
  <2>2. ASSUME NEW i \in 1..n, NEW l \in MessageLines(entries'[i])
        PROVE  \/ l.id[1] = entries'[i].peer_id[1]
               \/ /\ l.id[1] \in fallen
                  /\ \A m \in 1..l.id[2] : ~Stamped(l.id[1], log[l.id[1]][m])
    <3>1. from[i] \in 1..n /\ entries'[i] = entries[from[i]]
      BY <1>4, <1>6
    <3> QED
      BY <2>1, <2>2, <3>1, Zenon
  <2> QED
    BY <1>1, <1>5, <2>2 DEF Glued, Stamped
<1>15. Sorted' /\ AsWritten'
  <2>1. \A i, j \in 1..n : i < j => Follows(entries[i], entries[j])
    BY <1>1, <1>8 DEF LogsInv, Gathered, AsWritten, n, Sorting, Finished
  <2>2. ASSUME NEW i \in 1..n, NEW j \in 1..n, i < j
        PROVE  /\ ~Before(entries'[j], entries'[i])
               /\ Before(entries'[i], entries'[j]) \/ Follows(entries'[i], entries'[j])
    <3> DEFINE a == entries[from[i]]
               b == entries[from[j]]
    <3>1. a \in Entry /\ b \in Entry /\ from[i] \in 1..n /\ from[j] \in 1..n
      BY <1>2, <1>4 DEF n
    <3>2. Before(a, b) \/ (~Before(b, a) /\ from[i] < from[j])
      BY <1>3, <2>2 DEF n
    <3>3. ~Before(b, a)
      BY <3>1, <3>2, ComparisonsOrder
    <3>4. Before(a, b) \/ Follows(a, b)
      BY <2>1, <3>1, <3>2
    <3> QED
      BY <1>6, <3>3, <3>4
  <2> QED
    BY <1>1, <1>5, <2>2 DEF Sorted, AsWritten
<1> QED
  BY <1>7, <1>9, <1>11, <1>12, <1>13, <1>14, <1>15 DEF LogsInv, Gathered

LEMMA LogsStep == ASSUME LogsInv, [LogsNext]_logVars PROVE LogsInv'
<1>1. CASE UNCHANGED logVars
  <2>1. UNCHANGED <<place, log, cache, reading, entries, taken, fallen>>
    BY <1>1 DEF logVars, reader
  <2>2. Written' /\ Reader'
    BY <2>1 DEF LogsInv, Written, PartOf, IsFile, Reader, Headed, Stamped
  <2>3. OnlyRead' /\ AllRead' /\ Once' /\ Glued'
    BY <2>1 DEF LogsInv, Gathered, OnlyRead, WasRead, AllRead, Once, Glued, Stamped
  <2>4. AsWritten' /\ Sorted'
    BY <2>1 DEF LogsInv, Gathered, AsWritten, Sorted
  <2> QED
    BY <2>2, <2>3, <2>4 DEF LogsInv, Gathered
<1>2. ASSUME NEW p \in LogPeers, NEW line \in Lines, NEW at \in 1..MaxTime, Writes(p, line, at)
      PROVE  LogsInv'
  BY <1>2, WritesStep
<1> QED
  BY <1>1, <1>2, BeginStep, ReadPeerStep, ReadFallbackStep, SortStep DEF LogsNext

LEMMA LogsInvariant == LogsSpec => []LogsInv
BY LogsInitInv, LogsStep, PTL DEF LogsSpec

-----------------------------------------------------------------------------
\* What read_logs gives

\* The type invariant of the logs: entries are made of lines that were written, and what is
\* here of a log that is fetched is the beginning of it (logs.rs, remote.rs, docker.rs).
THEOREM LogsTypeCorrect == LogsSpec => []LogsTypeOK
<1>1. ASSUME LogsInv PROVE LogsTypeOK
  <2>1. place \in Placements /\ reading \in 0..Finished /\ fallen \subseteq LogPeers
    BY <1>1 DEF LogsInv, Written, Reader
  <2>2. ASSUME NEW p \in LogPeers PROVE log[p] \in Seq(LogLines(p)) /\ IsPrefix(cache[p], log[p])
    <3> DEFINE c == cache[p]
               s == log[p]
    <3>1. /\ s \in Seq(LogLines(p)) /\ c \in Seq(LogLines(p)) /\ Len(c) <= Len(s)
          /\ \A n \in 1..Len(c) : c[n] = s[n]
      BY <1>1 DEF LogsInv, Written, PartOf, IsFile
    <3> HIDE DEF c, s
    <3>2. Len(c) \in Nat /\ \A i \in 1..Len(c) : c[i] \in LogLines(p)
      BY <3>1, LenProperties, ElementOfSeq
    <3>3. \A i \in 1..Len(c) : s[i] \in LogLines(p)
      BY <3>1, <3>2
    <3>4. Len(c) \in Int /\ 1 \in Int
      BY <3>2
    <3> DEFINE t == SubSeq(s, 1, Len(c))
    <3>5. /\ t \in Seq(LogLines(p)) /\ Len(t) = IF 1 <= Len(c) THEN Len(c) - 1 + 1 ELSE 0
          /\ \A i \in 1..(Len(c) - 1 + 1) : t[i] = s[1 + i - 1]
      BY <3>3, <3>4, SubSeqProperties
    <3> HIDE DEF t
    <3>6. Len(t) = Len(c)
      BY <3>2, <3>5
    <3>7. \A i \in 1..Len(c) : t[i] = c[i]
      BY <3>1, <3>2, <3>5
    <3>8. t = c
      BY <3>1, <3>5, <3>6, <3>7, SeqEqual
    <3>9. SubSeq(c, 1, Len(c)) = c
      BY <3>1, SubSeqFull
    <3> QED
      BY <3>1, <3>8, <3>9 DEF IsPrefix, c, s, t
  <2>3. ASSUME NEW i \in DOMAIN entries
        PROVE  /\ entries[i].peer_id \in LogPeers \X {0, 1}
               /\ entries[i].timestamp \in 0..MaxTime
               /\ entries[i].message \in Seq(UNION {LogLines(p) : p \in LogPeers})
    <3>1. entries \in Seq(Entry) /\ DOMAIN entries = 1..Len(entries)
      BY <1>1, LenProperties DEF LogsInv, Reader
    <3>2. entries[i] \in Entry
      BY <3>1, ElementOfSeq
    <3> QED
      BY <3>2 DEF Entry, AllLines
  <2>4. taken \in [LogPeers -> 0..MaxLines]
    <3>1. taken \in [LogPeers -> Nat]
      BY <1>1 DEF LogsInv, Reader
    <3>2. ASSUME NEW p \in LogPeers PROVE taken[p] \in 0..MaxLines
      <4>1. taken[p] <= Len(log[p]) /\ Len(log[p]) <= MaxLines /\ Len(log[p]) \in Nat
        BY <1>1, LenProperties DEF LogsInv, Reader, Written, IsFile
      <4> QED
        BY <3>1, <4>1, LogBoundsAssumption
    <3> QED
      BY <3>1, <3>2
  <2> QED
    BY <2>1, <2>2, <2>3, <2>4 DEF LogsTypeOK
<1> QED
  BY <1>1, LogsInvariant, PTL

\* Reading and sorting lose no line that was read and show none twice (NetworkLogs.tla).
THEOREM NothingIsLost == LogsSpec => []NothingLost
<1>1. ASSUME LogsInv PROVE NothingLost
  <2> SUFFICES ASSUME NEW p \in LogPeers, NEW n \in 1..Len(log[p])
               PROVE  Cardinality({i \in DOMAIN entries : log[p][n] \in MessageLines(entries[i])})
                        = IF n <= taken[p] /\ ~log[p][n].line.blank THEN 1 ELSE 0
    BY DEF NothingLost
  <2> DEFINE l == log[p][n]
             W == {i \in DOMAIN entries : l \in MessageLines(entries[i])}
  <2>1. /\ DOMAIN entries = 1..Len(entries) /\ l.id = <<p, n>> /\ n \in Nat /\ n >= 1
        /\ taken[p] \in Nat
    BY <1>1, LenProperties DEF LogsInv, Reader, Written, IsFile
  <2>2. CASE n <= taken[p] /\ ~l.line.blank
    <3>1. n \in 1..taken[p]
      BY <2>1, <2>2
    <3>2. PICK i \in 1..Len(entries) : l \in MessageLines(entries[i])
      BY <1>1, <2>2, <3>1 DEF LogsInv, Gathered, AllRead
    <3>3. \A j \in 1..Len(entries) : l \in MessageLines(entries[j]) => i = j
      BY <1>1, <3>2 DEF LogsInv, Gathered, Once
    <3>4. W = {i}
      BY <2>1, <3>2, <3>3
    <3> QED
      BY <2>2, <3>4, FS_Singleton
  <2>3. CASE ~(n <= taken[p] /\ ~l.line.blank)
    <3>1. \A i \in 1..Len(entries) : l \notin MessageLines(entries[i])
      BY <1>1, <2>1, <2>3 DEF LogsInv, Gathered, OnlyRead, WasRead
    <3>2. W = {}
      BY <2>1, <3>1
    <3> QED
      BY <2>3, <3>2, FS_EmptySet
  <2> QED
    BY <2>2, <2>3
<1> QED
  BY <1>1, LogsInvariant, PTL

LEMMA SortedTimes ==
  ASSUME LogsInv, reading = Finished, NEW i \in 1..Len(entries), NEW j \in 1..Len(entries), i < j
  PROVE  /\ entries[i].timestamp \in 0..MaxTime /\ entries[j].timestamp \in 0..MaxTime
         /\ entries[j].timestamp # NoTime => entries[i].timestamp \in 1..entries[j].timestamp
         /\ entries[i].timestamp = entries[j].timestamp /\ entries[i].timestamp # NoTime =>
              Follows(entries[i], entries[j])
<1> DEFINE a == entries[i]
           b == entries[j]
<1>1. a \in Entry /\ b \in Entry
  BY ElementOfSeq DEF LogsInv, Reader
<1>2. a.timestamp \in 0..MaxTime /\ b.timestamp \in 0..MaxTime
  BY <1>1 DEF Entry
<1>3. ~Before(b, a) /\ (Before(a, b) \/ Follows(a, b))
  BY DEF LogsInv, Gathered, Sorted
<1> HIDE DEF a, b
<1>4. b.timestamp # NoTime => a.timestamp # NoTime /\ ~(b.timestamp < a.timestamp)
  BY <1>3 DEF Before
<1>5. b.timestamp # NoTime => a.timestamp \in 1..b.timestamp
  BY <1>2, <1>4, LogBoundsAssumption DEF NoTime
<1>6. a.timestamp = b.timestamp /\ a.timestamp # NoTime => ~Before(a, b)
  BY <1>2, LogBoundsAssumption DEF Before
<1> QED
  BY <1>2, <1>3, <1>5, <1>6 DEF a, b

\* The logs are read in the order of time, and what a node wrote at one time in the order it
\* wrote it: the sort of read_logs is stable, and each log is read from its beginning.
THEOREM LogsAreChronological == LogsSpec => []Chronological
<1>1. ASSUME LogsInv PROVE Chronological
  <2> SUFFICES ASSUME reading = Finished, NEW i \in DOMAIN entries, NEW j \in DOMAIN entries, i < j
               PROVE  /\ entries[j].timestamp # NoTime => entries[i].timestamp \in 1..entries[j].timestamp
                      /\ \A l \in MessageLines(entries[i]), m \in MessageLines(entries[j]) :
                           /\ entries[i].timestamp = entries[j].timestamp
                           /\ entries[i].timestamp # NoTime
                           /\ l.id[1] = m.id[1]
                           => l.id[2] < m.id[2]
    BY DEF Chronological
  <2>1. DOMAIN entries = 1..Len(entries)
    BY <1>1, LenProperties DEF LogsInv, Reader
  <2>2. entries[j].timestamp # NoTime => entries[i].timestamp \in 1..entries[j].timestamp
    BY <1>1, <2>1, SortedTimes
  <2>3. entries[i].timestamp = entries[j].timestamp /\ entries[i].timestamp # NoTime =>
          Follows(entries[i], entries[j])
    BY <1>1, <2>1, SortedTimes
  <2> QED
    BY <2>2, <2>3 DEF Follows
<1> QED
  BY <1>1, LogsInvariant, PTL

\* A line is shown as of the peer whose log it is in, but for those without a time at the head
\* of a log that could not be fetched.
THEOREM GluedToOwnPeers == LogsSpec => []GluedToOwnPeer
<1>1. ASSUME LogsInv PROVE GluedToOwnPeer
  <2>1. DOMAIN entries = 1..Len(entries)
    BY <1>1, LenProperties DEF LogsInv, Reader
  <2>2. Glued
    BY <1>1 DEF LogsInv, Gathered
  <2> QED
    BY <2>1, <2>2 DEF Glued, GluedToOwnPeer
<1> QED
  BY <1>1, LogsInvariant, PTL

\* The last entries are shown, from one on.
LEMMA RecentOnes ==
  ASSUME NEW es \in Seq(Entry)
  PROVE  \E d \in 0..Len(es) : /\ DOMAIN Recent(es) = 1..(Len(es) - d)
                               /\ \A j \in 1..(Len(es) - d) : Recent(es)[j] = es[d + j]
<1>1. Len(es) \in Nat /\ MAX_LOG_LINES \in Nat /\ DOMAIN es = 1..Len(es)
  BY LenProperties, LogBoundsAssumption
<1>2. CASE ~(Len(es) > MAX_LOG_LINES)
  <2>1. Recent(es) = es
    BY <1>2 DEF Recent
  <2>2. 0 \in 0..Len(es) /\ Len(es) - 0 = Len(es) /\ \A j \in 1..Len(es) : 0 + j = j
    BY <1>1
  <2> QED
    BY <1>1, <2>1, <2>2
<1>3. CASE Len(es) > MAX_LOG_LINES
  <2> DEFINE d == Len(es) - MAX_LOG_LINES
             r == SubSeq(es, d + 1, Len(es))
  <2>1. Recent(es) = r
    BY <1>3 DEF Recent
  <2>2. d \in 0..Len(es) /\ d + 1 \in Int /\ Len(es) \in Int
    BY <1>1, <1>3
  <2>3. \A i \in (d + 1)..Len(es) : es[i] \in Entry
    <3>1. \A i \in (d + 1)..Len(es) : i \in 1..Len(es)
      BY <2>2
    <3> QED
      BY <3>1, ElementOfSeq
  <2>4. /\ r \in Seq(Entry)
        /\ Len(r) = IF d + 1 <= Len(es) THEN Len(es) - (d + 1) + 1 ELSE 0
        /\ \A i \in 1..(Len(es) - (d + 1) + 1) : r[i] = es[d + 1 + i - 1]
    BY <2>2, <2>3, SubSeqProperties
  <2>5. DOMAIN r = 1..Len(r)
    BY <2>4, LenProperties
  <2> HIDE DEF r, d
  <2>6. Len(r) = Len(es) - d
    <3>1. Len(r) = IF d + 1 <= Len(es) THEN Len(es) - (d + 1) + 1 ELSE 0
      BY <2>4
    <3>2. d \in Int /\ d <= Len(es) /\ Len(es) \in Int
      BY <2>2
    <3>3. CASE d + 1 <= Len(es)
      BY <3>1, <3>2, <3>3
    <3>4. CASE ~(d + 1 <= Len(es))
      BY <3>1, <3>2, <3>4
    <3> QED
      BY <3>3, <3>4
  <2>7. \A j \in 1..(Len(es) - d) : r[j] = es[d + j]
    <3> TAKE j \in 1..(Len(es) - d)
    <3>1. j \in 1..(Len(es) - (d + 1) + 1) /\ d + 1 + j - 1 = d + j
      BY <1>1, <2>2
    <3> QED
      BY <2>4, <3>1
  <2> QED
    BY <2>1, <2>2, <2>5, <2>6, <2>7
<1> QED
  BY <1>2, <1>3

\* A dump shows each line that matches, in the order of read_logs, though it sorts by another
\* comparison; and what the dump of a failed build leaves out is the oldest.
THEOREM DumpsShowInOrder == LogsSpec => []ShownInOrder
<1>1. ASSUME LogsInv, reading = Finished, NEW kinds
      PROVE  /\ Dump(entries, kinds) = Matching(entries, kinds)
             /\ \A p \in LogPeers : \A n \in 1..taken[p] :
                  log[p][n].line \in kinds /\ ~log[p][n].line.blank =>
                    \E k \in DOMAIN Matching(entries, kinds) :
                      log[p][n] \in MessageLines(Matching(entries, kinds)[k])
  <2>1. entries \in Seq(Entry) /\ DOMAIN entries = 1..Len(entries)
    BY <1>1, LenProperties DEF LogsInv, Reader
  <2>2. \A i, j \in 1..Len(entries) : i < j => ~BeforeInDump(entries[j], entries[i])
    <3> SUFFICES ASSUME NEW i \in 1..Len(entries), NEW j \in 1..Len(entries), i < j,
                        BeforeInDump(entries[j], entries[i])
                 PROVE  FALSE
      OBVIOUS
    <3> DEFINE t == entries[i].timestamp
               u == entries[j].timestamp
    <3>1. u # NoTime /\ (t # NoTime => u < t)
      BY DEF BeforeInDump
    <3>2. u \in 0..MaxTime /\ t \in 1..u
      BY <1>1, <3>1, SortedTimes
    <3> HIDE DEF t, u
    <3> QED
      BY <3>1, <3>2, LogBoundsAssumption DEF NoTime
  <2>3. Dump(entries, kinds) = Matching(entries, kinds)
    BY <2>1, <2>2, SortedInDump DEF Dump
  <2>4. /\ DOMAIN Matching(entries, kinds) = {i \in 1..Len(entries) : Matches(entries[i], kinds)}
        /\ \A i \in DOMAIN Matching(entries, kinds) : Matching(entries, kinds)[i] = entries[i]
    BY <2>1 DEF Matching, Restrict
  <2>5. ASSUME NEW p \in LogPeers, NEW n \in 1..taken[p],
               log[p][n].line \in kinds /\ ~log[p][n].line.blank
        PROVE  \E k \in DOMAIN Matching(entries, kinds) :
                 log[p][n] \in MessageLines(Matching(entries, kinds)[k])
    <3>1. PICK i \in 1..Len(entries) : log[p][n] \in MessageLines(entries[i])
      BY <1>1, <2>5 DEF LogsInv, Gathered, AllRead
    <3>2. PICK k \in DOMAIN entries[i].message : entries[i].message[k] = log[p][n]
      BY <3>1 DEF MessageLines
    <3>3. Matches(entries[i], kinds)
      BY <2>5, <3>2 DEF Matches
    <3>4. i \in DOMAIN Matching(entries, kinds)
      BY <2>4, <3>3
    <3> QED
      BY <2>4, <3>1, <3>4
  <2> QED
    BY <2>3, <2>5
<1>2. ASSUME LogsInv, reading = Finished,
             NEW i \in DOMAIN entries, NEW j \in DOMAIN Recent(entries),
             entries[i] \notin {Recent(entries)[k] : k \in DOMAIN Recent(entries)},
             Recent(entries)[j].timestamp # NoTime
      PROVE  entries[i].timestamp \in 1..Recent(entries)[j].timestamp
  <2>1. entries \in Seq(Entry) /\ DOMAIN entries = 1..Len(entries) /\ Len(entries) \in Nat
    BY <1>2, LenProperties DEF LogsInv, Reader
  <2>2. PICK d \in 0..Len(entries) :
               /\ DOMAIN Recent(entries) = 1..(Len(entries) - d)
               /\ \A k \in 1..(Len(entries) - d) : Recent(entries)[k] = entries[d + k]
    BY <2>1, RecentOnes
  <2>3. i <= d
    <3> SUFFICES ASSUME ~(i <= d) PROVE FALSE
      OBVIOUS
    <3>1. i - d \in 1..(Len(entries) - d) /\ d + (i - d) = i
      BY <2>1, <2>2
    <3>2. Recent(entries)[i - d] = entries[i]
      BY <2>2, <3>1
    <3> QED
      BY <1>2, <2>2, <3>1, <3>2
  <2>4. d + j \in 1..Len(entries) /\ i < d + j /\ i \in 1..Len(entries)
    BY <2>1, <2>2, <2>3
  <2>5. Recent(entries)[j] = entries[d + j]
    BY <2>2
  <2> QED
    BY <1>2, <2>4, <2>5, SortedTimes
<1>3. ASSUME LogsInv PROVE ShownInOrder
  <2> SUFFICES ASSUME reading = Finished
               PROVE  LET kinds == {l \in Lines : ~l.stamped}
                          shown == Dump(entries, kinds)
                          recent == Recent(entries)
                      IN  /\ shown = Matching(entries, kinds)
                          /\ \A p \in LogPeers : \A n \in 1..taken[p] :
                               log[p][n].line \in kinds /\ ~log[p][n].line.blank =>
                                 \E k \in DOMAIN shown : log[p][n] \in MessageLines(shown[k])
                          /\ \A i \in DOMAIN entries, j \in DOMAIN recent :
                               /\ entries[i] \notin {recent[k] : k \in DOMAIN recent}
                               /\ recent[j].timestamp # NoTime
                               => entries[i].timestamp \in 1..recent[j].timestamp
    BY DEF ShownInOrder
  <2> DEFINE kinds == {l \in Lines : ~l.stamped}
  <2> HIDE DEF kinds
  <2>1. /\ Dump(entries, kinds) = Matching(entries, kinds)
        /\ \A p \in LogPeers : \A n \in 1..taken[p] :
             log[p][n].line \in kinds /\ ~log[p][n].line.blank =>
               \E k \in DOMAIN Matching(entries, kinds) :
                 log[p][n] \in MessageLines(Matching(entries, kinds)[k])
    BY <1>1, <1>3
  <2>2. /\ Dump(entries, kinds) = Matching(entries, kinds)
        /\ \A p \in LogPeers : \A n \in 1..taken[p] :
             log[p][n].line \in kinds /\ ~log[p][n].line.blank =>
               \E k \in DOMAIN Dump(entries, kinds) :
                 log[p][n] \in MessageLines(Dump(entries, kinds)[k])
    BY <2>1, Zenon
  <2> QED
    BY <1>2, <1>3, <2>2, Zenon DEF kinds
<1> QED
  BY <1>3, LogsInvariant, PTL

-----------------------------------------------------------------------------
\* The flow of a contract

\* A pattern finds the first line that fits it.
LEMMA CapturedFirst ==
  ASSUME NEW e \in Entry, NEW what, Fits(e, what)
  PROVE  /\ \E i \in 1..Len(e.message) : /\ Captured(e, what) = e.message[i]
                                         /\ \A j \in 1..(i - 1) : e.message[j].line.what # what
         /\ Captured(e, what) \in MessageLines(e) /\ Captured(e, what).line.what = what
<1> DEFINE T == {i \in 1..Len(e.message) : e.message[i].line.what = what}
           First(i) == /\ e.message[i].line.what = what
                       /\ \A j \in 1..(i - 1) : e.message[j].line.what # what
<1>1. Len(e.message) \in Nat /\ DOMAIN e.message = 1..Len(e.message)
  BY LinesOfEntry
<1>2. T \subseteq Nat /\ T # {}
  BY <1>1 DEF Fits
<1>3. PICK x \in T : \A y \in T : <<y, x>> \notin Precedes
  BY <1>2, PrecedesWellFounded, WFMin
<1>4. \A y \in T : ~(y < x)
  BY <1>2, <1>3 DEF Precedes
<1>5. x \in 1..Len(e.message) /\ \A j \in 1..(x - 1) : j \in 1..Len(e.message) /\ j < x
  BY <1>1
<1>6. First(x) /\ x \in DOMAIN e.message
  BY <1>1, <1>4, <1>5
<1>7. Captured(e, what) = e.message[CHOOSE i \in DOMAIN e.message : First(i)]
  BY DEF Captured
<1> DEFINE c == CHOOSE i \in DOMAIN e.message : First(i)
<1>8. c \in DOMAIN e.message /\ First(c)
  <2> HIDE DEF First
  <2> QED
    BY <1>6
<1> HIDE DEF c
<1> QED
  BY <1>1, <1>7, <1>8 DEF MessageLines, c

IsFlow(d) ==
  /\ d = [put_edges |-> d.put_edges, put_completion_peer |-> d.put_completion_peer,
          update_edges |-> d.update_edges, errors |-> d.errors]
  /\ d.put_edges \in Seq(LogPeers \X Nat)

\* What one entry adds to the requests and to the completion.
Requests(e) == {l \in MessageLines(e) : l.line.what = "request" /\ l.line.ours}
Completions(e) == {l \in MessageLines(e) : l.line.what = "completed" /\ l.line.ours}
Tells(data, e, d) ==
  /\ IsFlow(d)
  /\ \/ d.put_edges = data.put_edges /\ \A l \in Requests(e) : ~Stamped(l.id[1], l)
     \/ \E l \in Requests(e) : /\ d.put_edges = Append(data.put_edges, l.id)
                               /\ \A m \in Requests(e) : Stamped(m.id[1], m) => m = l
  /\ \/ d.put_completion_peer = data.put_completion_peer /\ ~TellsCompletion(e)
     \/ \E l \in Completions(e) : d.put_completion_peer = l.id

\* An entry that tells of a completion is captured by it.
LEMMA CompletionCaptured ==
  ASSUME NEW e \in Entry, TellsCompletion(e)
  PROVE  /\ Fits(e, "completed") /\ ~Fits(e, "request") /\ Mentions(e)
         /\ Captured(e, "completed") \in Completions(e)
<1>1. Len(e.message) \in Nat /\ DOMAIN e.message = 1..Len(e.message)
  BY LinesOfEntry
<1>2. PICK i \in 1..Len(e.message) :
        /\ e.message[i].line.what = "completed" /\ e.message[i].line.ours
        /\ \A j \in 1..(i - 1) : e.message[j].line.what # "completed"
  BY <1>1 DEF TellsCompletion
<1>3. Fits(e, "completed") /\ Mentions(e) /\ e.message[i] \in Completions(e)
  BY <1>1, <1>2 DEF Fits, Mentions, MessageLines, Completions
<1>4. PICK k \in 1..Len(e.message) :
        /\ Captured(e, "completed") = e.message[k] /\ e.message[k].line.what = "completed"
        /\ \A j \in 1..(k - 1) : e.message[j].line.what # "completed"
  BY <1>3, CapturedFirst
<1>5. ~(i < k) /\ ~(k < i)
  <2>1. i < k => i \in 1..(k - 1)
    BY <1>1
  <2>2. k < i => k \in 1..(i - 1)
    BY <1>1
  <2> QED
    BY <1>2, <1>4, <2>1, <2>2
<1>6. i = k
  BY <1>1, <1>5
<1> QED
  BY <1>3, <1>4, <1>6 DEF TellsCompletion

LEMMA EntryTells ==
  ASSUME NEW e \in Entry, Headed(e), NEW data, IsFlow(data), NEW d, d = AddEntry(data, e)
  PROVE  Tells(data, e, d)
<1> DEFINE put == Captured(e, "request")
           done == Captured(e, "completed")
           IfOurs(what, new) == IF Counts(Captured(e, what)) THEN new ELSE data
<1>1. /\ Len(e.message) \in Nat /\ DOMAIN e.message = 1..Len(e.message)
      /\ MessageLines(e) = {e.message[i] : i \in 1..Len(e.message)}
      /\ \A l \in MessageLines(e) : l \in AllLines /\ l.id \in LogPeers \X Nat
  <2>1. \A l \in AllLines : l.id \in LogPeers \X Nat
    BY DEF AllLines, LogLines
  <2> QED
    BY <2>1, LinesOfEntry
<1>2. \A what : Fits(e, what) <=> \E l \in MessageLines(e) : l.line.what = what
  BY DEF Fits, MessageLines
<1>3. ASSUME NEW m \in Requests(e), Stamped(m.id[1], m) PROVE Fits(e, "request") /\ m = put
  <2>1. m \in MessageLines(e) /\ m.line.what = "request"
    BY DEF Requests
  <2>2. Fits(e, "request")
    BY <1>2, <2>1
  <2>3. PICK k \in 1..Len(e.message) : m = e.message[k]
    BY <1>1, <2>1
  <2>4. k = 1
    BY <1>3, <2>3 DEF Headed
  <2>5. PICK i \in 1..Len(e.message) : /\ put = e.message[i]
                                       /\ \A j \in 1..(i - 1) : e.message[j].line.what # "request"
    BY <2>2, CapturedFirst
  <2>6. i = 1
    <3> SUFFICES ASSUME i # 1 PROVE FALSE
      OBVIOUS
    <3>1. 1 \in 1..(i - 1)
      BY <1>1
    <3> QED
      BY <2>1, <2>3, <2>4, <2>5, <3>1
  <2> QED
    BY <2>2, <2>3, <2>4, <2>5, <2>6
<1>4. Fits(e, "request") => put \in MessageLines(e) /\ put.line.what = "request"
  BY CapturedFirst
<1>5. TellsCompletion(e) => /\ Fits(e, "completed") /\ ~Fits(e, "request") /\ Mentions(e)
                            /\ Counts(done) /\ done \in Completions(e)
  BY CompletionCaptured DEF Counts, Completions
<1>6. CASE ~Mentions(e)
  <2>1. d = data
    BY <1>6 DEF AddEntry
  <2>2. Requests(e) = {}
    BY <1>6 DEF Requests, Mentions
  <2> QED
    BY <1>5, <1>6, <2>1, <2>2 DEF Tells
<1>7. CASE Mentions(e) /\ Fits(e, "request")
  <2>1. d = IF Counts(put) THEN [data EXCEPT !.put_edges = Append(@, put.id)] ELSE data
    BY <1>7 DEF AddEntry
  <2>2. ~TellsCompletion(e)
    BY <1>5, <1>7
  <2>3. CASE Counts(put)
    <3>1. put \in Requests(e) /\ put.id \in LogPeers \X Nat
      BY <1>1, <1>4, <1>7, <2>3 DEF Counts, Requests
    <3>2. d = [data EXCEPT !.put_edges = Append(@, put.id)]
      BY <2>1, <2>3
    <3> HIDE DEF put
    <3>3. Append(data.put_edges, put.id) \in Seq(LogPeers \X Nat)
      BY <3>1 DEF IsFlow
    <3>4. /\ d.put_edges = Append(data.put_edges, put.id)
          /\ d.put_completion_peer = data.put_completion_peer
          /\ d.update_edges = data.update_edges /\ d.errors = data.errors
          /\ d = [put_edges |-> d.put_edges, put_completion_peer |-> d.put_completion_peer,
                  update_edges |-> d.update_edges, errors |-> d.errors]
      BY <3>2 DEF IsFlow
    <3>5. IsFlow(d)
      BY <3>3, <3>4 DEF IsFlow
    <3> QED
      BY <1>3, <2>2, <3>1, <3>4, <3>5 DEF Tells
  <2>4. CASE ~Counts(put)
    <3>1. d = data
      BY <2>1, <2>4
    <3>2. \A l \in Requests(e) : ~Stamped(l.id[1], l)
      BY <1>3, <2>4 DEF Counts, Requests
    <3> QED
      BY <2>2, <3>1, <3>2 DEF Tells
  <2> QED
    BY <2>3, <2>4
<1>8. CASE Mentions(e) /\ ~Fits(e, "request")
  <2>0. \A l \in Requests(e) : ~Stamped(l.id[1], l)
    BY <1>3, <1>8
  <2> DEFINE u == [data EXCEPT !.update_edges = Append(@, Captured(e, "update").id)]
             r == [data EXCEPT !.errors = Append(@, e)]
  <2>1. \/ d = data /\ ~(Fits(e, "completed") /\ Counts(done))
        \/ d = Completed(data, done.id) /\ Fits(e, "completed") /\ Counts(done)
        \/ (d = u \/ d = r) /\ ~Fits(e, "completed")
    BY <1>8 DEF AddEntry
  <2>2. CASE d = data /\ ~(Fits(e, "completed") /\ Counts(done))
    BY <1>5, <2>0, <2>2 DEF Tells
  <2>3. CASE d = Completed(data, done.id) /\ Fits(e, "completed") /\ Counts(done)
    <3>1. done \in Completions(e)
      BY <2>3, CapturedFirst DEF Counts, Completions
    <3>2. d = [data EXCEPT !.put_completion_peer = done.id]
      BY <2>3 DEF Completed
    <3> HIDE DEF done
    <3>3. d.put_edges = data.put_edges /\ d.put_completion_peer = done.id
      BY <3>2 DEF IsFlow
    <3>4. IsFlow(d)
      BY <3>2 DEF IsFlow
    <3> QED
      BY <2>0, <3>1, <3>3, <3>4 DEF Tells
  <2>4. CASE (d = u \/ d = r) /\ ~Fits(e, "completed")
    <3>1. d.put_edges = data.put_edges /\ d.put_completion_peer = data.put_completion_peer
      BY <2>4 DEF IsFlow
    <3>2. IsFlow(d)
      BY <2>4 DEF IsFlow
    <3> QED
      BY <1>5, <2>0, <2>4, <3>1, <3>2 DEF Tells
  <2> QED
    BY <2>1, <2>2, <2>3, <2>4
<1> QED
  BY <1>6, <1>7, <1>8

\* collect_contract_flow goes through the entries one by one.
FlowRun(flow) ==
  /\ flow[0] = NoFlow
  /\ \A n \in 0..(Len(entries) - 1) : flow[n + 1] = AddEntry(flow[n], entries[n + 1])
  /\ Flow = flow[Len(entries)]

LEMMA FlowSteps == ASSUME Len(entries) \in Nat PROVE \E flow : FlowRun(flow)
<1> DEFINE After(x, n) == AddEntry(x, entries[n])
           IsRun(g, m) == g = [n \in 0..m |-> IF n = 0 THEN NoFlow ELSE After(g[n - 1], n)]
           T == {m \in Nat : \E g : IsRun(g, m)}
           flow == CHOOSE g : IsRun(g, Len(entries))
<1>1. Flow = flow[Len(entries)]
  BY DEF Flow
<1> HIDE DEF After
<1>2. 0 \in T
  <2>1. IsRun([n \in 0..0 |-> NoFlow], 0)
    OBVIOUS
  <2> QED
    BY <2>1
<1>3. ASSUME NEW m \in T PROVE m + 1 \in T
  <2>1. PICK g : IsRun(g, m)
    OBVIOUS
  <2> DEFINE h == [n \in 0..(m + 1) |-> IF n <= m THEN g[n] ELSE After(g[m], m + 1)]
  <2>2. \A n \in 0..m : g[n] = IF n = 0 THEN NoFlow ELSE After(g[n - 1], n)
    BY <2>1
  <2>3. \A n \in 0..(m + 1) : h[n] = IF n = 0 THEN NoFlow ELSE After(h[n - 1], n)
    <3> TAKE n \in 0..(m + 1)
    <3>1. CASE n = 0
      BY <2>2, <3>1
    <3>2. CASE n \in 1..m
      BY <2>2, <3>2
    <3>3. CASE n = m + 1
      BY <3>3
    <3> QED
      BY <3>1, <3>2, <3>3
  <2>4. IsRun(h, m + 1)
    BY <2>3
  <2> HIDE DEF h, IsRun
  <2> QED
    BY <2>4
<1>4. T = Nat
  BY <1>2, <1>3, Induction
<1>5. IsRun(flow, Len(entries))
  BY <1>4
<1>6. \A n \in 0..Len(entries) : flow[n] = IF n = 0 THEN NoFlow ELSE After(flow[n - 1], n)
  BY <1>5
<1> HIDE DEF flow
<1>7. \A n \in 0..(Len(entries) - 1) : flow[n + 1] = After(flow[n], n + 1)
  <2> TAKE n \in 0..(Len(entries) - 1)
  <2>1. n + 1 \in 0..Len(entries) /\ n + 1 # 0 /\ (n + 1) - 1 = n
    OBVIOUS
  <2> QED
    BY <1>6, <2>1
<1>8. flow[0] = NoFlow
  BY <1>6
<1>9. FlowRun(flow)
  BY <1>1, <1>7, <1>8 DEF After, FlowRun
<1> QED
  BY <1>9

\* The entry a request is in.
AsksIn(i, id) == \E l \in Requests(entries[i]) : l.id = id

\* What the first n entries tell: requests, each of one entry and in the order of the entries,
\* those with a time all of them; and the last completion that an entry tells of.
AskedUpTo(n, asked) ==
  /\ \A k \in 1..Len(asked) : \E i \in 1..n : AsksIn(i, asked[k])
  /\ \A k, m \in 1..Len(asked) : \A i, j \in 1..Len(entries) :
       k < m /\ AsksIn(i, asked[k]) /\ AsksIn(j, asked[m]) => i < j
  /\ \A i \in 1..n : \A l \in Requests(entries[i]) :
       Stamped(l.id[1], l) => \E k \in 1..Len(asked) : asked[k] = l.id
DoneUpTo(n, peer) ==
  \A i \in 1..n : TellsCompletion(entries[i]) =>
    \E f \in i..n : \E l \in Completions(entries[f]) : peer = l.id

LEMMA OneAsks ==
  ASSUME LogsInv, NEW i \in 1..Len(entries), NEW j \in 1..Len(entries), NEW id,
         AsksIn(i, id), AsksIn(j, id)
  PROVE  i = j
<1>1. PICK l \in MessageLines(entries[i]) : l.id = id
  BY DEF AsksIn, Requests
<1>2. PICK m \in MessageLines(entries[j]) : m.id = id
  BY DEF AsksIn, Requests
<1>3. l = m
  BY <1>1, <1>2 DEF LogsInv, Gathered, OnlyRead, WasRead
<1> QED
  BY <1>3 DEF LogsInv, Gathered, Once

LEMMA AskedStep ==
  ASSUME LogsInv, NEW n \in 0..(Len(entries) - 1), NEW asked \in Seq(LogPeers \X Nat), AskedUpTo(n, asked),
         NEW more,
         \/ more = asked /\ \A l \in Requests(entries[n + 1]) : ~Stamped(l.id[1], l)
         \/ \E l \in Requests(entries[n + 1]) :
              /\ more = Append(asked, l.id)
              /\ \A m \in Requests(entries[n + 1]) : Stamped(m.id[1], m) => m = l
  PROVE  AskedUpTo(n + 1, more)
<1>0. /\ Len(entries) \in Nat /\ n + 1 \in 1..Len(entries) /\ Len(asked) \in Nat
      /\ \A i \in 1..(n + 1) : i \in 1..n \/ i = n + 1
      /\ \A i \in 1..n : i \in 1..(n + 1) /\ i < n + 1 /\ i \in 1..Len(entries)
  <2>1. Len(entries) \in Nat /\ Len(asked) \in Nat
    BY LenProperties DEF LogsInv, Reader
  <2> QED
    BY <2>1
<1>1. CASE more = asked /\ \A l \in Requests(entries[n + 1]) : ~Stamped(l.id[1], l)
  <2>1. \A k \in 1..Len(more) : \E i \in 1..(n + 1) : AsksIn(i, more[k])
    BY <1>0, <1>1 DEF AskedUpTo
  <2>2. \A i \in 1..(n + 1) : \A l \in Requests(entries[i]) :
          Stamped(l.id[1], l) => \E k \in 1..Len(more) : more[k] = l.id
    BY <1>0, <1>1 DEF AskedUpTo
  <2>3. \A k, m \in 1..Len(more) : \A i, j \in 1..Len(entries) :
          k < m /\ AsksIn(i, more[k]) /\ AsksIn(j, more[m]) => i < j
    BY <1>1 DEF AskedUpTo
  <2> QED
    BY <2>1, <2>2, <2>3 DEF AskedUpTo
<1>2. ASSUME NEW l \in Requests(entries[n + 1]), more = Append(asked, l.id),
             \A m \in Requests(entries[n + 1]) : Stamped(m.id[1], m) => m = l
      PROVE  AskedUpTo(n + 1, more)
  <2>1. /\ Len(more) = Len(asked) + 1 /\ more[Len(asked) + 1] = l.id
        /\ \A k \in 1..Len(asked) : more[k] = asked[k]
    BY <1>0, <1>2
  <2>2. /\ \A k \in 1..Len(more) : k \in 1..Len(asked) \/ k = Len(asked) + 1
        /\ \A k \in 1..Len(asked) : k \in 1..Len(more)
        /\ Len(asked) + 1 \in 1..Len(more)
    BY <1>0, <2>1
  <2>3. AsksIn(n + 1, l.id)
    BY DEF AsksIn
  <2>4. \A k \in 1..Len(more) : \E i \in 1..(n + 1) : AsksIn(i, more[k])
    <3> TAKE k \in 1..Len(more)
    <3>1. CASE k \in 1..Len(asked)
      <4>1. PICK i \in 1..n : AsksIn(i, asked[k])
        BY <3>1 DEF AskedUpTo
      <4> QED
        BY <1>0, <2>1, <3>1, <4>1
    <3>2. CASE k = Len(asked) + 1
      <4>1. n + 1 \in 1..(n + 1)
        BY <1>0
      <4> QED
        BY <2>1, <2>3, <3>2, <4>1
    <3> QED
      BY <2>2, <3>1, <3>2
  <2>5. ASSUME NEW k \in 1..Len(more), NEW m \in 1..Len(more), k < m,
               NEW i \in 1..Len(entries), NEW j \in 1..Len(entries), AsksIn(i, more[k]), AsksIn(j, more[m])
        PROVE  i < j
    <3>1. k \in 1..Len(asked)
      BY <1>0, <2>1, <2>5
    <3>2. CASE m \in 1..Len(asked)
      BY <2>1, <2>5, <3>1, <3>2 DEF AskedUpTo
    <3>3. CASE m = Len(asked) + 1
      <4>1. j = n + 1
        BY <1>0, <2>1, <2>3, <2>5, <3>3, OneAsks
      <4>2. PICK h \in 1..n : AsksIn(h, asked[k])
        BY <3>1 DEF AskedUpTo
      <4>3. i = h
        BY <1>0, <2>1, <2>5, <3>1, <4>2, OneAsks
      <4> QED
        BY <1>0, <4>1, <4>2, <4>3
    <3> QED
      BY <2>2, <3>2, <3>3
  <2>6. ASSUME NEW i \in 1..(n + 1), NEW x \in Requests(entries[i]), Stamped(x.id[1], x)
        PROVE  \E k \in 1..Len(more) : more[k] = x.id
    <3>1. CASE i \in 1..n
      <4>1. PICK k \in 1..Len(asked) : asked[k] = x.id
        BY <2>6, <3>1 DEF AskedUpTo
      <4> QED
        BY <2>1, <2>2, <4>1
    <3>2. CASE i = n + 1
      <4>1. x = l
        BY <1>2, <2>6, <3>2
      <4> QED
        BY <2>1, <2>2, <4>1
    <3> QED
      BY <1>0, <3>1, <3>2
  <2> QED
    BY <2>4, <2>5, <2>6 DEF AskedUpTo
<1> QED
  BY <1>1, <1>2

LEMMA DoneStep ==
  ASSUME NEW n \in Nat, NEW peer, DoneUpTo(n, peer), NEW last,
         \/ last = peer /\ ~TellsCompletion(entries[n + 1])
         \/ \E l \in Completions(entries[n + 1]) : last = l.id
  PROVE  DoneUpTo(n + 1, last)
<1> SUFFICES ASSUME NEW i \in 1..(n + 1), TellsCompletion(entries[i])
             PROVE  \E f \in i..(n + 1) : \E l \in Completions(entries[f]) : last = l.id
  BY DEF DoneUpTo
<1>1. CASE last = peer /\ ~TellsCompletion(entries[n + 1])
  <2>1. i \in 1..n
    BY <1>1
  <2>2. PICK f \in i..n : \E l \in Completions(entries[f]) : peer = l.id
    BY <2>1 DEF DoneUpTo
  <2>3. f \in i..(n + 1)
    OBVIOUS
  <2> QED
    BY <1>1, <2>2, <2>3
<1>2. CASE \E l \in Completions(entries[n + 1]) : last = l.id
  <2>1. n + 1 \in i..(n + 1)
    OBVIOUS
  <2> QED
    BY <1>2, <2>1
<1> QED
  BY <1>1, <1>2

LEMMA FlowTells ==
  ASSUME LogsInv
  PROVE  /\ Flow.put_edges \in Seq(LogPeers \X Nat)
         /\ AskedUpTo(Len(entries), Flow.put_edges) /\ DoneUpTo(Len(entries), Flow.put_completion_peer)
<1> DEFINE N == Len(entries)
<1>1. N \in Nat /\ \A i \in 1..N : entries[i] \in Entry /\ Headed(entries[i])
  BY LenProperties, ElementOfSeq DEF LogsInv, Reader
<1>2. PICK flow : FlowRun(flow)
  BY <1>1, FlowSteps
<1> DEFINE Told(n) == /\ IsFlow(flow[n])
                      /\ AskedUpTo(n, flow[n].put_edges) /\ DoneUpTo(n, flow[n].put_completion_peer)
           T == {n \in Nat : n <= N => Told(n)}
<1>3. 0 \in T
  <2>1. flow[0] = NoFlow
    BY <1>2 DEF FlowRun
  <2>2. IsFlow(NoFlow) /\ NoFlow.put_edges = <<>>
    BY EmptySeq DEF IsFlow, NoFlow
  <2>3. AskedUpTo(0, <<>>) /\ DoneUpTo(0, NoFlow.put_completion_peer)
    BY EmptySeq DEF AskedUpTo, DoneUpTo
  <2> QED
    BY <2>1, <2>2, <2>3
<1>4. ASSUME NEW n \in T PROVE n + 1 \in T
  <2> SUFFICES ASSUME n + 1 <= N PROVE Told(n + 1)
    OBVIOUS
  <2>1. n \in Nat /\ n \in 0..(N - 1) /\ n + 1 \in 1..N /\ n <= N
    BY <1>1
  <2>2. Told(n)
    BY <2>1
  <2>3. flow[n + 1] = AddEntry(flow[n], entries[n + 1])
    BY <1>2, <2>1 DEF FlowRun
  <2>4. Tells(flow[n], entries[n + 1], flow[n + 1])
    BY <1>1, <2>1, <2>2, <2>3, EntryTells
  <2>5. flow[n].put_edges \in Seq(LogPeers \X Nat)
    BY <2>2 DEF IsFlow
  <2>6. AskedUpTo(n + 1, flow[n + 1].put_edges)
    BY <2>1, <2>2, <2>4, <2>5, AskedStep DEF Tells
  <2>7. DoneUpTo(n + 1, flow[n + 1].put_completion_peer)
    BY <2>1, <2>2, <2>4, DoneStep DEF Tells
  <2> QED
    BY <2>4, <2>6, <2>7 DEF Tells
<1>5. T = Nat
  BY <1>3, <1>4, Induction
<1>6. Told(N)
  BY <1>1, <1>5
<1>7. Flow = flow[N]
  BY <1>2 DEF FlowRun
<1> QED
  BY <1>6, <1>7 DEF IsFlow

\* A line in an entry is what was written, and its time, if it has one, is the entry's.
LEMMA LineOfEntry ==
  ASSUME LogsInv, NEW i \in 1..Len(entries), NEW l \in MessageLines(entries[i])
  PROVE  /\ l = log[l.id[1]][l.id[2]] /\ l.id # <<>>
         /\ Stamped(l.id[1], l) => entries[i].timestamp = l.at /\ l.at # NoTime
<1>1. entries[i] \in Entry /\ Headed(entries[i])
  BY ElementOfSeq DEF LogsInv, Reader
<1>2. PICK k \in 1..Len(entries[i].message) : l = entries[i].message[k]
  BY <1>1, LinesOfEntry
<1>3. l \in AllLines
  BY <1>1, LinesOfEntry
<1>4. l.at # NoTime /\ l.id # <<>>
  <2>1. PICK p \in LogPeers : l.at \in 1..MaxTime /\ l.id \in {p} \X (1..MaxLines)
    BY <1>3 DEF AllLines, LogLines
  <2>2. l.at # NoTime
    BY <2>1, LogBoundsAssumption DEF NoTime
  <2>3. PICK n \in 1..MaxLines : l.id = <<p, n>>
    BY <2>1
  <2>4. <<p, n>> # <<>>
    OBVIOUS
  <2> QED
    BY <2>2, <2>3, <2>4
<1>5. l = log[l.id[1]][l.id[2]]
  BY DEF LogsInv, Gathered, OnlyRead, WasRead
<1> QED
  BY <1>1, <1>2, <1>4, <1>5 DEF Headed

\* The flow of a contract shows the requests for it, once each and in the order of time, all of
\* those that begin an entry, and the latest completion, though it keeps the last it meets.
THEOREM FlowIsAsLogged == LogsSpec => []FlowAsLogged
<1>1. ASSUME LogsInv, reading = Finished
      PROVE  LET flow == Flow
                 shown == flow.put_edges
                 At(id) == log[id[1]][id[2]]
             IN  /\ \A i \in DOMAIN shown : At(shown[i]).line.what = "request" /\ At(shown[i]).line.ours
                 /\ IsInjective(shown)
                 /\ \A i, j \in DOMAIN shown :
                      /\ i < j
                      /\ Stamped(shown[i][1], At(shown[i])) /\ Stamped(shown[j][1], At(shown[j]))
                      => At(shown[i]).at <= At(shown[j]).at
                 /\ \A p \in LogPeers : \A n \in 1..taken[p] :
                      Stamped(p, log[p][n]) /\ log[p][n].line.what = "request" /\ log[p][n].line.ours =>
                        <<p, n>> \in {shown[i] : i \in DOMAIN shown}
                 /\ \A i \in DOMAIN entries :
                      entries[i].timestamp # NoTime /\ TellsCompletion(entries[i]) =>
                        LET id == flow.put_completion_peer
                        IN  /\ id # <<>> /\ At(id).line.what = "completed" /\ At(id).line.ours
                            /\ Stamped(id[1], At(id)) => At(id).at >= entries[i].timestamp
  <2> DEFINE N == Len(entries)
             shown == Flow.put_edges
             At(id) == log[id[1]][id[2]]
             peer == Flow.put_completion_peer
  <2>1. shown \in Seq(LogPeers \X Nat) /\ AskedUpTo(N, shown) /\ DoneUpTo(N, peer)
    BY <1>1, FlowTells
  <2> HIDE DEF shown, peer
  <2>2. /\ Len(shown) \in Nat /\ DOMAIN shown = 1..Len(shown)
        /\ N \in Nat /\ DOMAIN entries = 1..N
    BY <1>1, <2>1, LenProperties DEF LogsInv, Reader
  <2>3. ASSUME NEW k \in 1..Len(shown)
        PROVE  \E i \in 1..N : \E l \in MessageLines(entries[i]) :
                 /\ AsksIn(i, shown[k]) /\ l.id = shown[k] /\ At(shown[k]) = l
                 /\ l.line.what = "request" /\ l.line.ours
    <3>1. PICK i \in 1..N : AsksIn(i, shown[k])
      BY <2>1 DEF AskedUpTo
    <3>2. PICK l \in Requests(entries[i]) : l.id = shown[k]
      BY <3>1 DEF AsksIn
    <3>3. l \in MessageLines(entries[i]) /\ l.line.what = "request" /\ l.line.ours
      BY DEF Requests
    <3>4. l = log[l.id[1]][l.id[2]]
      BY <1>1, <3>3, LineOfEntry
    <3> QED
      BY <3>1, <3>2, <3>3, <3>4
  <2>4. \A i \in DOMAIN shown : At(shown[i]).line.what = "request" /\ At(shown[i]).line.ours
    BY <2>2, <2>3
  <2>5. IsInjective(shown)
    <3>1. ASSUME NEW k \in 1..Len(shown), NEW m \in 1..Len(shown), k < m, shown[k] = shown[m]
          PROVE  FALSE
      <4>1. PICK i \in 1..N : AsksIn(i, shown[k])
        BY <2>1 DEF AskedUpTo
      <4>2. i < i
        BY <2>1, <3>1, <4>1 DEF AskedUpTo
      <4> QED
        BY <2>2, <4>2
    <3>2. \A k, m \in 1..Len(shown) : k < m \/ m < k \/ k = m
      BY <2>2
    <3> QED
      BY <2>2, <3>1, <3>2 DEF IsInjective
  <2>6. ASSUME NEW k \in DOMAIN shown, NEW m \in DOMAIN shown, k < m,
               Stamped(shown[k][1], At(shown[k])), Stamped(shown[m][1], At(shown[m]))
        PROVE  At(shown[k]).at <= At(shown[m]).at
    <3>1. PICK i \in 1..N : \E l \in MessageLines(entries[i]) :
            AsksIn(i, shown[k]) /\ l.id = shown[k] /\ At(shown[k]) = l
      BY <2>2, <2>3
    <3>2. PICK j \in 1..N : \E l \in MessageLines(entries[j]) :
            AsksIn(j, shown[m]) /\ l.id = shown[m] /\ At(shown[m]) = l
      BY <2>2, <2>3
    <3>3. i < j
      BY <2>1, <2>2, <2>6, <3>1, <3>2 DEF AskedUpTo
    <3>4. entries[i].timestamp = At(shown[k]).at
      BY <1>1, <2>6, <3>1, LineOfEntry
    <3>5. entries[j].timestamp = At(shown[m]).at /\ At(shown[m]).at # NoTime
      BY <1>1, <2>6, <3>2, LineOfEntry
    <3>6. entries[i].timestamp \in 1..entries[j].timestamp /\ entries[j].timestamp \in 0..MaxTime
      BY <1>1, <3>3, <3>5, SortedTimes
    <3> HIDE DEF At
    <3> QED
      BY <3>4, <3>5, <3>6, LogBoundsAssumption
  <2>7. ASSUME NEW p \in LogPeers, NEW n \in 1..taken[p],
               Stamped(p, log[p][n]), log[p][n].line.what = "request", log[p][n].line.ours
        PROVE  <<p, n>> \in {shown[i] : i \in DOMAIN shown}
    <3> DEFINE l == log[p][n]
    <3>1. /\ l.id = <<p, n>> /\ l.line \in Lines
      <4>1. IsFile(p, log[p]) /\ taken[p] \in Nat /\ taken[p] <= Len(log[p]) /\ Len(log[p]) \in Nat
        BY <1>1, LenProperties DEF LogsInv, Written, Reader, IsFile
      <4>2. n \in 1..Len(log[p])
        BY <4>1
      <4>3. l \in LogLines(p)
        BY <4>1, <4>2, ElementOfSeq DEF IsFile
      <4> QED
        BY <4>1, <4>2, <4>3 DEF IsFile, LogLines
    <3>2. ~l.line.blank
      BY <2>7, <3>1, WhatsAssumption
    <3>3. PICK i \in 1..N : l \in MessageLines(entries[i])
      BY <1>1, <3>2 DEF LogsInv, Gathered, AllRead
    <3>4. l \in Requests(entries[i]) /\ Stamped(l.id[1], l)
      BY <2>7, <3>1, <3>3 DEF Requests
    <3>5. PICK k \in 1..Len(shown) : shown[k] = l.id
      BY <2>1, <3>4 DEF AskedUpTo
    <3> QED
      BY <2>2, <3>1, <3>5
  <2>8. ASSUME NEW i \in DOMAIN entries, entries[i].timestamp # NoTime, TellsCompletion(entries[i])
        PROVE  /\ peer # <<>> /\ At(peer).line.what = "completed" /\ At(peer).line.ours
               /\ Stamped(peer[1], At(peer)) => At(peer).at >= entries[i].timestamp
    <3>1. PICK f \in i..N : \E l \in Completions(entries[f]) : peer = l.id
      BY <2>1, <2>2, <2>8 DEF DoneUpTo
    <3>2. PICK l \in MessageLines(entries[f]) : peer = l.id /\ l.line.what = "completed" /\ l.line.ours
      BY <3>1 DEF Completions
    <3>3. f \in 1..N /\ i \in 1..N /\ (i = f \/ i < f)
      BY <2>2
    <3>4. l = At(peer) /\ peer # <<>>
      BY <1>1, <3>2, <3>3, LineOfEntry
    <3>5. ASSUME Stamped(peer[1], At(peer)) PROVE At(peer).at >= entries[i].timestamp
      <4>1. entries[f].timestamp = l.at /\ l.at # NoTime
        BY <1>1, <3>2, <3>3, <3>4, <3>5, LineOfEntry
      <4>2. entries[f].timestamp \in 0..MaxTime /\ entries[i].timestamp \in 0..MaxTime
        <5>1. entries \in Seq(Entry)
          BY <1>1 DEF LogsInv, Reader
        <5>2. entries[f] \in Entry /\ entries[i] \in Entry
          BY <3>3, <5>1, ElementOfSeq
        <5> QED
          BY <5>2 DEF Entry
      <4>3. i < f => entries[i].timestamp \in 1..entries[f].timestamp
        BY <1>1, <3>3, <4>1, SortedTimes
      <4>4. entries[i].timestamp <= entries[f].timestamp
        BY <3>3, <4>2, <4>3, LogBoundsAssumption
      <4>5. l.at >= entries[i].timestamp
        <5>1. \A x, y \in Int : x <= y => y >= x
          OBVIOUS
        <5> QED
          BY <4>1, <4>2, <4>4, <5>1, LogBoundsAssumption
      <4> QED
        BY <3>4, <4>5
    <3> QED
      BY <3>2, <3>4, <3>5
  <2> QED
    BY <2>4, <2>5, <2>6, <2>7, <2>8 DEF shown, peer
<1>2. ASSUME LogsInv PROVE FlowAsLogged
  BY <1>1, <1>2, Zenon DEF FlowAsLogged
<1> QED
  BY <1>2, LogsInvariant, PTL

-----------------------------------------------------------------------------
\* Both reports

\* The type invariant of the two reports: each keeps to its own while the other runs.
THEOREM ReportTypesCorrect == MCSpec => []TypeOK
<1>1. MCInit => LogsInit /\ RingInit
  BY DEF MCInit
<1>2. [MCNext]_<<report, logVars, ringVars>> => [LogsNext]_logVars /\ [RingNext]_ringVars
  BY DEF MCNext
<1>3. MCSpec => LogsSpec /\ RingSpec
  BY <1>1, <1>2, PTL DEF MCSpec, LogsSpec, RingSpec
<1>4. LogsTypeOK /\ RingTypeOK => TypeOK
  BY DEF TypeOK
<1> QED
  BY <1>3, <1>4, LogsTypeCorrect, RingTypeCorrect, PTL
=============================================================================
