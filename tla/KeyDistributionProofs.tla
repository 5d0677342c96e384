------------------------- MODULE KeyDistributionProofs -------------------------
(***************************************************************************)
(* Proofs about KeyDistribution, for any number of runs, gateways and      *)
(* peers, wherever they are placed: keys and directories have the right    *)
(* kinds, and, as long as no two runs place nodes of one index on one      *)
(* machine, every node runs with its own key and knows its own gateways.   *)
(***************************************************************************)
EXTENDS KeyDistribution, TLAPS

\* What holds at each point of a node's start, whatever other runs upload.
PointOK(r) ==
  /\ step[r] # "generate" => node[r] \in Nodes
  /\ step[r] \in {"keypair", "public", "gateways"} => OnMachine(r)
  /\ step[r] = "gateways" => gw[r] \in Gateways /\ node[r] \notin Gateways
  /\ step[r] \in {"gateways", "start"} /\ OnMachine(r) => public_key[Where(r)][node[r]] \in Keys

TypeInv == TypeOK /\ \A r \in Runs : PointOK(r)

LEMMA Kinds ==
  /\ Gateways \subseteq Nodes /\ 1 \in Gateways
  /\ \A r \in Runs : \A n \in Nodes : NewKey(r, n) \in Keys /\ NewKey(r, n) # NoKey
  /\ \A r \in Runs : \A n \in Nodes : Place[r][n] \in Machines \union {Here, Docker}
  /\ \A r \in Runs : node[r] \in Nodes =>
       Where(r) \in Machines \union {Here, Docker} /\ (OnMachine(r) <=> Where(r) \in Machines)
  BY NodesAssumption DEF Gateways, Nodes, NewKey, Keys, NoKey, Where, OnMachine

\* A run's steps leave the others where they are, and a key once uploaded is replaced only
\* by another.
LEMMA PointKept ==
  ASSUME TypeInv, NEW q \in Runs,
         node'[q] = node[q], step'[q] = step[q], gw'[q] = gw[q],
         \A m \in Machines : \A n \in Nodes :
           public_key[m][n] \in Keys => public_key'[m][n] \in Keys
  PROVE  PointOK(q)'
  BY Kinds DEF TypeInv, PointOK, Where, OnMachine

LEMMA TypeInit == Init => TypeInv
  BY NodesAssumption, Kinds DEF Init, TypeInv, TypeOK, PointOK, Nodes, Gateways, NoKey

LEMMA GenerateTypes ==
  ASSUME TypeInv, NEW r \in Runs, Generate(r)
  PROVE  TypeInv'
<1>1. TypeOK'
  BY DEF TypeInv, TypeOK, Generate, Then, files
<1>2. PointOK(r)'
  BY Kinds DEF TypeInv, TypeOK, PointOK, Generate, Then, files, OnMachine, Where
<1>3. ASSUME NEW q \in Runs, q # r PROVE PointOK(q)'
  BY <1>3, PointKept DEF TypeInv, TypeOK, Generate, Then, files
<1> QED
  BY <1>1, <1>2, <1>3 DEF TypeInv

LEMMA UploadTypes ==
  ASSUME TypeInv, NEW r \in Runs, Upload(r)
  PROVE  TypeInv'
<1> DEFINE w == Where(r)
           n == node[r]
<1>0. /\ n \in Nodes /\ w \in Machines /\ NewKey(r, n) \in Keys
      /\ step[r] = "gateways" => gw[r] \in Gateways /\ GatewayKey(r) \in Keys
      /\ keypair \in [Machines -> [Nodes -> Keys \union {NoKey}]]
      /\ public_key \in [Machines -> [Nodes -> Keys \union {NoKey}]]
  BY Kinds DEF TypeInv, TypeOK, PointOK, Upload, UploadKeypair, UploadPublicKey,
               UploadGatewayKey, GatewayKey, OnMachine
<1>1. CASE UploadKeypair(r)
  <2>1. TypeOK'
    BY <1>0, <1>1 DEF TypeInv, TypeOK, UploadKeypair, Then
  <2>2. PointOK(r)'
    BY <1>0, <1>1 DEF TypeInv, TypeOK, PointOK, UploadKeypair, Then, OnMachine, Where
  <2>3. ASSUME NEW q \in Runs, q # r PROVE PointOK(q)'
    BY <1>1, <2>3, PointKept DEF TypeInv, TypeOK, UploadKeypair, Then
  <2> QED
    BY <2>1, <2>2, <2>3 DEF TypeInv
<1>2. ASSUME NEW k \in Keys, public_key' = [public_key EXCEPT ![w][n] = k]
      PROVE  /\ public_key' \in [Machines -> [Nodes -> Keys \union {NoKey}]]
             /\ public_key'[w][n] = k
             /\ \A m \in Machines : \A i \in Nodes :
                  public_key[m][i] \in Keys => public_key'[m][i] \in Keys
  BY <1>0, <1>2
<1>3. CASE UploadPublicKey(r)
  <2>1. TypeOK'
    BY <1>0, <1>2, <1>3, NodesAssumption DEF TypeInv, TypeOK, UploadPublicKey, Then
  <2>2. PointOK(r)'
    BY <1>0, <1>2, <1>3, Kinds
       DEF TypeInv, TypeOK, PointOK, UploadPublicKey, Then, OnMachine, Where, IsGateway
  <2>3. ASSUME NEW q \in Runs, q # r PROVE PointOK(q)'
    BY <1>0, <1>2, <1>3, <2>3, PointKept DEF TypeInv, TypeOK, UploadPublicKey, Then
  <2> QED
    BY <2>1, <2>2, <2>3 DEF TypeInv
<1>4. CASE UploadGatewayKey(r)
  <2>1. /\ gw[r] \in Gateways /\ n \notin Gateways /\ GatewayKey(r) \in Keys
        /\ gw' = [gw EXCEPT ![r] = @ + 1]
    BY <1>0, <1>4 DEF TypeInv, PointOK, UploadGatewayKey
  <2>2. TypeOK'
    BY <1>0, <1>2, <1>4, <2>1, NodesAssumption DEF TypeInv, TypeOK, UploadGatewayKey, Then, Gateways
  <2>3. PointOK(r)'
    BY <1>0, <1>2, <1>4, <2>1, NodesAssumption
       DEF TypeInv, TypeOK, PointOK, UploadGatewayKey, Then, OnMachine, Where, MoreGateways,
           Gateways
  <2>4. ASSUME NEW q \in Runs, q # r PROVE PointOK(q)'
    BY <1>0, <1>2, <1>4, <2>1, <2>4, PointKept DEF TypeInv, TypeOK, UploadGatewayKey, Then
  <2> QED
    BY <2>2, <2>3, <2>4 DEF TypeInv
<1> QED
  BY <1>1, <1>3, <1>4 DEF Upload

LEMMA StartTypes ==
  ASSUME TypeInv, NEW r \in Runs, Start(r)
  PROVE  TypeInv'
<1> DEFINE w == Where(r)
           n == node[r]
<1>0. /\ n \in Nodes /\ w \in Machines \union {Here, Docker}
      /\ OnMachine(r) => w \in Machines /\ public_key[w][n] \in Keys
      /\ \A g \in Nodes : NewKey(r, g) \in Keys
  BY Kinds DEF TypeInv, PointOK, Start, OnMachine
<1>1. \A g \in Gateways : EntryKey(r, g) \in Keys
  BY <1>0, Kinds, NodesAssumption DEF EntryKey, LocalEntry, ContainerEntry, OnMachine
<1>2. trusts' \in [Runs -> [Nodes -> SUBSET (Gateways \X Keys)]]
  BY <1>0, <1>1 DEF TypeInv, TypeOK, Start
<1>3. identity' \in [Runs -> [Nodes -> Keys \union {NoKey}]]
  BY <1>0 DEF TypeInv, TypeOK, Start
<1>4. TypeOK'
  BY <1>0, <1>2, <1>3, NodesAssumption DEF TypeInv, TypeOK, Start, Then, files, Nodes
<1>5. PointOK(r)'
  BY DEF TypeInv, TypeOK, PointOK, Start, Then
<1>6. ASSUME NEW q \in Runs, q # r PROVE PointOK(q)'
  BY <1>6, PointKept DEF TypeInv, TypeOK, Start, Then, files
<1> QED
  BY <1>4, <1>5, <1>6 DEF TypeInv

LEMMA TypeStep ==
  ASSUME TypeInv, [Next]_vars
  PROVE  TypeInv'
<1>1. CASE UNCHANGED vars
  BY <1>1 DEF vars, files, TypeInv, TypeOK, PointOK, OnMachine, Where
<1> QED
  BY <1>1, GenerateTypes, UploadTypes, StartTypes DEF Next

\* The type invariant, for any number of runs and nodes and wherever they are.
THEOREM KeyTypeCorrect == Spec => []TypeOK
  BY TypeInit, TypeStep, PTL DEF Spec, TypeInv

-----------------------------------------------------------------------------
\* No two runs have nodes of one index on one machine: their directories there have one name.
Separate ==
  \A r, q \in Runs : \A n \in Nodes :
    Place[r][n] = Place[q][n] /\ Place[r][n] \in Machines => r = q

\* What a run has uploaded for the node it starts is there; those it has started have their
\* own keys, the others none; and peers, started after all the gateways, know no other keys.
OwnAt(r) ==
  /\ OnMachine(r) /\ step[r] \in {"public", "gateways", "start"} =>
       keypair[Where(r)][node[r]] = NewKey(r, node[r])
  /\ OnMachine(r) /\ step[r] = "start" /\ node[r] \notin Gateways =>
       \E g \in Gateways : public_key[Where(r)][node[r]] = NewKey(r, g)
  /\ \A n \in Nodes : identity[r][n] = IF n < node[r] THEN NewKey(r, n) ELSE NoKey
  /\ \A n \in Nodes : n >= node[r] \/ n \in Gateways => trusts[r][n] = {}
  /\ \A n \in Nodes : \A t \in trusts[r][n] :
       /\ t[1] \in Gateways
       /\ \E g \in Gateways : t[2] = NewKey(r, g)
       /\ Place[r][n] = Here => t[2] = NewKey(r, t[1])

OwnInv == TypeInv /\ \A r \in Runs : OwnAt(r)

\* The files another run writes are others.
LEMMA OwnKept ==
  ASSUME OwnInv, NEW q \in Runs,
         node'[q] = node[q], step'[q] = step[q],
         identity'[q] = identity[q], trusts'[q] = trusts[q],
         OnMachine(q) /\ step[q] # "generate" =>
           /\ keypair'[Where(q)][node[q]] = keypair[Where(q)][node[q]]
           /\ public_key'[Where(q)][node[q]] = public_key[Where(q)][node[q]]
  PROVE  OwnAt(q)'
<1>1. Where(q)' = Where(q) /\ (OnMachine(q)' <=> OnMachine(q))
  BY DEF Where, OnMachine
<1>2. \A n : NewKey(q, n)' = NewKey(q, n)
  BY DEF NewKey
<1>3. OwnAt(q)
  BY DEF OwnInv
<1> QED
  BY <1>1, <1>2, <1>3 DEF OwnAt

LEMMA OwnGenerate ==
  ASSUME OwnInv, NEW r \in Runs, Generate(r), NEW q \in Runs
  PROVE  OwnAt(q)'
<1>1. CASE q = r
  <2>1. /\ node' = node /\ identity' = identity /\ trusts' = trusts
        /\ step'[r] = (IF OnMachine(r) THEN "keypair" ELSE "start")
    BY DEF Generate, Then, OwnInv, TypeInv, TypeOK
  <2> QED
    BY <1>1, <2>1 DEF OwnInv, OwnAt, Where, OnMachine, NewKey
<1>2. CASE q # r
  BY <1>2, OwnKept DEF OwnInv, TypeInv, TypeOK, Generate, Then, files
<1> QED
  BY <1>1, <1>2

LEMMA OwnUpload ==
  ASSUME OwnInv, Separate, NEW r \in Runs, Upload(r), NEW q \in Runs
  PROVE  OwnAt(q)'
<1> DEFINE w == Where(r)
           n == node[r]
<1>0. /\ n \in Nodes /\ w \in Machines /\ OnMachine(r)
      /\ keypair \in [Machines -> [Nodes -> Keys \union {NoKey}]]
      /\ public_key \in [Machines -> [Nodes -> Keys \union {NoKey}]]
      /\ step \in [Runs -> {"generate", "keypair", "public", "gateways", "start"}]
      /\ node' = node /\ identity' = identity /\ trusts' = trusts
      /\ step' = [step EXCEPT ![r] = step'[r]]
  BY Kinds DEF OwnInv, TypeInv, TypeOK, PointOK, Upload, UploadKeypair, UploadPublicKey,
               UploadGatewayKey, OnMachine, Then
<1>1. \/ /\ step[r] = "keypair" /\ step'[r] = "public" /\ UNCHANGED public_key
         /\ keypair' = [keypair EXCEPT ![w][n] = NewKey(r, n)]
      \/ /\ step[r] = "public" /\ step'[r] = (IF IsGateway(n) THEN "start" ELSE "gateways")
         /\ public_key' = [public_key EXCEPT ![w][n] = NewKey(r, n)] /\ UNCHANGED keypair
      \/ /\ step[r] = "gateways" /\ step'[r] \in {"gateways", "start"} /\ UNCHANGED keypair
         /\ \E g \in Gateways : public_key' = [public_key EXCEPT ![w][n] = NewKey(r, g)]
  BY <1>0 DEF Upload, UploadKeypair, UploadPublicKey, UploadGatewayKey, Then, GatewayKey,
              OwnInv, TypeInv, PointOK
<1>2. CASE q = r
  <2>1. /\ keypair'[w][n] = NewKey(r, n) /\ step'[r] # "generate"
        /\ step'[r] = "start" /\ n \notin Gateways =>
             \E g \in Gateways : public_key'[w][n] = NewKey(r, g)
    BY <1>0, <1>1 DEF OwnInv, OwnAt, IsGateway
  <2>2. w' = w /\ n' = n
    BY <1>0 DEF Where
  <2> QED
    BY <1>0, <1>2, <2>1, <2>2 DEF OwnInv, OwnAt, NewKey
<1>3. CASE q # r
  <2>1. /\ node'[q] = node[q] /\ step'[q] = step[q]
        /\ identity'[q] = identity[q] /\ trusts'[q] = trusts[q]
    BY <1>0, <1>3
  <2>2. ASSUME OnMachine(q), step[q] # "generate"
        PROVE  Where(q) \in Machines /\ node[q] \in Nodes /\ <<Where(q), node[q]>> # <<w, n>>
    BY <1>0, <1>3, <2>2 DEF Separate, Where, OnMachine, OwnInv, TypeInv, PointOK
  <2>3. ASSUME OnMachine(q), step[q] # "generate"
        PROVE  /\ keypair'[Where(q)][node[q]] = keypair[Where(q)][node[q]]
               /\ public_key'[Where(q)][node[q]] = public_key[Where(q)][node[q]]
    BY <1>0, <1>1, <2>2, <2>3
  <2> QED
    BY <2>1, <2>3, OwnKept
<1> QED
  BY <1>2, <1>3

LEMMA OwnStart ==
  ASSUME OwnInv, NEW r \in Runs, Start(r), NEW q \in Runs
  PROVE  OwnAt(q)'
<1> DEFINE w == Where(r)
           n == node[r]
<1>0. /\ n \in Nodes /\ n \in Nat /\ step[r] = "start" /\ Nodes \subseteq Nat
      /\ step'[r] = "generate" /\ node'[r] = n + 1
      /\ OnMachine(r) <=> w \in Machines
      /\ w \in Machines \union {Here, Docker} /\ w = Place[r][n]
      /\ OwnAt(r)
  BY Kinds DEF OwnInv, TypeInv, TypeOK, PointOK, Start, Then, Where, Nodes
<1>1. CASE q = r
  <2>1. /\ identity'[r][n] = NewKey(r, n)
        /\ \A i \in Nodes \ {n} : identity'[r][i] = identity[r][i] /\ trusts'[r][i] = trusts[r][i]
        /\ trusts'[r][n] =
             (IF IsGateway(n) THEN {} ELSE {<<g, EntryKey(r, g)>> : g \in Gateways})
    BY <1>0 DEF Start, OwnInv, TypeInv, TypeOK, OwnAt
  <2>2. \A i \in Nodes : identity'[r][i] = IF i < n + 1 THEN NewKey(r, i) ELSE NoKey
    <3>1. \A i \in Nodes : identity[r][i] = IF i < n THEN NewKey(r, i) ELSE NoKey
      BY <1>0 DEF OwnAt
    <3>2. \A i \in Nodes : i # n => (i < n + 1 <=> i < n)
      BY <1>0
    <3> QED
      BY <1>0, <2>1, <3>1, <3>2
  <2>3. \A i \in Nodes : i >= n + 1 \/ i \in Gateways => trusts'[r][i] = {}
    <3>1. \A i \in Nodes : i >= n \/ i \in Gateways => trusts[r][i] = {}
      BY <1>0 DEF OwnAt
    <3>2. \A i \in Nodes : i >= n + 1 => i # n /\ i >= n
      BY <1>0
    <3>3. n \in Gateways => trusts'[r][n] = {}
      BY <2>1 DEF IsGateway
    <3> QED
      BY <2>1, <3>1, <3>2, <3>3
  <2>4. ASSUME n \notin Gateways, NEW g \in Gateways
        PROVE  /\ \E h \in Gateways : EntryKey(r, g) = NewKey(r, h)
               /\ Place[r][n] = Here => EntryKey(r, g) = NewKey(r, g)
    BY <1>0, <2>4, Kinds, NodesAssumption DEF OwnAt, EntryKey, LocalEntry, ContainerEntry, NewKey
  <2>5. ASSUME NEW i \in Nodes, NEW t \in trusts'[r][i]
        PROVE  /\ t[1] \in Gateways
               /\ \E g \in Gateways : t[2] = NewKey(r, g)
               /\ Place[r][i] = Here => t[2] = NewKey(r, t[1])
    <3>1. CASE i = n
      BY <2>1, <2>4, <2>5, <3>1 DEF IsGateway
    <3>2. CASE i # n
      BY <1>0, <2>1, <2>5, <3>2 DEF OwnAt
    <3> QED
      BY <3>1, <3>2
  <2> QED
    BY <1>0, <1>1, <2>2, <2>3, <2>5 DEF OwnAt, NewKey
<1>2. CASE q # r
  BY <1>2, OwnKept DEF OwnInv, TypeInv, TypeOK, Start, Then, files
<1> QED
  BY <1>1, <1>2

LEMMA OwnThroughout ==
  ASSUME Separate
  PROVE  Spec => []OwnInv
<1>1. Init => OwnInv
  BY TypeInit, NodesAssumption DEF Init, OwnInv, OwnAt, Nodes
<1>2. OwnInv /\ [Next]_vars => OwnInv'
  <2> SUFFICES ASSUME OwnInv, [Next]_vars PROVE OwnInv'
    OBVIOUS
  <2>1. CASE UNCHANGED vars
    BY <2>1, TypeStep DEF vars, files, OwnInv, OwnAt, Where, OnMachine, NewKey
  <2>2. CASE Next
    BY <2>2, TypeStep, OwnGenerate, OwnUpload, OwnStart DEF Next, OwnInv
  <2> QED
    BY <2>1, <2>2
<1> QED
  BY <1>1, <1>2, PTL DEF Spec

\* Every node of every run has a key of its own, unless runs share directories of a machine
\* (builder.rs:387, 397).
THEOREM KeysAreDistinct ==
  ASSUME Separate
  PROVE  Spec => []IdentitiesDistinct
<1>1. OwnInv => IdentitiesDistinct
  <2> SUFFICES ASSUME OwnInv, NEW r \in Runs, NEW q \in Runs, NEW n \in Nodes, NEW m \in Nodes,
                      identity[r][n] = identity[q][m], identity[r][n] # NoKey
               PROVE  <<r, n>> = <<q, m>>
    BY DEF IdentitiesDistinct
  <2>1. identity[r][n] = NewKey(r, n) /\ identity[q][m] = NewKey(q, m)
    BY DEF OwnInv, OwnAt
  <2> QED
    BY <2>1 DEF NewKey
<1> QED
  BY <1>1, OwnThroughout, PTL

\* And what a peer takes for a gateway's key is the key of a gateway of its own run.
THEOREM GatewaysAreOwn ==
  ASSUME Separate
  PROVE  Spec => []OwnGatewaysKnown
<1>1. ASSUME OwnInv, NEW r \in Runs, NEW n \in Nodes, NEW t \in trusts[r][n]
      PROVE  /\ \E g \in Gateways : t[2] = identity[r][g]
             /\ Place[r][n] = Here => t[2] = identity[r][t[1]]
  <2>1. n < node[r] /\ n \notin Gateways /\ n \in Nat /\ node[r] \in Nat
    <3>1. n \in Nat /\ node[r] \in Nat
      BY <1>1, NodesAssumption DEF OwnInv, TypeInv, TypeOK, Nodes
    <3>2. ~(n >= node[r]) /\ n \notin Gateways
      BY <1>1 DEF OwnInv, OwnAt
    <3> QED
      BY <3>1, <3>2
  <2>2. \A g \in Gateways : g \in Nodes /\ g < node[r]
    BY <2>1, NodesAssumption DEF Gateways, Nodes
  <2>3. \A g \in Gateways : identity[r][g] = NewKey(r, g)
    BY <1>1, <2>2 DEF OwnInv, OwnAt
  <2> QED
    BY <1>1, <2>3 DEF OwnInv, OwnAt
<1>2. OwnInv => OwnGatewaysKnown
  BY <1>1 DEF OwnGatewaysKnown
<1> QED
  BY <1>2, OwnThroughout, PTL

\* Each entry of gateways.toml leads to the key of the gateway it is of, if there is one gateway
\* or every peer is on this machine.  For the rest the files of several gateways have one name.
OneOrHere == NumGateways = 1 \/ \A r \in Runs : \A n \in Nodes \ Gateways : Place[r][n] = Here

\* What README.md:229 says of the keys of the gateways is true of such networks.
THEOREM EntriesLeadToGateways ==
  ASSUME Separate, OneOrHere
  PROVE  Spec => []GatewaysKnown
<1>1. ASSUME OwnInv, OwnGatewaysKnown, NEW r \in Runs, NEW n \in Nodes, NEW t \in trusts[r][n]
      PROVE  t[2] = identity[r][t[1]]
  <2>1. CASE NumGateways = 1
    <3>1. t[1] \in Gateways /\ \E g \in Gateways : t[2] = identity[r][g]
      BY <1>1 DEF OwnInv, OwnAt, OwnGatewaysKnown
    <3> QED
      BY <2>1, <3>1 DEF Gateways
  <2>2. CASE NumGateways # 1
    <3>1. n \notin Gateways
      BY <1>1 DEF OwnInv, OwnAt
    <3> QED
      BY <1>1, <2>2, <3>1 DEF OneOrHere, OwnGatewaysKnown
  <2> QED
    BY <2>1, <2>2
<1>2. OwnInv /\ OwnGatewaysKnown => GatewaysKnown
  BY <1>1 DEF GatewaysKnown
<1> QED
  BY <1>2, OwnThroughout, GatewaysAreOwn, PTL
=============================================================================
