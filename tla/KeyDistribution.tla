---------------------------- MODULE KeyDistribution ----------------------------
(***************************************************************************)
(* The keys of a network's nodes (src/builder.rs): each node is given a    *)
(* keypair and started with it, and each peer a gateways.toml that names a *)
(* key file for every gateway.  A node on this machine reads the files of  *)
(* its own run; one on another machine those in <work_dir>/<id> of that    *)
(* machine, which are uploaded one by one and whose names say nothing of   *)
(* the run; one in a container those that are put into the container.      *)
(* Several runs build at the same time, every upload a step of its own.    *)
(***************************************************************************)
EXTENDS Integers

CONSTANTS
  Runs,           \* networks that are built
  NumGateways,    \* the nodes 1 .. NumGateways of each are gateways
  NumNodes,       \* gateways and peers, started in the order 1 .. NumNodes
  Here,           \* the location of nodes on this machine
  Docker,         \* the location of nodes in containers, one for each
  Machines,       \* other machines
  Place           \* the location of every node of every run

ASSUME NodesAssumption ==
  /\ NumNodes \in Nat /\ NumGateways \in 1..NumNodes
  /\ Here # Docker /\ {Here, Docker} \cap Machines = {}
  /\ Place \in [Runs -> [1..NumNodes -> Machines \union {Here, Docker}]]

Nodes == 1..NumNodes
Gateways == 1..NumGateways

\* A key is the one generated for a node of a run.
Keys == Runs \X Nodes
NoKey == <<>>

VARIABLES
  node,        \* each run: the node being started
  step,        \* and what is done next for it
  gw,          \* and the gateway whose key is uploaded next
  keypair,     \* keypair.pem of each machine's directory of each node
  public_key,  \* public_key.pem there
  identity,    \* the key each running node was started with
  trusts       \* the gateways each running node knows, each with the key it read for it

files == <<keypair, public_key>>
vars == <<node, step, gw, files, identity, trusts>>

Where(r) == Place[r][node[r]]
OnMachine(r) == Where(r) \in Machines
IsGateway(n) == n \in Gateways

\* Mutant: the keypair is generated once for a network.
NewKey_Shared(r, n) == <<r, 1>>

NewKey(r, n) == <<r, n>>

Then(r, what) == step' = [step EXCEPT ![r] = what]

-----------------------------------------------------------------------------
\* generate_keypair writes the files of the run's own directory; then the uploads.
Generate(r) ==
  /\ step[r] = "generate" /\ node[r] \in Nodes
  /\ Then(r, IF OnMachine(r) THEN "keypair" ELSE "start")
  /\ UNCHANGED <<node, gw, files, identity, trusts>>

UploadKeypair(r) ==
  /\ step[r] = "keypair"
  /\ keypair' = [keypair EXCEPT ![Where(r)][node[r]] = NewKey(r, node[r])]
  /\ Then(r, "public")
  /\ UNCHANGED <<node, gw, public_key, identity, trusts>>

\* public_key.pem, after which a peer is given the keys of the gateways.
UploadPublicKey(r) ==
  /\ step[r] = "public"
  /\ public_key' = [public_key EXCEPT ![Where(r)][node[r]] = NewKey(r, node[r])]
  /\ gw' = [gw EXCEPT ![r] = 1]
  /\ Then(r, IF IsGateway(node[r]) THEN "start" ELSE "gateways")
  /\ UNCHANGED <<node, keypair, identity, trusts>>

\* Mutant: the peer's own public_key_path is uploaded.
GatewayKey_Own(r) == NewKey(r, node[r])

GatewayKey(r) == NewKey(r, gw[r])

MoreGateways(r) == gw[r] < NumGateways

\* The key of a gateway goes to the file name it has on this machine: public_key.pem.
UploadGatewayKey(r) ==
  /\ step[r] = "gateways"
  /\ public_key' = [public_key EXCEPT ![Where(r)][node[r]] = GatewayKey(r)]
  /\ gw' = [gw EXCEPT ![r] = @ + 1]
  /\ Then(r, IF MoreGateways(r) THEN "gateways" ELSE "start")
  /\ UNCHANGED <<node, keypair, identity, trusts>>

\* public_key is the path of the gateway's own file.
LocalEntry(r, g) == NewKey(r, g)

\* gateway_info.first()
ContainerEntry(r) == NewKey(r, 1)

\* The key that the entry of gateway g in gateways.toml leads to: on this machine the
\* gateway's own public_key.pem; on another one the public_key.pem that was uploaded there;
\* in a container /config/gw_public_key.pem, the first gateway's.
EntryKey(r, g) ==
  CASE Where(r) = Here   -> LocalEntry(r, g)
    [] Where(r) = Docker -> ContainerEntry(r)
    [] OTHER             -> public_key[Where(r)][node[r]]

\* gateways.toml is written and the process spawned, with the keypair of its directory.
Start(r) ==
  /\ step[r] = "start"
  /\ identity' = [identity EXCEPT ![r][node[r]] =
                    IF OnMachine(r) THEN keypair[Where(r)][node[r]] ELSE NewKey(r, node[r])]
  /\ trusts' = [trusts EXCEPT ![r][node[r]] =
                  IF IsGateway(node[r]) THEN {} ELSE {<<g, EntryKey(r, g)>> : g \in Gateways}]
  /\ node' = [node EXCEPT ![r] = @ + 1]
  /\ Then(r, "generate")
  /\ UNCHANGED <<gw, files>>

-----------------------------------------------------------------------------
Init ==
  /\ node = [r \in Runs |-> 1]
  /\ step = [r \in Runs |-> "generate"]
  /\ gw = [r \in Runs |-> 1]
  /\ keypair = [m \in Machines |-> [n \in Nodes |-> NoKey]]
  /\ public_key = [m \in Machines |-> [n \in Nodes |-> NoKey]]
  /\ identity = [r \in Runs |-> [n \in Nodes |-> NoKey]]
  /\ trusts = [r \in Runs |-> [n \in Nodes |-> {}]]

Upload(r) == UploadKeypair(r) \/ UploadPublicKey(r) \/ UploadGatewayKey(r)
Next == \E r \in Runs : Generate(r) \/ Upload(r) \/ Start(r)

Spec == Init /\ [][Next]_vars

-----------------------------------------------------------------------------
\* Properties

\* The type invariant.
TypeOK ==
  /\ node \in [Runs -> 1..(NumNodes + 1)]
  /\ step \in [Runs -> {"generate", "keypair", "public", "gateways", "start"}]
  /\ gw \in [Runs -> 1..(NumGateways + 1)]
  /\ keypair \in [Machines -> [Nodes -> Keys \union {NoKey}]]
  /\ public_key \in [Machines -> [Nodes -> Keys \union {NoKey}]]
  /\ identity \in [Runs -> [Nodes -> Keys \union {NoKey}]]
  /\ trusts \in [Runs -> [Nodes -> SUBSET (Gateways \X Keys)]]

\* "Generate a unique transport keypair for every node so identities are distinct"
\* (builder.rs:387): no two running nodes, of whichever run, have the same key.
IdentitiesDistinct ==
  \A r, q \in Runs : \A n, m \in Nodes :
    identity[r][n] = identity[q][m] => identity[r][n] = NoKey \/ <<r, n>> = <<q, m>>

\* What a running peer takes for a gateway's key is a key one of its own run's gateways runs
\* with, never its own or another run's; on this machine it is that very gateway's.
OwnGatewaysKnown ==
  \A r \in Runs : \A n \in Nodes : \A t \in trusts[r][n] :
    /\ \E g \in Gateways : t[2] = identity[r][g]
    /\ Place[r][n] = Here => t[2] = identity[r][t[1]]

\* "Gateway public keys are uploaded to remote peers" (README.md:229): the key a running
\* peer holds for a gateway is the key that gateway runs with.
GatewaysKnown ==
  \A r \in Runs : \A n \in Nodes : \A t \in trusts[r][n] : t[2] = identity[r][t[1]]
=============================================================================
