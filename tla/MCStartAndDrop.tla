---------------------------- MODULE MCStartAndDrop ----------------------------
(***************************************************************************)
(* How a network begins and how it ends: the binary its nodes are started  *)
(* from, the addresses and ports they are given, and Drop.  The three have *)
(* no state in common and are checked in behaviours of their own.          *)
(***************************************************************************)
EXTENDS NodeStart, BinaryResolve, NetworkDrop

\* Around every bound: no gateway, few, the index whose address equals a router's last octet
\* (90), the first to overflow (246), and the 257th node.
Sizes == {<<0, 3>>, <<1, 256>>, <<0, 257>>, <<92, 165>>, <<246, 10>>, <<248, 2>>}

VARIABLE about

MCInit ==
  /\ StartInit /\ ResolveInit /\ DropInit
  /\ about \in {"nodes", "binary", "drop"}
  /\ about # "nodes" => backend = "Local"
  /\ about # "binary" => kind = "Path" /\ profile = "Debug" /\ target_env = "unset" /\ at_root
  /\ about # "drop" => how = "sync" /\ total = 0

MCNext ==
  /\ UNCHANGED about
  /\ \/ about = "nodes" /\ StartNext /\ UNCHANGED <<resolveVars, dropVars>>
     \/ about = "binary" /\ ResolveNext /\ UNCHANGED <<startVars, dropVars>>
     \/ about = "drop" /\ DropNext /\ UNCHANGED <<startVars, resolveVars>>

MCSpec ==
  /\ MCInit /\ [][MCNext]_<<about, startVars, resolveVars, dropVars>>
  /\ WF_dropVars(DropStep)

\* The type invariant: of the nodes as they start, the binary and Drop.
TypeOK == StartTypeOK /\ ResolveTypeOK /\ DropTypeOK
=============================================================================
