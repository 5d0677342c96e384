---------------------------- MODULE MCNetworkReport ----------------------------
(***************************************************************************)
(* The two reports of a network, each in a behaviour of its own: the logs  *)
(* with the flow of a contract, and the ring.  They have no state in       *)
(* common, so one behaviour with both would show nothing more.             *)
(***************************************************************************)
EXTENDS ContractFlow, RingReport

Line(stamped, blank, what, ours) ==
  [stamped |-> stamped, blank |-> blank, what |-> what, ours |-> ours]

SomeLines ==
  {Line(TRUE, FALSE, "request", TRUE), Line(FALSE, FALSE, "request", FALSE),
   Line(FALSE, FALSE, "completed", TRUE), Line(TRUE, FALSE, "completed", FALSE),
   Line(FALSE, TRUE, "plain", FALSE)}

SomePlacements ==
  {<<"local", "remote">>, <<"remote", "remote">>, <<"docker", "docker">>}

\* At the origin of the ring and across it, at the bounds of buckets, and without a location.
SomeLocations == {<<95, 5, 45>>, <<10, 60, NoLocation>>, <<0, 3, 33>>}

VARIABLE report

MCInit ==
  /\ LogsInit /\ RingInit
  /\ \/ report = "logs" /\ locations = <<95, 5, 45>> /\ lists = [p \in Asked |-> {}]
     \/ report = "ring" /\ place = <<"local", "remote">> /\ \A p \in Asked : p \notin lists[p]

MCNext ==
  /\ UNCHANGED report
  /\ \/ report = "logs" /\ LogsNext /\ UNCHANGED ringVars
     \/ report = "ring" /\ RingNext /\ UNCHANGED logVars

MCSpec == MCInit /\ [][MCNext]_<<report, logVars, ringVars>>

\* The type invariant: that of the logs (network and cached copies) and that of the ring.
TypeOK == LogsTypeOK /\ RingTypeOK
=============================================================================
