------------------------------ MODULE ContractFlow ------------------------------
(***************************************************************************)
(* collect_contract_flow (src/network.rs): what the logs tell of one       *)
(* contract.  Each entry that mentions it counts for one thing, whichever  *)
(* pattern it matches first; a pattern finds the first line of a message   *)
(* that fits it.  A line's `what` says which pattern it fits, `ours`       *)
(* whether it names the contract, as its key where the pattern has one.    *)
(* The fields of an update are left out.                                   *)
(***************************************************************************)
EXTENDS NetworkLogs

Whats == {"request", "completed", "update", "noTargets", "wontPropagate", "plain"}

ASSUME WhatsAssumption ==
  \A l \in Lines : l.what \in Whats /\ l.ours \in BOOLEAN /\ (l.blank => l.what = "plain" /\ ~l.ours)

NoFlow == [put_edges |-> <<>>, put_completion_peer |-> <<>>, update_edges |-> <<>>, errors |-> <<>>]

\* The first line of a message that fits a pattern, none of which goes beyond a line.
Fits(e, what) == \E i \in DOMAIN e.message : e.message[i].line.what = what
Captured(e, what) ==
  e.message[CHOOSE i \in DOMAIN e.message :
              /\ e.message[i].line.what = what
              /\ \A j \in 1..(i - 1) : e.message[j].line.what # what]

\* entry.message.contains(contract_id)
Mentions(e) == \E l \in MessageLines(e) : l.line.ours

\* caps["key"] == contract_id, or caps["contract"].
Counts(l) == l.line.ours

\* Mutant: the first completion is kept.
Completed_First(data, id) ==
  IF data.put_completion_peer = <<>> THEN [data EXCEPT !.put_completion_peer = id] ELSE data

Completed(data, id) == [data EXCEPT !.put_completion_peer = id]

\* One turn of the loop over the entries: the first pattern that fits decides, also when the
\* line it captures is of another contract.
AddEntry(data, e) ==
  LET IfOurs(what, new) == IF Counts(Captured(e, what)) THEN new ELSE data
  IN  IF ~Mentions(e) THEN data
      ELSE IF Fits(e, "request")
      THEN IfOurs("request", [data EXCEPT !.put_edges = Append(@, Captured(e, "request").id)])
      ELSE IF Fits(e, "completed")
      THEN IfOurs("completed", Completed(data, Captured(e, "completed").id))
      ELSE IF Fits(e, "update")
      THEN IfOurs("update", [data EXCEPT !.update_edges = Append(@, Captured(e, "update").id)])
      ELSE IF Fits(e, "noTargets")
      THEN IfOurs("noTargets", [data EXCEPT !.errors = Append(@, e)])
      ELSE IF Fits(e, "wontPropagate")
      THEN [data EXCEPT !.errors = Append(@, e)]
      ELSE data

\* collect_contract_flow
Flow ==
  LET flow[n \in 0..Len(entries)] == IF n = 0 THEN NoFlow ELSE AddEntry(flow[n - 1], entries[n])
  IN  flow[Len(entries)]

-----------------------------------------------------------------------------
\* Properties

\* An entry that tells of a completion: no request is in it, and of the completions in it the
\* first is one of this contract.
TellsCompletion(e) ==
  /\ ~Fits(e, "request")
  /\ \E i \in DOMAIN e.message :
       /\ e.message[i].line.what = "completed" /\ e.message[i].line.ours
       /\ \A j \in 1..(i - 1) : e.message[j].line.what # "completed"

\* What the flow shows is what the logs tell.  The requests shown are requests for this
\* contract, no two the same, in the order of time, and every such request that starts an entry
\* of its own is shown.  The peer shown as having completed the put has completed one of this
\* contract, and it is that of the latest completion that was read, whichever peer's log it is
\* in: the last match wins because the entries are sorted (network.rs:506-533).  A completion is
\* passed over only if a line of a request, or before it one of another contract's completion,
\* was glued into the same entry.
FlowAsLogged ==
  reading = Finished =>
    LET flow == Flow
        shown == flow.put_edges
        At(id) == log[id[1]][id[2]]
    IN  /\ \A i \in DOMAIN shown : At(shown[i]).line.what = "request" /\ At(shown[i]).line.ours
        /\ IsInjective(shown)
        /\ \A i, j \in DOMAIN shown :
             /\ i < j
             /\ Stamped(shown[i][1], At(shown[i])) /\ Stamped(shown[j][1], At(shown[j]))
             => At(shown[i]).at <= At(shown[j]).at
        /\ \A p \in LogPeers : \A n \in 1..taken[p] :
             Stamped(p, log[p][n]) /\ log[p][n].line.what = "request" /\ log[p][n].line.ours =>
               <<p, n>> \in {shown[i] : i \in DOMAIN shown}
        /\ \A i \in DOMAIN entries :
             entries[i].timestamp # NoTime /\ TellsCompletion(entries[i]) =>
               LET id == flow.put_completion_peer
               IN  /\ id # <<>> /\ At(id).line.what = "completed" /\ At(id).line.ours
                   /\ Stamped(id[1], At(id)) => At(id).at >= entries[i].timestamp
=============================================================================
