-------------------------- MODULE MCKeyDistribution --------------------------
(* Where the nodes of the instances run.                                    *)
EXTENDS KeyDistribution

\* The gateways on this machine, the peers on the one machine there is.
OneMachine ==
  LET m == CHOOSE x \in Machines : TRUE
  IN [r \in Runs |-> [n \in Nodes |-> IF IsGateway(n) THEN Here ELSE m]]

\* The last gateway and the first peer of each run on a machine of its own, the rest here;
\* but one run all in containers.
Mixed ==
  LET machine == CHOOSE f \in [Runs -> Machines] : \A r, q \in Runs : f[r] = f[q] => r = q
      boxed == CHOOSE r \in Runs : TRUE
  IN [r \in Runs |-> [n \in Nodes |->
        IF r = boxed THEN Docker
        ELSE IF n \in {NumGateways, NumGateways + 1} THEN machine[r] ELSE Here]]
=============================================================================
