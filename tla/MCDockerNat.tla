----------------------------- MODULE MCDockerNat -----------------------------
(***************************************************************************)
(* Instances of DockerNat for TLC.  With MaxAge = 1 a tick of the clock    *)
(* stands for the ten seconds of DockerNatBackend::new, with MaxAge = 0    *)
(* for anything longer.                                                    *)
(***************************************************************************)
EXTENDS LedgerRefinement, TLC

Symmetry == Permutations(Runs)

\* Runs at the same time, which draw either the same subnets or both others.
ConcurrentNext ==
  \/ Tick
  \/ \E c \in ContainerIds : ContainerExits(c)
  \/ \E r \in Runs :
       \/ Configure(r) /\ base'[r] = public_subnet'[r] % 16
       \/ RunStep(r) \/ Release(r) \/ Crash(r)

ConcurrentSpec == Init /\ [][ConcurrentNext]_vars

\* Runs one after the other: a run is configured only when every earlier one has ended.
SequentialNext ==
  \/ Tick
  \/ \E c \in ContainerIds : ContainerExits(c)
  \/ \E r \in Runs :
       \/ Configure(r) /\ \A q \in Runs \ {r} : pc[q] \in {"idle", "done", "crashed"}
       \/ RunStep(r) \/ Release(r) \/ Crash(r)

SequentialSpec == Init /\ [][SequentialNext]_vars
=============================================================================
