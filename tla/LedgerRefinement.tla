--------------------------- MODULE LedgerRefinement ---------------------------
(***************************************************************************)
(* DockerNat as an implementation of ResourceLedger, with a daemon that    *)
(* does what it is asked for and networks that are cleaned up on drop.     *)
(***************************************************************************)
EXTENDS DockerNat, Integers

\* How far a run is, as its ledger sees it.
Phase(point) ==
  CASE point = "idle"        -> "none"
    [] point \in DropPoints  -> "dropping"
    [] point = "done"        -> "ended"
    [] point = "crashed"     -> "crashed"
    [] OTHER                 -> "active"

Never == -1

Born(x) ==
  IF x \in ContainerIds
  THEN IF Exists(x) THEN dockerContainers[x].born ELSE Never
  ELSE IF Present(x) THEN dockerNetworks[x].born ELSE Never

Ledger == INSTANCE ResourceLedger WITH
  Owners     <- Runs,
  Containers <- ContainerIds,
  Networks   <- NetworkIds,
  clock      <- now,
  phase      <- [r \in Runs |-> Phase(pc[r])],
  began      <- stamp,
  born       <- [x \in ContainerIds \union NetworkIds |-> Born(x)],
  ledger     <- [r \in Runs |-> containers[r] \union networks[r]]

\* The lists of the backend are such a ledger: between any two Docker calls of any run what
\* exists is on its owner's list, Drop takes containers off first, and others take only what
\* is old (docker.rs:364, 538, 616, 749, 1036, 1207, 1706-1709).
KeepsLedger == Ledger!LedgerSpec
=============================================================================
