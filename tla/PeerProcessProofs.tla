--------------------------- MODULE PeerProcessProofs ---------------------------
(***************************************************************************)
(* Proofs about PeerProcess, for any number of peers on any machines: the  *)
(* type invariant, and that nothing is left running that can be reached.   *)
(***************************************************************************)
EXTENDS PeerProcess, TLAPS

\* Every process that is not accounted for by its operating system has an owner in the
\* program: it is held, or its kill is under way; or a session failed for it.
Accounted ==
  \A p \in Peers : proc[p] \notin {"none", "gone"} => p \in held \/ p = target \/ p \in lost

\* Nothing is held any more at the end, and peers are killed only by their drop.
Ended ==
  /\ pc = "gone" => held = {}
  /\ target # Nobody => pc = "drop"

\* Only children of this program become zombies.
RemoteNoZombie == \A p \in Remote : proc[p] # "zombie"

IInv == TypeOK /\ Accounted /\ Ended /\ RemoteNoZombie

\* The type invariant, whatever SSH sessions fail (process.rs).
THEOREM TypeCorrect == Spec => []TypeOK
<1>1. Init => TypeOK
  BY PeersAssumption DEF Init, TypeOK, Peers, Alive, Nobody
<1>2. TypeOK /\ [Next]_vars => TypeOK'
  <2> SUFFICES ASSUME TypeOK, [Next]_vars PROVE TypeOK'
    OBVIOUS
  <2> USE PeersAssumption DEF TypeOK, Peers, Alive, Nobody, kill
  <2>1. ASSUME NEW p \in Peers, Exits(p) PROVE TypeOK'
    BY <2>1 DEF Exits
  <2>2. CASE Spawns
    BY <2>2 DEF Spawns, MoreToSpawn
  <2>3. CASE SpawnFails
    BY <2>3 DEF SpawnFails, Fails, MoreToSpawn
  <2>4. CASE SpawnAnswerLost
    BY <2>4 DEF SpawnAnswerLost, Fails
  <2>5. CASE BuildReturns
    BY <2>5 DEF BuildReturns
  <2>6. CASE LetsGo
    BY <2>6 DEF LetsGo
  <2>7. ASSUME NEW p \in Peers, KillLocal(p) PROVE TypeOK'
    BY <2>7 DEF KillLocal
  <2>8. ASSUME NEW p \in Peers, KillRemote(p) PROVE TypeOK'
    BY <2>8 DEF KillRemote
  <2>9. CASE Probes
    BY <2>9 DEF Probes, Noted
  <2>10. CASE ForceKill
    BY <2>10 DEF ForceKill, Forced, Noted
  <2>11. CASE Dropped
    BY <2>11 DEF Dropped
  <2>12. CASE BuildFails
    BY <2>12 DEF BuildFails, Fails
  <2>13. CASE UNCHANGED vars
    BY <2>13 DEF vars
  <2> QED
    BY <2>1, <2>2, <2>3, <2>4, <2>5, <2>6, <2>7, <2>8, <2>9, <2>10, <2>11, <2>12,
       <2>13
    DEF Next, Build, Kill
<1> QED
  BY <1>1, <1>2, PTL DEF Spec

\* The strengthening is inductive.
LEMMA Inductive ==
  ASSUME IInv, TypeOK', [Next]_vars
  PROVE  IInv'
<1> USE PeersAssumption DEF IInv, TypeOK, Peers, Alive, Nobody, kill, Accounted, Ended,
      RemoteNoZombie
<1>1. ASSUME NEW p \in Peers, Exits(p) PROVE IInv'
  BY <1>1 DEF Exits
<1>2. CASE Spawns
  BY <1>2 DEF Spawns, MoreToSpawn
<1>3. CASE SpawnFails
  BY <1>3 DEF SpawnFails, Fails, MoreToSpawn
<1>4. CASE SpawnAnswerLost
  BY <1>4 DEF SpawnAnswerLost, Fails
<1>5. CASE BuildReturns \/ LetsGo
  BY <1>5 DEF BuildReturns, LetsGo
<1>6. CASE BuildFails
  BY <1>6 DEF BuildFails, Fails
<1>7. ASSUME NEW p \in Peers, KillLocal(p) PROVE IInv'
  BY <1>7 DEF KillLocal, MayKill
<1>8. ASSUME NEW p \in Peers, KillRemote(p) PROVE IInv'
  BY <1>8 DEF KillRemote, MayKill
<1>9. CASE Probes
  BY <1>9 DEF Probes, Noted
<1>10. CASE ForceKill
  BY <1>10 DEF ForceKill, Forced, Noted
<1>11. CASE Dropped
  BY <1>11 DEF Dropped
<1>12. CASE UNCHANGED vars
  BY <1>12 DEF vars
<1> QED
  BY <1>1, <1>2, <1>3, <1>4, <1>5, <1>6, <1>7, <1>8, <1>9, <1>10, <1>11, <1>12
  DEF Next, Build, Kill

\* A failed build or a dropped network leaves no process and no zombie but those that SSH
\* lost, for any number of peers on any machines (process.rs:57, :128; README.md:231).
THEOREM NoneLeft == Spec => []NothingLeftRunning
<1>1. Init => IInv
  BY PeersAssumption
  DEF Init, IInv, TypeOK, Accounted, Ended, RemoteNoZombie, Peers, Alive, Nobody
<1>2. IInv /\ TypeOK' /\ [Next]_vars => IInv'
  BY Inductive
<1>3. IInv => NothingLeftRunning
  BY DEF IInv, TypeOK, Accounted, Ended, NothingLeftRunning, Nobody, Peers, Alive
<1> QED
  BY <1>1, <1>2, <1>3, TypeCorrect, PTL DEF Spec
=============================================================================
