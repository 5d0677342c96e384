----------------------------- MODULE PeerProcess -----------------------------
(***************************************************************************)
(* The processes of a network that is not built with Docker: spawned one   *)
(* after the other by build_local (src/builder.rs), held as LocalProcess   *)
(* or SshProcess (src/process.rs), and killed by Drop when the build has   *)
(* failed or the caller lets go of the network.  The processes run and     *)
(* exit by themselves at any moment; those on other machines are reached   *)
(* by one SSH session for each command.  The program does one thing at a   *)
(* time: its calls block.  (TestPeer::kill needs a TestPeer that nothing   *)
(* outside the crate can borrow mutably, and nothing inside calls it.)     *)
(***************************************************************************)
EXTENDS Integers

CONSTANTS
  NumPeers,    \* gateways and peers, spawned in the order 1 .. NumPeers
  Remote       \* those of PeerLocation::Remote

ASSUME PeersAssumption == NumPeers \in Nat \ {0} /\ Remote \subseteq 1..NumPeers

Peers == 1..NumPeers
Local == Peers \ Remote
Nobody == 0

VARIABLES
  proc,        \* the process of each peer, as its operating system sees it
  held,        \* peers whose process or remote_pid is Some
  pc,          \* where the owner of the peers is
  next,        \* the peer to be spawned next
  target,      \* the remote peer whose kill is under way
  step,        \* and how far it is
  lost         \* history: peers whose spawn, `kill -0` or `kill -9` an SSH session failed

vars == <<proc, held, pc, next, target, step, lost>>
kill == <<target, step>>

\* A process that has been told to terminate goes on until it does, if ever.
Alive == {"running", "terminating"}

-----------------------------------------------------------------------------
\* Processes exit by themselves.  A child of this program stays a zombie until it is waited for.
Exits(p) ==
  /\ proc[p] \in Alive
  /\ proc' = [proc EXCEPT ![p] = IF p \in Remote THEN "gone" ELSE "zombie"]
  /\ UNCHANGED <<held, pc, next, kill, lost>>

-----------------------------------------------------------------------------
\* build_local

\* Every error return drops the vectors of the peers started so far.
Fails == pc' = "drop" /\ UNCHANGED next

MoreToSpawn == next <= NumPeers

\* spawn_local_peer, or spawn_remote_peer with a pid in the answer.
Spawns ==
  /\ pc = "build" /\ MoreToSpawn
  /\ proc' = [proc EXCEPT ![next] = "running"]
  /\ held' = held \union {next}
  /\ next' = next + 1
  /\ UNCHANGED <<pc, kill, lost>>

\* No binary, no session, no directory: an error before there is a process.
SpawnFails ==
  /\ pc = "build" /\ MoreToSpawn
  /\ Fails
  /\ UNCHANGED <<proc, held, kill, lost>>

\* The remote command has run, and the answer with the pid is lost or not a number.
SpawnAnswerLost ==
  /\ pc = "build" /\ next \in Remote
  /\ proc' = [proc EXCEPT ![next] = "running"]
  /\ lost' = lost \union {next}
  /\ Fails
  /\ UNCHANGED <<held, kill>>

\* wait_until_ready_with_timeout returns Ok, or an error.
BuildReturns ==
  /\ pc = "build" /\ ~MoreToSpawn
  /\ pc' = "live"
  /\ UNCHANGED <<proc, held, next, kill, lost>>

BuildFails ==
  /\ pc = "build" /\ ~MoreToSpawn
  /\ Fails
  /\ UNCHANGED <<proc, held, kill, lost>>

\* The caller lets go of the network.
LetsGo ==
  /\ pc = "live"
  /\ pc' = "drop"
  /\ UNCHANGED <<proc, held, next, kill, lost>>

-----------------------------------------------------------------------------
\* Drop of one peer after the other: those of a network in their order, those of a failed
\* build the peers before the gateways, hence here in any order.

MayKill(p) == pc = "drop" /\ target = Nobody /\ p \in held

\* LocalProcess: take, SIGKILL, wait.
KillLocal(p) ==
  /\ MayKill(p) /\ p \in Local
  /\ proc' = [proc EXCEPT ![p] = "gone"]
  /\ held' = held \ {p}
  /\ UNCHANGED <<pc, next, kill, lost>>

\* An SSH session may fail, before its command has an effect; a signal that is sent although
\* the answer is lost counts as one whose session worked.
Noted(ok) == IF ok THEN lost ELSE lost \union {target}

\* SshProcess: take the pid, `kill`.  The error of a session or of the command is ignored.
KillRemote(p) ==
  /\ MayKill(p) /\ p \in Remote
  /\ held' = held \ {p}
  /\ target' = p /\ step' = "sleep"
  /\ \E ok \in BOOLEAN :
       proc' = [proc EXCEPT ![p] = IF ok /\ @ \in Alive THEN "terminating" ELSE @]
  /\ UNCHANGED <<pc, next, lost>>

\* Half a second later `kill -0`.  A failed session counts as a process that is not there.
Probes ==
  /\ target # Nobody /\ step = "sleep"
  /\ \E ok \in BOOLEAN :
       /\ lost' = Noted(ok)
       /\ IF ok /\ proc[target] \in Alive
          THEN step' = "force" /\ UNCHANGED target
          ELSE step' = "idle" /\ target' = Nobody
  /\ UNCHANGED <<proc, held, pc, next>>

\* Mutant: the second signal is SIGTERM as well.
Forced_Asks(p) == proc[p]

Forced(p) == "gone"

\* `kill -9`; its error is ignored as well.
ForceKill ==
  /\ target # Nobody /\ step = "force"
  /\ \E ok \in BOOLEAN :
       /\ lost' = Noted(ok)
       /\ proc' = [proc EXCEPT ![target] = IF ok THEN Forced(target) ELSE @]
  /\ step' = "idle" /\ target' = Nobody
  /\ UNCHANGED <<held, pc, next>>

\* Every peer is dropped.
Dropped ==
  /\ pc = "drop" /\ target = Nobody /\ held = {}
  /\ pc' = "gone"
  /\ UNCHANGED <<proc, held, next, kill, lost>>

-----------------------------------------------------------------------------
Init ==
  /\ proc = [p \in Peers |-> "none"]
  /\ held = {}
  /\ pc = "build" /\ next = 1
  /\ target = Nobody /\ step = "idle"
  /\ lost = {}

Build == Spawns \/ SpawnFails \/ SpawnAnswerLost \/ BuildReturns \/ BuildFails
Kill == (\E p \in Peers : KillLocal(p) \/ KillRemote(p)) \/ Probes \/ ForceKill
Next ==
  \/ \E p \in Peers : Exits(p)
  \/ Build \/ LetsGo \/ Kill \/ Dropped

Spec == Init /\ [][Next]_vars

-----------------------------------------------------------------------------
\* Properties

\* The type invariant.
TypeOK ==
  /\ proc \in [Peers -> Alive \union {"none", "zombie", "gone"}]
  /\ held \subseteq Peers
  /\ pc \in {"build", "live", "drop", "gone"}
  /\ next \in 1..(NumPeers + 1)
  /\ target \in Remote \union {Nobody} /\ step \in {"idle", "sleep", "force"}
  /\ lost \subseteq Remote

\* When the program is through with the network, however far the build got and whatever
\* sessions failed, no child is left running or unreaped, and no process on another machine
\* but one whose pid never came back or whose last signals got lost: a failed `kill` alone
\* is made up for by `kill -9` (process.rs:57, :85-98, :128; README.md:231).
NothingLeftRunning ==
  pc = "gone" => \A p \in Peers \ lost : proc[p] \in {"none", "gone"}
=============================================================================
