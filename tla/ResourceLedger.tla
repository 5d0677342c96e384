---------------------------- MODULE ResourceLedger ----------------------------
(***************************************************************************)
(* What the Docker backend promises of the containers and networks that    *)
(* test runs create in a daemon they share (src/docker.rs), without saying *)
(* how: a run enters what it creates in a ledger and lets go of it all in  *)
(* the end, containers before networks, and takes nothing of another's     *)
(* that is not old.  Only the ledger of a run that crashes is lost.        *)
(***************************************************************************)
EXTENDS Integers

CONSTANTS
  Owners,      \* test runs
  Containers,  \* ids of containers and of networks: tuples that begin with the owner
  Networks,
  MaxAge       \* the age after which others may take something away

VARIABLES
  clock,
  phase,   \* of each owner: "none", "active", "dropping", "ended" or "crashed"
  began,   \* when each owner began
  born,    \* when each container and network was created, if it exists
  ledger   \* of each owner: what it is going to remove

ledgerVars == <<clock, phase, began, born, ledger>>

Resources == Containers \union Networks
Of(x) == x[1]
Never == -1

\* A container is as old as it is, a network as old as its owner.
AgeBegins(x) == IF x \in Containers THEN born[x] ELSE began[Of(x)]

LedgerInit ==
  /\ clock = 0
  /\ phase = [r \in Owners |-> "none"] /\ began = [r \in Owners |-> 0]
  /\ born = [x \in Resources |-> Never]
  /\ ledger = [r \in Owners |-> {}]

Passes == clock' = clock + 1 /\ UNCHANGED <<phase, began, born, ledger>>

Begin(r) ==
  /\ phase[r] = "none"
  /\ phase' = [phase EXCEPT ![r] = "active"] /\ began' = [began EXCEPT ![r] = clock]
  /\ UNCHANGED <<clock, born, ledger>>

\* Created and entered, in one step: there is no moment at which it could be lost.
Create(x) ==
  /\ phase[Of(x)] = "active" /\ born[x] = Never
  /\ born' = [born EXCEPT ![x] = clock]
  /\ ledger' = [ledger EXCEPT ![Of(x)] = @ \union {x}]
  /\ UNCHANGED <<clock, phase, began>>

\* By anybody.
Sweep(x) ==
  /\ born[x] # Never /\ AgeBegins(x) + MaxAge < clock
  /\ born' = [born EXCEPT ![x] = Never]
  /\ UNCHANGED <<clock, phase, began, ledger>>

LetGo(r) ==
  /\ phase[r] = "active"
  /\ phase' = [phase EXCEPT ![r] = "dropping"]
  /\ UNCHANGED <<clock, began, born, ledger>>

\* Its owner removes it, or finds that it has been swept.
Remove(x) ==
  /\ phase[Of(x)] = "dropping" /\ x \in ledger[Of(x)]
  /\ x \in Networks => ledger[Of(x)] \subseteq Networks
  /\ born' = [born EXCEPT ![x] = Never]
  /\ ledger' = [ledger EXCEPT ![Of(x)] = @ \ {x}]
  /\ UNCHANGED <<clock, phase, began>>

End(r) ==
  /\ phase[r] \in {"active", "dropping"} /\ ledger[r] = {}
  /\ phase' = [phase EXCEPT ![r] = "ended"]
  /\ UNCHANGED <<clock, began, born, ledger>>

Crashes(r) ==
  /\ phase[r] \in {"active", "dropping"}
  /\ phase' = [phase EXCEPT ![r] = "crashed"]
  /\ ledger' = [ledger EXCEPT ![r] = {}]
  /\ UNCHANGED <<clock, began, born>>

\* Most steps of an implementation are none of the ledger's; it is cheaper to see that first.
Elsewhere == UNCHANGED ledgerVars

LedgerNext ==
  \/ Elsewhere
  \/ Passes
  \/ \E r \in Owners : Begin(r) \/ LetGo(r) \/ End(r) \/ Crashes(r)
  \/ \E x \in Resources : Create(x) \/ Sweep(x) \/ Remove(x)

LedgerSpec == LedgerInit /\ [][LedgerNext]_ledgerVars

-----------------------------------------------------------------------------
\* What the ledger is for: whatever becomes of them, owners that do not crash leave nothing
\* in the end, and what there is of the others is on a ledger somebody still works from.
NothingForgotten ==
  \A x \in Resources : born[x] # Never =>
    \/ phase[Of(x)] = "crashed"
    \/ phase[Of(x)] # "ended" /\ x \in ledger[Of(x)]
=============================================================================
