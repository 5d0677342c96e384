------------------------------ MODULE NetworkDrop ------------------------------
(***************************************************************************)
(* The end of a Docker network and the tokio runtime it needs: Drop of the *)
(* handles (DockerProcess) and of the backend (src/docker.rs), and         *)
(* build_sync (src/builder.rs), which builds in a runtime of its own and   *)
(* returns to a caller that may have none.  Blocking on a runtime panics   *)
(* where there is none, or one with a single thread; a panic unwinds, and  *)
(* drops the rest; a panic while unwinding aborts the process.             *)
(***************************************************************************)
EXTENDS Integers, FiniteSets

CONSTANTS
  MaxNodes,    \* bound of the gateways and peers of a network
  Hows,        \* how networks are built: "sync", "current" (thread) or "multi" (thread)
  MayCancel    \* whether a caller of cleanup() may drop its future

ASSUME DropAssumption ==
  MaxNodes \in Nat /\ Hows \subseteq {"sync", "current", "multi"} /\ MayCancel \in BOOLEAN

Containers == 1..MaxNodes

\* The public network, and one for each node as if all were peers.  They are removed in the
\* order of their creation; no property depends on that.
Public == 0
Networks == 0..MaxNodes

VARIABLES
  how,         \* how the network is built
  total,       \* its gateways and peers
  runtime,     \* of the thread the program runs in: "none", "current" or "multi"
  pc,          \* "build", "live", "cleanup", "handles", "backend", "containers", "networks",
               \* "gone" or "aborted"
  panicking,   \* whether that thread is unwinding
  failing,     \* history: the caller was panicking already when it let go
  cancelled,   \* history: a cleanup() was dropped half-way
  handles,     \* DockerProcess handles
  containers,  \* DockerNatBackend::containers
  networks,    \* DockerNatBackend::networks
  taken,       \* containers and networks that Drop or cleanup() has taken off the lists
  exists       \* containers and networks there are

lists == <<containers, networks, taken>>
plan == <<how, total>>
control == <<runtime, pc, panicking, failing, cancelled>>
dropVars == <<plan, control, handles, lists, exists>>

Nothing == [containers |-> {}, networks |-> {}]

-----------------------------------------------------------------------------
\* Building, as far as the end depends on it

MoreToCreate == Cardinality(containers) < total

\* The container is created in a network of its own, and listed; a failure can follow.
CreateNode(i) ==
  /\ pc = "build" /\ MoreToCreate /\ i = Cardinality(containers) + 1
  /\ containers' = containers \union {i} /\ networks' = networks \union {i}
  /\ exists' = [containers |-> containers', networks |-> networks']
  /\ handles' \in {handles, handles \union {i}}
  /\ pc' = IF i \in handles' THEN "build" ELSE "handles"
  /\ UNCHANGED <<plan, runtime, panicking, failing, cancelled, taken>>

\* build_sync's runtime is dropped when it returns, with the network or an error.
RuntimeAfter == IF how = "sync" THEN "none" ELSE runtime

\* wait_until_ready_with_timeout returned Ok.
BuildReturns ==
  /\ pc = "build" /\ Cardinality(handles) = total
  /\ pc' = "live" /\ runtime' = RuntimeAfter
  /\ UNCHANGED <<plan, panicking, failing, cancelled, handles, lists, exists>>

\* Mutant: without block_in_place, blocking panics in every runtime.
BlockingPanics_Anywhere == TRUE

\* block_in_place and Handle::current need a runtime with threads.
BlockingPanics == runtime # "multi"

\* A panic: the first unwinds, and Drop goes on with what is next; the second aborts.
Panics(next) ==
  /\ pc' = IF panicking THEN "aborted" ELSE next
  /\ panicking' = TRUE

Goes(next) == pc' = next /\ UNCHANGED panicking

\* The build has failed: the locals are dropped inside of its runtime.  dump_recent_logs has
\* read the containers' logs before, if it is the network that did not connect.
BuildFails ==
  /\ pc = "build"
  /\ IF Cardinality(handles) = total /\ handles # {} /\ BlockingPanics
     THEN Panics("handles") ELSE Goes("handles")
  /\ UNCHANGED <<plan, runtime, failing, cancelled, handles, lists, exists>>

\* The caller lets go of the network, or panics, a failed assertion mostly.
LetsGo ==
  /\ pc = "live"
  /\ pc' = "handles"
  /\ panicking' \in BOOLEAN /\ failing' = panicking'
  /\ UNCHANGED <<plan, runtime, cancelled, handles, lists, exists>>

-----------------------------------------------------------------------------
\* DockerNatBackend::cleanup, called by an owner of the backend: one after the other, each
\* off its list before it is removed.

CleansUp ==
  /\ pc = "live"
  /\ pc' = "cleanup"
  /\ UNCHANGED <<plan, runtime, panicking, failing, cancelled, handles, lists, exists>>

Attached(n) == IF n = Public THEN exists.containers # {} ELSE n \in exists.containers

CleanupStep ==
  /\ pc = "cleanup" /\ (containers # {} \/ networks # {})
  /\ IF containers # {}
     THEN \E c \in containers :
            /\ containers' = containers \ {c}
            /\ exists' = [exists EXCEPT !.containers = @ \ {c}]
            /\ UNCHANGED networks
     ELSE \E n \in networks :
            /\ networks' = networks \ {n}
            /\ exists' = [exists EXCEPT !.networks = IF Attached(n) THEN @ ELSE @ \ {n}]
            /\ UNCHANGED containers
  /\ UNCHANGED <<plan, control, handles, taken>>

CleanupReturns ==
  /\ pc = "cleanup" /\ containers = {} /\ networks = {}
  /\ pc' = "live"
  /\ UNCHANGED <<plan, runtime, panicking, failing, cancelled, handles, lists, exists>>

\* Its future is dropped at an await.  A Drain that is dropped drops what it has not given out:
\* the list whose turn it is becomes empty.
CleanupCancelled ==
  /\ MayCancel /\ pc = "cleanup" /\ (containers # {} \/ networks # {})
  /\ containers' = {}
  /\ networks' = IF containers # {} THEN networks ELSE {}
  /\ pc' = "live" /\ cancelled' = TRUE
  /\ UNCHANGED <<plan, runtime, panicking, failing, handles, taken, exists>>

-----------------------------------------------------------------------------
\* Drop

\* Mutant: a handle whose drop panics is dropped again while unwinding.
DropHandle_Again(i) ==
  /\ pc = "handles" /\ i \in handles
  /\ handles' = IF BlockingPanics THEN handles ELSE handles \ {i}
  /\ IF BlockingPanics THEN Panics("handles") ELSE Goes("handles")
  /\ UNCHANGED <<plan, runtime, failing, cancelled, lists, exists>>

\* Drop of one handle stops the container, which the backend then removes.
DropHandle(i) ==
  /\ pc = "handles" /\ i \in handles
  /\ handles' = handles \ {i}
  /\ IF BlockingPanics THEN Panics("handles") ELSE Goes("handles")
  /\ UNCHANGED <<plan, runtime, failing, cancelled, lists, exists>>

HandlesDropped ==
  /\ pc = "handles" /\ handles = {}
  /\ pc' = "backend"
  /\ UNCHANGED <<plan, runtime, panicking, failing, cancelled, handles, lists, exists>>

\* try_current: a runtime there is, is blocked on; otherwise one is made.
BackendPanics == runtime = "current"

\* Drop of the backend: the lists are taken, whatever becomes of them.
DropBackend ==
  /\ pc = "backend"
  /\ taken' = IF BackendPanics THEN Nothing ELSE [containers |-> containers, networks |-> networks]
  /\ containers' = {} /\ networks' = {}
  /\ IF BackendPanics THEN Panics("gone") ELSE Goes("containers")
  /\ UNCHANGED <<plan, runtime, failing, cancelled, handles, exists>>

\* All at the same time.
DropContainer(c) ==
  /\ pc = "containers" /\ c \in taken.containers
  /\ taken' = [taken EXCEPT !.containers = @ \ {c}]
  /\ exists' = [exists EXCEPT !.containers = @ \ {c}]
  /\ UNCHANGED <<plan, control, handles, containers, networks>>

\* Mutant: join_all is not awaited.
AllJoined_Early == pc = "containers"

\* Mutant: the containers are waited for until there is none.
AllJoined_Polled == pc = "containers" /\ exists.containers = {}

AllJoined == pc = "containers" /\ taken.containers = {}

ContainersDropped ==
  /\ AllJoined
  /\ pc' = "networks"
  /\ UNCHANGED <<plan, runtime, panicking, failing, cancelled, handles, lists, exists>>

\* The daemon refuses to remove a network with a container attached, which is only logged.
DropNetwork(n) ==
  /\ pc = "networks" /\ n \in taken.networks
  /\ taken' = [taken EXCEPT !.networks = @ \ {n}]
  /\ exists' = [exists EXCEPT !.networks = IF Attached(n) THEN @ ELSE @ \ {n}]
  /\ UNCHANGED <<plan, control, handles, containers, networks>>

Dropped ==
  /\ pc = "networks" /\ taken.networks = {}
  /\ pc' = "gone"
  /\ UNCHANGED <<plan, runtime, panicking, failing, cancelled, handles, lists, exists>>

-----------------------------------------------------------------------------
DropInit ==
  /\ how \in Hows
  /\ runtime = IF how = "sync" THEN "multi" ELSE how
  /\ total \in 0..MaxNodes
  /\ pc = "build" /\ panicking = FALSE /\ failing = FALSE /\ cancelled = FALSE
  /\ handles = {} /\ containers = {} /\ networks = {Public}
  /\ taken = Nothing /\ exists = [Nothing EXCEPT !.networks = {Public}]

DropStep ==
  \/ \E i \in Containers : DropHandle(i) \/ DropContainer(i)
  \/ \E n \in Networks : DropNetwork(n)
  \/ HandlesDropped \/ DropBackend \/ ContainersDropped \/ Dropped

DropNext ==
  \/ \E i \in Containers : CreateNode(i)
  \/ BuildReturns \/ BuildFails \/ LetsGo
  \/ CleansUp \/ CleanupStep \/ CleanupReturns \/ CleanupCancelled
  \/ DropStep

DropSpec == DropInit /\ [][DropNext]_dropVars

\* Docker calls return, since the client has a timeout, and nothing else waits.
FairDropSpec == DropSpec /\ WF_dropVars(DropStep)

-----------------------------------------------------------------------------
\* Properties

\* The type invariant.
DropTypeOK ==
  /\ how \in Hows /\ total \in 0..MaxNodes /\ runtime \in {"none", "current", "multi"}
  /\ pc \in {"build", "live", "cleanup", "handles", "backend", "containers", "networks",
             "gone", "aborted"}
  /\ panicking \in BOOLEAN /\ failing \in BOOLEAN /\ cancelled \in BOOLEAN
  /\ handles \subseteq 1..total
  /\ containers \subseteq 1..total /\ networks \subseteq 0..total
  /\ taken \in [containers : SUBSET (1..total), networks : SUBSET (0..total)]
  /\ exists \in [containers : SUBSET (1..total), networks : SUBSET (0..total)]

\* "Drop trait still executes, cleaning up resources" (README.md:102), also when the build
\* or a test has failed: on a runtime with threads always, and without one unless the process
\* is aborted.  What can be left behind is by a cleanup() that was dropped, or on a
\* single-threaded runtime (docker.rs:282-294, 1486-1513, 1667-1732).
LeavesNothing ==
  pc = "gone" /\ ~cancelled /\ runtime # "current" => exists = Nothing

\* Drop aborts the process only where there is no runtime with threads, and only for a second
\* panic: every handle panics there, the backend on a single-threaded runtime, and a failing
\* test has panicked before.  So a network of one node, let go of by a test that passes, is
\* survived without a runtime, and its panic does not keep the backend from removing it.
AbortTakesTwo ==
  pc = "aborted" =>
    /\ runtime # "multi"
    /\ total + (IF runtime = "current" THEN 1 ELSE 0) + (IF failing THEN 1 ELSE 0) >= 2

\* What is left of Drop: the parts after this one, and what this one has before it.
PartsLeft == [build |-> 5, live |-> 5, cleanup |-> 5, handles |-> 4, backend |-> 3,
              containers |-> 2, networks |-> 1, gone |-> 0, aborted |-> 0]
DropLeft ==
  <<PartsLeft[pc],
    Cardinality(handles) + Cardinality(taken.containers) + Cardinality(taken.networks)>>

Fewer(m, n) == m[1] < n[1] \/ (m[1] = n[1] /\ m[2] < n[2])

LetGoOf == pc \in {"handles", "backend", "containers", "networks"}

\* Once a network is let go of, whatever step there is, a panic or a refused removal as well,
\* leaves less of Drop, and building or cleanup() is not among them (docker.rs:1667-1732).
DropGoesOn ==
  [](DropLeft \in Nat \X Nat) /\ [][LetGoOf => Fewer(DropLeft', DropLeft)]_dropVars

\* What is let go of comes to an end: Drop "blocks until cleanup completes" (docker.rs:1677)
\* and not longer, whatever is still there that it does not know of.
DropReturns == pc = "handles" ~> pc \in {"gone", "aborted"}
=============================================================================
