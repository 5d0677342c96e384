--------------------------- MODULE ConnectivityWait ---------------------------
(***************************************************************************)
(* TestNetwork::wait_until_ready_with_timeout (src/network.rs): rounds of  *)
(* probes, one peer after the other, each a WebSocket connection and a     *)
(* query, with time limits of their own, until a round counts enough    *)
(* connected peers or the deadline has passed.  The peers are other        *)
(* processes: they start to listen, form and lose connections at any time, *)
(* also between two probes of a round.  Time passes only while the program *)
(* awaits; the bounds on a probe are those of tokio::time::timeout.        *)
(***************************************************************************)
EXTENDS Integers, FiniteSets

CONSTANTS
  Total,            \* gateways and peers, probed in the order 1 .. Total
  Remote,           \* those of PeerLocation::Remote
  MinConnectivity,  \* min_connectivity, in percent
  Timeout,          \* the timeout of the wait
  ProbeTimeout,     \* limit of the connection, and again of the response
  CloseDelay,       \* the sleep of graceful_disconnect, after a response
  Pause,            \* the sleep between two rounds
  MaxTime           \* bound of the clock, beyond every deadline

ASSUME PeersAssumption == Total \in Nat /\ Remote \subseteq 1..Total
ASSUME RatioAssumption == MinConnectivity \in 0..100
ASSUME TimesAssumption ==
  /\ Timeout \in Nat /\ ProbeTimeout \in Nat /\ CloseDelay \in Nat /\ Pause \in Nat
  /\ MaxTime \in Nat \ {0}

Peers == 1..Total

VARIABLES
  now,              \* the clock
  listening,        \* peers whose WebSocket port accepts connections
  linked,           \* peers with at least one ring connection
  pc,               \* where the wait is
  peer,             \* the peer being probed
  connected_count,  \* connected_count of the current round
  final,            \* whether this is the round after the deadline
  since,            \* when the current await began
  roundStart,       \* when the current round began
  unlinkedAt,       \* history: when a peer last lost its connections
  troubledAt        \* history: when a peer was last not linked or did not answer

world == <<listening, linked, unlinkedAt>>
round == <<peer, connected_count, final, roundStart>>
vars == <<now, world, pc, round, since, troubledAt>>

Start == 1
Probing == {"connect", "receive", "close"}
Awaiting == Probing \union {"pause"}
Ended == {"ready", "failed"}

\* ws_url is ws://127.0.0.1:<ws_port>, and a remote peer's ws_port is 0.
Reachable(p) == p \in listening /\ p \notin Remote

Limit ==
  CASE pc = "pause" -> Pause
    [] pc = "close" -> CloseDelay
    [] OTHER        -> ProbeTimeout

-----------------------------------------------------------------------------
\* The peers and the clock.

Fine == listening = Peers /\ linked = Peers

Tick ==
  /\ pc \in Awaiting
  /\ now < MaxTime /\ now - since < Limit
  /\ now' = now + 1
  /\ troubledAt' = IF Fine THEN troubledAt ELSE now + 1
  /\ UNCHANGED <<world, pc, round, since>>

Listens(p) ==
  /\ p \notin listening
  /\ listening' = listening \union {p}
  /\ UNCHANGED <<now, linked, unlinkedAt, pc, round, since, troubledAt>>

StopsListening(p) ==
  /\ p \in listening
  /\ listening' = listening \ {p}
  /\ troubledAt' = now
  /\ UNCHANGED <<now, linked, unlinkedAt, pc, round, since>>

Links(p) ==
  /\ p \notin linked
  /\ linked' = linked \union {p}
  /\ UNCHANGED <<now, listening, unlinkedAt, pc, round, since, troubledAt>>

Unlinks(p) ==
  /\ p \in linked
  /\ linked' = linked \ {p}
  /\ unlinkedAt' = [unlinkedAt EXCEPT ![p] = now]
  /\ troubledAt' = now
  /\ UNCHANGED <<now, listening, pc, round, since>>

-----------------------------------------------------------------------------
\* The wait.

\* Mutant: the start is taken again in every round.
Elapsed_ThisRound == now - roundStart

Elapsed == now - Start

\* Mutant: connected_count is declared outside check_connectivity_detailed.
FreshCount_Kept == connected_count

FreshCount == 0

\* The head of the loop.  Without peers check_connectivity_detailed returns at once.
BeginRound ==
  /\ pc = "check"
  /\ final' = (Elapsed > Timeout)
  /\ roundStart' = now
  /\ peer' = 1
  /\ connected_count' = FreshCount
  /\ since' = now
  /\ pc' = IF Total = 0 THEN "decide" ELSE "connect"
  /\ UNCHANGED <<now, world, troubledAt>>

Connects ==
  /\ pc = "connect"
  /\ Reachable(peer)
  /\ pc' = "receive"
  /\ since' = now
  /\ UNCHANGED <<now, world, round, troubledAt>>

MoreToProbe == peer < Total

\* The end of one probe: the next peer's begins, or the round is over.
NextProbe ==
  /\ peer' = peer + 1
  /\ since' = now
  /\ pc' = IF MoreToProbe THEN "connect" ELSE "decide"
  /\ UNCHANGED <<now, world, final, roundStart>>

\* A peer on this machine that fails a probe is in trouble.
Trouble == troubledAt' = IF peer \in Remote THEN troubledAt ELSE now

\* No connection: refused, or not within the limit.
ConnectFails ==
  /\ pc = "connect"
  /\ Trouble /\ NextProbe
  /\ UNCHANGED connected_count

\* Mutant: client.recv() is awaited without a limit.
ReceiveGivenUp_Never == now = since

\* The query cannot be sent, or nothing is received within the limit.
ReceiveGivenUp == now - since \in {0, ProbeTimeout}

\* Early returns, that close nothing.
NoResponse ==
  /\ pc = "receive" /\ ReceiveGivenUp
  /\ Trouble /\ NextProbe
  /\ UNCHANGED connected_count

\* After a response graceful_disconnect is awaited.
Responds(count) ==
  /\ pc = "receive"
  /\ connected_count' = connected_count + count
  /\ pc' = "close" /\ since' = now
  /\ UNCHANGED <<now, world, peer, final, roundStart>>

\* An answer: a peer counts when it reports a connection; Ok(0) is not counted.
Answers ==
  /\ Reachable(peer)
  /\ Responds(IF peer \in linked THEN 1 ELSE 0)
  /\ UNCHANGED troubledAt

\* An error for an answer, or the end of the connection: Err, which is not counted.
AnswersError == Responds(0) /\ Trouble

Disconnected ==
  /\ pc = "close" /\ now - since = CloseDelay
  /\ NextProbe
  /\ UNCHANGED <<connected_count, troubledAt>>

\* Mutant: the ratio must be exceeded.
Enough_Exceeds == connected_count * 100 > MinConnectivity * Total

\* ratio >= min_connectivity; the ratio of no peers is 1.
Enough == connected_count * 100 >= MinConnectivity * Total

Decide ==
  /\ pc = "decide"
  /\ pc' = IF final THEN "failed" ELSE IF Enough THEN "ready" ELSE "pause"
  /\ since' = now
  /\ UNCHANGED <<now, world, round, troubledAt>>

PauseEnds ==
  /\ pc = "pause"
  /\ now - since = Pause
  /\ pc' = "check"
  /\ UNCHANGED <<now, world, round, since, troubledAt>>

-----------------------------------------------------------------------------
Init ==
  /\ now = Start
  /\ listening \in SUBSET Peers /\ linked \in SUBSET Peers
  /\ pc = "check"
  /\ peer = 1 /\ connected_count = 0 /\ final = FALSE
  /\ since = Start /\ roundStart = Start
  /\ unlinkedAt = [p \in Peers |-> 0]
  /\ troubledAt = IF listening = Peers /\ linked = Peers THEN 0 ELSE Start

World == \E p \in Peers : Listens(p) \/ StopsListening(p) \/ Links(p) \/ Unlinks(p)
Probe ==
  \/ Connects \/ ConnectFails \/ NoResponse \/ Answers \/ AnswersError \/ Disconnected
Wait == BeginRound \/ Probe \/ Decide \/ PauseEnds
Next == Tick \/ World \/ Wait

Spec == Init /\ [][Next]_vars

\* What the program does whatever the peers do: its own steps, and what its timers end.
Due ==
  \/ BeginRound \/ Decide \/ PauseEnds \/ Disconnected
  \/ now - since = ProbeTimeout /\ (ConnectFails \/ NoResponse)

\* The runtime runs the task when it is ready, and its timers fire.
FairSpec == Spec /\ WF_vars(Due) /\ WF_vars(Tick)

-----------------------------------------------------------------------------
\* Properties

\* The type invariant.
TypeOK ==
  /\ now \in Start..MaxTime
  /\ listening \subseteq Peers /\ linked \subseteq Peers
  /\ pc \in {"check", "decide"} \union Awaiting \union Ended
  /\ peer \in 1..(Total + 1) /\ connected_count \in 0..Total
  /\ final \in BOOLEAN
  /\ since \in Start..now /\ roundStart \in Start..now
  /\ unlinkedAt \in [Peers -> 0..now] /\ troubledAt \in 0..now

\* The longest a probe, a round, and the whole wait can take (network.rs:108-155).
LongestProbe == 2 * ProbeTimeout + CloseDelay
LongestRound == Total * LongestProbe
LongestWait == Timeout + Pause + 2 * LongestRound

\* When the wait reports ready, enough peers have had a connection at some moment of the
\* round that counted them: rounds are not mixed (network.rs:159-209).
ReadyWasConnected ==
  pc = "ready" =>
    Cardinality({p \in Peers : p \in linked \/ unlinkedAt[p] >= roundStart}) * 100
      >= MinConnectivity * Total

\* The wait overshoots its timeout by at most a pause and two rounds of probes.
EndsBy == now - Start <= LongestWait

\* A network whose peers all listen, are linked and answer, from a round and a pause before
\* the deadline on, is never reported as failed.
SteadyNetworkIsReady ==
  pc = "failed" => troubledAt + LongestRound + Pause > Start + Timeout

\* The wait ends, whatever the peers do.
WaitEnds == <>(pc \in Ended)
=============================================================================
