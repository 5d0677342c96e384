------------------------ MODULE ConnectivityWaitProofs ------------------------
(***************************************************************************)
(* Proofs about ConnectivityWait, for any number of peers and any timeout: *)
(* how far the wait can overshoot its timeout, that a network reported     *)
(* ready was connected, and that a steady one is not reported as failed.   *)
(***************************************************************************)
EXTENDS ConnectivityWait, FiniteSetTheorems, TLAPS

\* The part of the type invariant that the bound rests on.
Typed ==
  /\ now \in Int /\ since \in Int /\ roundStart \in Int
  /\ pc \in {"check", "decide"} \union Awaiting \union Ended
  /\ final \in BOOLEAN
  /\ peer \in Nat

\* The longest that the part of a probe before the current await can have taken.
Within ==
  CASE pc = "connect" -> 0
    [] pc = "receive" -> ProbeTimeout
    [] OTHER          -> 2 * ProbeTimeout

\* How long the round, and the await in it, have taken.
InRound ==
  /\ pc \in Awaiting => now - since <= Limit
  /\ pc \in Probing =>
       /\ peer \in 1..Total
       /\ since - roundStart <= (peer - 1) * LongestProbe + Within
  /\ pc = "pause" => since - roundStart <= LongestRound
  /\ pc = "check" => now - roundStart <= LongestRound + Pause
  /\ pc \in {"decide"} \union Ended => now - roundStart <= LongestRound

\* When the round began: no round follows the one that began after the deadline.
Began ==
  /\ ~final => roundStart - Start <= Timeout
  /\ final => roundStart - Start <= Timeout + LongestRound + Pause
  /\ pc \in {"check", "pause"} => ~final

IInv == Typed /\ InRound /\ Began

LEMMA ProbeIsNat == LongestProbe \in Nat
BY TimesAssumption DEF LongestProbe

\* Fewer probes take less time.
LEMMA Longer ==
  ASSUME NEW m \in Nat, NEW n \in Nat, m <= n PROVE m * LongestProbe <= n * LongestProbe
<1> HIDE DEF LongestProbe
<1>1. PICK d \in Nat : n = m + d
  <2> WITNESS n - m \in Nat
  <2> QED OBVIOUS
<1>2. n * LongestProbe = m * LongestProbe + d * LongestProbe
  BY <1>1, ProbeIsNat
<1>3. d * LongestProbe \in Nat /\ m * LongestProbe \in Nat
  BY <1>1, ProbeIsNat
<1> QED
  BY <1>2, <1>3

LEMMA OneMore ==
  ASSUME NEW m \in Nat \ {0}
  PROVE  /\ (m - 1) * LongestProbe \in Nat /\ m * LongestProbe \in Nat
         /\ m * LongestProbe = (m - 1) * LongestProbe + LongestProbe
BY ProbeIsNat

LEMMA RoundIsNat == LongestRound \in Nat
BY PeersAssumption, ProbeIsNat DEF LongestRound

\* A round has taken no longer than the probes up to the current one can take, and these
\* take no longer than a round.
LEMMA UnderWay ==
  ASSUME IInv, pc \in Probing
  PROVE  now - roundStart <= peer * LongestProbe /\ peer * LongestProbe <= LongestRound
<1>1. /\ peer \in Nat \ {0} /\ peer \in Nat /\ Total \in Nat /\ peer <= Total
      /\ now \in Int /\ since \in Int /\ roundStart \in Int
  BY PeersAssumption DEF IInv, Typed, InRound
<1>2. peer * LongestProbe <= LongestRound
  BY <1>1, Longer DEF LongestRound
<1>3. now - since <= Limit /\ since - roundStart <= (peer - 1) * LongestProbe + Within
  BY DEF IInv, InRound, Awaiting
<1>4. Limit + Within <= LongestProbe /\ Limit \in Nat /\ Within \in Nat
  BY TimesAssumption DEF Limit, Within, Probing, LongestProbe
<1>5. /\ peer * LongestProbe = (peer - 1) * LongestProbe + LongestProbe
      /\ (peer - 1) * LongestProbe \in Nat /\ peer * LongestProbe \in Nat
  BY <1>1, OneMore
<1> DEFINE before == (peer - 1) * LongestProbe
           upTo == peer * LongestProbe
<1>6. upTo = before + LongestProbe /\ before \in Nat /\ upTo \in Nat
  BY <1>5
<1>7. since - roundStart <= before + Within
  BY <1>3
<1> HIDE DEF before, upTo
<1>8. now - roundStart <= upTo
  BY <1>1, <1>3, <1>4, <1>6, <1>7, ProbeIsNat
<1> QED
  BY <1>2, <1>8 DEF upTo

\* The strengthening implies the bound.
LEMMA Bounded == IInv => EndsBy
<1> SUFFICES ASSUME IInv PROVE EndsBy
  OBVIOUS
<1> USE RoundIsNat, TimesAssumption
<1>0. /\ now \in Int /\ roundStart \in Int /\ since \in Int /\ Start \in Int
      /\ LongestRound \in Nat /\ LongestWait = Timeout + Pause + 2 * LongestRound
  BY DEF IInv, Typed, Start, LongestWait
<1> HIDE DEF LongestRound
<1>1. CASE pc \in Probing
  <2>1. now - roundStart <= LongestRound
    <3>1. peer * LongestProbe \in Int
      BY ProbeIsNat DEF IInv, Typed
    <3> QED
      BY <1>0, <1>1, <3>1, UnderWay
  <2>2. roundStart - Start <= Timeout + LongestRound + Pause
    BY <1>0 DEF IInv, Began
  <2> QED
    BY <1>0, <2>1, <2>2 DEF EndsBy
<1>2. CASE pc \in {"check", "pause"}
  <2>1. now - roundStart <= LongestRound + Pause
    BY <1>0, <1>2 DEF IInv, InRound, Limit, Awaiting, Probing
  <2>2. roundStart - Start <= Timeout
    BY <1>2 DEF IInv, Began
  <2> QED
    BY <1>0, <2>1, <2>2 DEF EndsBy
<1>3. CASE pc \in {"decide"} \union Ended
  <2>1. now - roundStart <= LongestRound
    BY <1>3 DEF IInv, InRound
  <2>2. roundStart - Start <= Timeout + LongestRound + Pause
    BY <1>0 DEF IInv, Began
  <2> QED
    BY <1>0, <2>1, <2>2 DEF EndsBy
<1> QED
  BY <1>1, <1>2, <1>3 DEF IInv, Typed, Awaiting

\* What the peers do to the network takes no time.
LEMMA WorldStep ==
  ASSUME IInv, World PROVE IInv'
BY DEF World, Listens, StopsListening, Links, Unlinks, IInv, Typed, InRound, Began, Within,
       Limit, round

\* Time passes no further than the limit of the await.
LEMMA TickStep ==
  ASSUME IInv, Tick PROVE IInv'
<1>1. Typed'
  BY DEF IInv, Typed, Tick, round
<1>2. InRound'
  BY TimesAssumption DEF IInv, Typed, InRound, Tick, round, Limit, Within, Probing, Awaiting, Ended
<1>3. Began'
  BY DEF IInv, Began, Tick, round
<1> QED
  BY <1>1, <1>2, <1>3 DEF IInv

LEMMA BeginRoundStep ==
  ASSUME IInv, BeginRound PROVE IInv'
<1> USE RoundIsNat, TimesAssumption, PeersAssumption
<1>1. Typed'
  BY DEF IInv, Typed, BeginRound, Probing, Awaiting
<1>2. InRound'
  <2>1. (1 - 1) * LongestProbe = 0
    BY ProbeIsNat
  <2> QED
    BY <2>1 DEF IInv, Typed, InRound, BeginRound, Limit, Within, Probing, Awaiting, Ended
<1>3. Began'
  <2>1. now - roundStart <= LongestRound + Pause /\ roundStart - Start <= Timeout
    BY DEF BeginRound, IInv, InRound, Began
  <2>2. now - Start <= Timeout + LongestRound + Pause
    <3> HIDE DEF LongestRound
    <3> QED
      BY <2>1 DEF IInv, Typed, Start
  <2>3. /\ roundStart' = now /\ final' = (now - Start > Timeout)
        /\ pc' \in {"decide", "connect"}
    BY DEF BeginRound, Elapsed
  <2>4. LongestRound' = LongestRound /\ Start \in Int
    BY DEF LongestRound, Start
  <2>5. now - Start <= Timeout \/ now - Start > Timeout
    BY <2>4 DEF IInv, Typed
  <2> QED
    BY <2>2, <2>3, <2>4, <2>5 DEF Began
<1> QED
  BY <1>1, <1>2, <1>3 DEF IInv

\* Every step of a probe accounts for the time since the last one.
LEMMA ProbeStep ==
  ASSUME IInv, Probe PROVE IInv'
<1> USE RoundIsNat, ProbeIsNat, TimesAssumption, PeersAssumption
<1>0. /\ pc \in Probing /\ peer \in 1..Total /\ peer \in Nat \ {0}
      /\ now \in Int /\ since \in Int /\ roundStart \in Int
  BY DEF Probe, Connects, ConnectFails, NoResponse, Answers, AnswersError, Responds,
         Disconnected, Probing, IInv, Typed, InRound
<1>1. /\ since' = now /\ now' = now /\ roundStart' = roundStart /\ final' = final
      /\ \/ pc = "connect" /\ pc' = "receive" /\ peer' = peer
         \/ pc = "receive" /\ pc' = "close" /\ peer' = peer
         \/ peer' = peer + 1 /\ pc' = "connect" /\ peer < Total
         \/ peer' = peer + 1 /\ pc' = "decide"
  BY <1>0 DEF Probe, Connects, ConnectFails, NoResponse, Answers, AnswersError, Responds,
              Disconnected, NextProbe, MoreToProbe, round
<1>2. Typed'
  BY <1>0, <1>1 DEF IInv, Typed, Probing, Awaiting
<1>3. now - roundStart <= peer * LongestProbe /\ now - roundStart <= LongestRound
  <2>1. peer * LongestProbe \in Int
    BY <1>0
  <2> QED
    BY <1>0, <2>1, UnderWay
<1>4. pc' \in Probing => now - roundStart <= (peer' - 1) * LongestProbe + Within'
  <2>1. CASE peer' = peer + 1 /\ pc' = "connect"
    <3>1. peer' - 1 = peer /\ Within' = 0
      BY <1>0, <2>1 DEF Within
    <3>2. peer * LongestProbe + 0 = peer * LongestProbe
      BY <1>0
    <3> QED
      BY <1>3, <3>1, <3>2
  <2>2. CASE peer' = peer /\ pc \in {"connect", "receive"}
    <3>1. Within' = Within + ProbeTimeout /\ Limit = ProbeTimeout
      BY <1>0, <1>1, <2>2 DEF Within, Limit
    <3>2. now - since <= ProbeTimeout /\ since - roundStart <= (peer - 1) * LongestProbe + Within
      BY <1>0, <3>1 DEF IInv, InRound, Awaiting
    <3>3. (peer - 1) * LongestProbe \in Int /\ Within \in Int
      BY <1>0, OneMore DEF Within
    <3> QED
      BY <1>0, <2>2, <3>1, <3>2, <3>3
  <2> QED
    BY <1>1, <2>1, <2>2 DEF Probing
<1>5. InRound'
  <2>1. pc' \in Awaiting => now' - since' <= Limit'
    BY <1>0, <1>1 DEF Limit
  <2>2. LongestRound' = LongestRound /\ LongestProbe' = LongestProbe
    BY DEF LongestRound, LongestProbe
  <2>3. pc' \in Probing => peer' \in 1..Total
    BY <1>0, <1>1 DEF Probing
  <2> QED
    BY <1>1, <1>3, <1>4, <2>1, <2>2, <2>3 DEF InRound, Probing, Awaiting, Ended
<1>6. Began'
  BY <1>1 DEF IInv, Began
<1> QED
  BY <1>2, <1>5, <1>6 DEF IInv

LEMMA DecideStep ==
  ASSUME IInv, Decide PROVE IInv'
<1> USE RoundIsNat, TimesAssumption
<1>1. Typed'
  BY DEF IInv, Typed, Decide, round, Probing, Awaiting, Ended
<1>2. InRound'
  BY DEF IInv, Typed, InRound, Decide, round, Limit, Probing, Awaiting, Ended
<1>3. Began'
  BY DEF IInv, Began, Decide, round
<1> QED
  BY <1>1, <1>2, <1>3 DEF IInv

LEMMA PauseEndsStep ==
  ASSUME IInv, PauseEnds PROVE IInv'
<1> USE RoundIsNat, TimesAssumption
<1>1. Typed'
  BY DEF IInv, Typed, PauseEnds, round
<1>2. InRound'
  BY DEF IInv, Typed, InRound, PauseEnds, round, Probing, Awaiting, Ended
<1>3. Began'
  BY DEF IInv, Began, PauseEnds, round
<1> QED
  BY <1>1, <1>2, <1>3 DEF IInv

LEMMA IInvInit ==
  ASSUME Init PROVE IInv
<1>1. /\ now = 1 /\ since = 1 /\ roundStart = 1 /\ pc = "check" /\ peer = 1 /\ ~final
      /\ final \in BOOLEAN
  BY DEF Init, Start
<1>2. LongestRound + Pause \in Nat
  BY RoundIsNat, TimesAssumption
<1> QED
  BY <1>1, <1>2, TimesAssumption DEF IInv, Typed, InRound, Began, Start, Probing, Awaiting, Ended

LEMMA IInvStep ==
  ASSUME IInv, [Next]_vars PROVE IInv'
<1>1. CASE Wait
  BY <1>1, BeginRoundStep, ProbeStep, DecideStep, PauseEndsStep DEF Wait
<1>2. CASE UNCHANGED vars
  BY <1>2 DEF vars, round, IInv, Typed, InRound, Began, Within, Limit
<1> QED
  BY <1>1, <1>2, TickStep, WorldStep DEF Next

\* For any number of peers, timeout, probe limit and pause, and whatever the peers do: the
\* wait overshoots its timeout by at most a pause and two rounds (network.rs:108-155).
THEOREM WaitIsBounded == Spec => []EndsBy
  BY IInvInit, IInvStep, Bounded, PTL DEF Spec

-----------------------------------------------------------------------------
\* The probes of the round that are over.
Done == IF pc \in {"connect", "receive"} THEN peer - 1 ELSE IF pc = "close" THEN peer ELSE Total

\* The types, and that no peer is counted twice.
Base == IInv /\ TypeOK /\ connected_count <= Done

LEMMA DoneIsIndex ==
  ASSUME Base
  PROVE  Done \in 0..Total /\ (pc \in Probing => peer \in 1..Total)
  BY PeersAssumption DEF Base, IInv, InRound, TypeOK, Done, Probing

LEMMA NextDone ==
  ASSUME Base, pc \in Probing, NextProbe
  PROVE  Done' = peer
<1>1. peer \in 1..Total /\ Total \in Nat
  BY DoneIsIndex, PeersAssumption
<1> QED
  BY <1>1 DEF NextProbe, MoreToProbe, Done

LEMMA BaseInit ==
  ASSUME Init PROVE Base
<1>1. IInv
  BY IInvInit
<1>2. Total \in Nat /\ MaxTime \in Nat \ {0} /\ Start = 1
  BY PeersAssumption, TimesAssumption DEF Start
<1>3. /\ now = 1 /\ pc = "check" /\ peer = 1 /\ connected_count = 0 /\ final = FALSE
      /\ since = 1 /\ roundStart = 1
  BY <1>2 DEF Init
<1>4. TypeOK
  <2>1. listening \subseteq Peers /\ linked \subseteq Peers
    BY DEF Init
  <2>2. troubledAt = 0 \/ troubledAt = 1
    BY <1>2 DEF Init
  <2>3. unlinkedAt \in [Peers -> 0..1]
    BY DEF Init
  <2>4. now \in Start..MaxTime /\ since \in Start..now /\ roundStart \in Start..now
    BY <1>2, <1>3
  <2>5. troubledAt \in 0..now /\ unlinkedAt \in [Peers -> 0..now]
    BY <1>3, <2>2, <2>3
  <2>6. peer \in 1..(Total + 1) /\ connected_count \in 0..Total
    BY <1>2, <1>3
  <2> QED
    BY <1>3, <2>1, <2>4, <2>5, <2>6 DEF TypeOK
<1>5. connected_count <= Done
  BY <1>2, <1>3 DEF Done
<1> QED
  BY <1>1, <1>4, <1>5 DEF Base

LEMMA BaseStep ==
  ASSUME Base, [Next]_vars PROVE Base'
<1>0. /\ IInv' /\ Done \in 0..Total /\ Total \in Nat /\ MaxTime \in Nat
      /\ pc \in Probing => peer \in 1..Total
      /\ now \in Start..MaxTime /\ now \in Nat /\ Start \in Nat /\ TypeOK
  BY IInvStep, DoneIsIndex, PeersAssumption, TimesAssumption DEF Base, TypeOK, Start
<1>1. CASE UNCHANGED vars
  BY <1>0, <1>1 DEF vars, world, round, Base, TypeOK, Done
<1>2. CASE World
  BY <1>0, <1>2 DEF World, Listens, StopsListening, Links, Unlinks, round, Base, TypeOK, Done
<1>3. CASE Tick
  BY <1>0, <1>3 DEF Tick, world, round, Base, TypeOK, Done
<1>4. CASE BeginRound
  BY <1>0, <1>4 DEF BeginRound, FreshCount, world, Base, TypeOK, Done, Awaiting, Probing
<1>5. CASE Connects
  BY <1>0, <1>5 DEF Connects, world, round, Base, TypeOK, Done, Awaiting, Probing
<1>6. CASE Answers \/ AnswersError
  <2>1. /\ pc = "receive" /\ pc' = "close" /\ peer' = peer /\ Done = peer - 1 /\ Done' = peer
        /\ connected_count' \in {connected_count, connected_count + 1}
        /\ troubledAt' \in {troubledAt, now}
    BY <1>0, <1>6 DEF Answers, AnswersError, Responds, Done, Trouble, TypeOK
  <2>2. UNCHANGED <<now, listening, linked, unlinkedAt, final, roundStart>> /\ since' = now
    BY <1>6 DEF Answers, AnswersError, Responds, world
  <2>3. connected_count' \in 0..Total /\ connected_count' <= peer
    BY <1>0, <2>1 DEF Base, TypeOK, Probing
  <2> QED
    BY <1>0, <2>1, <2>2, <2>3 DEF Base, TypeOK, Awaiting, Probing
<1>7. CASE ConnectFails \/ NoResponse \/ Disconnected
  <2>1. /\ pc \in Probing /\ NextProbe /\ connected_count' = connected_count
        /\ troubledAt' \in {troubledAt, now}
    BY <1>7 DEF ConnectFails, NoResponse, Disconnected, Trouble, Probing
  <2>2. Done' = peer /\ Done <= peer
    BY <1>0, <2>1, NextDone DEF Done, Probing
  <2>3. /\ UNCHANGED <<now, listening, linked, unlinkedAt, final, roundStart>> /\ since' = now
        /\ peer' = peer + 1 /\ pc' \in {"connect", "decide"}
    BY <2>1 DEF NextProbe, world
  <2> QED
    BY <1>0, <2>1, <2>2, <2>3 DEF Base, TypeOK, Awaiting, Probing
<1>8. CASE Decide \/ PauseEnds
  BY <1>0, <1>8 DEF Decide, PauseEnds, world, round, Base, TypeOK, Done, Awaiting, Probing, Ended
<1> QED
  BY <1>1, <1>2, <1>3, <1>4, <1>5, <1>6, <1>7, <1>8 DEF Next, Wait, Probe

\* The type invariant, for any number of peers and any limits.
THEOREM WaitTypeCorrect == Spec => []TypeOK
<1>1. Base => TypeOK
  BY DEF Base
<1> QED
  BY <1>1, BaseInit, BaseStep, PTL DEF Spec

-----------------------------------------------------------------------------
\* Those of the first k peers that have been linked at some moment of the round.
WereLinked(k) == {p \in 1..k : p \in linked \/ unlinkedAt[p] >= roundStart}

\* Nobody is counted that was not linked during the round.
Counted ==
  /\ pc \in Probing \union {"decide"} \union Ended =>
       connected_count <= Cardinality(WereLinked(Done))
  /\ pc = "ready" => Enough

LEMMA Sizes ==
  ASSUME NEW S \in SUBSET (1..Total), NEW R \in SUBSET S
  PROVE  /\ IsFiniteSet(S) /\ Cardinality(S) \in Nat
         /\ Cardinality(R) \in Nat /\ Cardinality(R) <= Cardinality(S)
<1>1. IsFiniteSet(1..Total)
  BY PeersAssumption, FS_Interval
<1>2. IsFiniteSet(S)
  BY <1>1, FS_Subset
<1> QED
  BY <1>2, FS_Subset, FS_CardinalityType

\* Whoever was linked during the round stays so for the rest of it.
LEMMA MoreLinked ==
  ASSUME Base, World \/ Tick, NEW k \in 0..Total
  PROVE  WereLinked(k) \subseteq WereLinked(k)'
<1>1. /\ roundStart' = roundStart /\ roundStart <= now /\ roundStart \in Int /\ now \in Int
      /\ unlinkedAt \in [Peers -> 0..now]
  BY DEF World, Listens, StopsListening, Links, Unlinks, Tick, round, Base, IInv, Typed, TypeOK
<1>2. \A p \in Peers : /\ p \in linked' \/ p \notin linked \/ unlinkedAt'[p] = now
                       /\ unlinkedAt'[p] \in {unlinkedAt[p], now}
  BY <1>1 DEF World, Listens, StopsListening, Links, Unlinks, Tick, world
<1>3. 1..k \subseteq Peers
  BY PeersAssumption DEF Peers
<1> QED
  BY <1>1, <1>2, <1>3 DEF WereLinked

LEMMA CountedStep ==
  ASSUME Base, Counted, [Next]_vars PROVE Counted'
<1> DEFINE W == WereLinked(Done)
           V == {p \in 1..Done' : p \in linked' \/ unlinkedAt'[p] >= roundStart'}
<1>0. /\ Done \in 0..Total /\ Total \in Nat
      /\ pc \in Probing => peer \in 1..Total
      /\ connected_count \in Nat
  BY DoneIsIndex, PeersAssumption DEF Base, TypeOK
<1>1. Done' \in 0..Total
  <2>1. peer' \in Nat /\ (pc' \in Probing => peer' \in 1..Total)
    BY BaseStep DEF Base, IInv, Typed, InRound
  <2>2. CASE pc' \in Probing
    <3>1. peer' \in 1..Total
      BY <2>1, <2>2
    <3>2. Done' \in {peer' - 1, peer', Total}
      BY DEF Done
    <3>3. PICK n \in 1..Total : n = peer'
      BY <3>1
    <3>4. n - 1 \in 0..Total /\ n \in 0..Total /\ Total \in 0..Total
      BY <1>0
    <3> QED
      BY <3>2, <3>3, <3>4
  <2>3. CASE pc' \notin Probing
    <3>1. Done' = Total
      BY <2>3 DEF Done, Probing
    <3> QED
      BY <1>0, <3>1
  <2> QED
    BY <2>2, <2>3
<1>2. Cardinality(WereLinked(Done))' = Cardinality(V) /\ V \subseteq 1..Total /\ W \subseteq 1..Total
  BY <1>0, <1>1 DEF WereLinked
<1>3. /\ Cardinality(W) \in Nat /\ Cardinality(V) \in Nat
      /\ W \subseteq V => Cardinality(W) <= Cardinality(V)
  BY <1>2, Sizes
<1>4. ASSUME W \subseteq V, connected_count <= Cardinality(W), connected_count' = connected_count,
             pc' # "ready"
      PROVE  Counted'
  <2>1. connected_count' <= Cardinality(V)
    BY <1>0, <1>3, <1>4
  <2> QED
    BY <1>2, <1>4, <2>1 DEF Counted
<1>5. CASE World \/ Tick
  <2>1. /\ pc' = pc /\ Done' = Done /\ connected_count' = connected_count
        /\ pc = "ready" => (Enough' <=> Enough)
    BY <1>5 DEF World, Listens, StopsListening, Links, Unlinks, Tick, round, Done, Enough
  <2>2. PICK k \in 0..Total : k = Done
    BY <1>0
  <2>3. WereLinked(k) \subseteq WereLinked(k)'
    BY <1>5, MoreLinked
  <2>4. W \subseteq V
    BY <2>1, <2>2, <2>3 DEF WereLinked
  <2>5. pc \in Probing \union {"decide"} \union Ended => connected_count' <= Cardinality(V)
    BY <1>0, <1>3, <2>1, <2>4 DEF Counted
  <2> QED
    BY <1>2, <2>1, <2>5 DEF Counted
<1>6. CASE BeginRound
  <2>1. connected_count' = 0 /\ pc' # "ready"
    BY <1>6 DEF BeginRound, FreshCount
  <2> QED
    BY <1>2, <1>3, <2>1 DEF Counted
<1>7. CASE Connects
  <2>1. /\ pc = "connect" /\ pc' = "receive" /\ UNCHANGED <<connected_count, peer, linked, unlinkedAt, roundStart>>
    BY <1>7 DEF Connects, round, world
  <2>2. W = V
    BY <2>1 DEF Done, WereLinked
  <2> QED
    BY <1>4, <2>1, <2>2 DEF Counted, Probing
<1>8. CASE Answers \/ AnswersError
  <2>1. /\ pc = "receive" /\ pc' = "close" /\ Done = peer - 1 /\ Done' = peer
        /\ UNCHANGED <<linked, unlinkedAt, roundStart>> /\ peer \in 1..Total
        /\ \/ connected_count' = connected_count
           \/ connected_count' = connected_count + 1 /\ peer \in linked
    BY <1>0, <1>8 DEF Answers, AnswersError, Responds, Done, world, Probing
  <2>2. connected_count <= Cardinality(W) /\ W \subseteq V
    BY <2>1 DEF Counted, Probing, WereLinked
  <2>3. CASE connected_count' = connected_count + 1 /\ peer \in linked
    <3>1. peer \notin W /\ W \union {peer} \subseteq V
      BY <2>1, <2>3 DEF WereLinked
    <3>2. /\ Cardinality(W \union {peer}) = Cardinality(W) + 1
          /\ Cardinality(W \union {peer}) <= Cardinality(V)
      BY <1>2, <3>1, Sizes, FS_AddElement
    <3>3. connected_count' <= Cardinality(V)
      BY <1>0, <1>3, <2>2, <2>3, <3>2
    <3> QED
      BY <1>2, <2>1, <3>3 DEF Counted
  <2> QED
    BY <1>4, <2>1, <2>2, <2>3
<1>9. CASE ConnectFails \/ NoResponse \/ Disconnected
  <2>1. /\ pc \in Probing /\ NextProbe /\ connected_count' = connected_count
        /\ pc' \in {"connect", "decide"}
        /\ UNCHANGED <<linked, unlinkedAt, roundStart>>
    BY <1>9 DEF ConnectFails, NoResponse, Disconnected, NextProbe, Probing, world
  <2>2. Done' = peer /\ Done <= peer /\ peer \in 1..Total
    BY <1>0, <2>1, NextDone DEF Done, Probing
  <2>3. W \subseteq V
    BY <1>0, <2>1, <2>2 DEF WereLinked
  <2> QED
    BY <1>4, <2>1, <2>3 DEF Counted
<1>10. CASE Decide
  <2>1. /\ pc = "decide" /\ UNCHANGED <<connected_count, linked, unlinkedAt, roundStart>>
        /\ \/ pc' = "failed" \/ pc' = "pause"
           \/ pc' = "ready" /\ Enough
    BY <1>10 DEF Decide, round, world
  <2>2. W = V
    BY <2>1 DEF Done, WereLinked
  <2>3. CASE pc' = "ready" /\ Enough
    <3>1. Enough' /\ connected_count' <= Cardinality(V)
      BY <2>1, <2>2, <2>3 DEF Counted, Enough
    <3> QED
      BY <1>2, <3>1 DEF Counted
  <2> QED
    BY <1>4, <2>1, <2>2, <2>3 DEF Counted
<1>11. CASE PauseEnds
  BY <1>11 DEF PauseEnds, Counted, Probing, Ended
<1>12. CASE UNCHANGED vars
  <2>1. pc' = pc /\ UNCHANGED <<connected_count, peer, linked, unlinkedAt, roundStart>>
    BY <1>12 DEF vars, round, world
  <2>2. W = V /\ (Enough' <=> Enough)
    BY <2>1 DEF Done, WereLinked, Enough
  <2> QED
    BY <1>2, <2>1, <2>2 DEF Counted
<1> QED
  BY <1>5, <1>6, <1>7, <1>8, <1>9, <1>10, <1>11, <1>12 DEF Next, Wait, Probe

\* A network that is reported ready has had enough peers linked during one round.
THEOREM ReadyIsConnected == Spec => []ReadyWasConnected
<1>1. Init => Base /\ Counted
  BY BaseInit DEF Init, Counted, Probing, Ended
<1>2. Base /\ Counted /\ [Next]_vars => (Base /\ Counted)'
  BY BaseStep, CountedStep
<1>3. Base /\ Counted => ReadyWasConnected
  <2> SUFFICES ASSUME Base, Counted, pc = "ready"
               PROVE  Cardinality({p \in Peers : p \in linked \/ unlinkedAt[p] >= roundStart}) * 100
                        >= MinConnectivity * Total
    BY DEF ReadyWasConnected
  <2>1. Done = Total /\ Peers = 1..Total
    BY DEF Done, Peers
  <2>2. {p \in Peers : p \in linked \/ unlinkedAt[p] >= roundStart} = WereLinked(Done)
    BY <2>1 DEF WereLinked
  <2>3. /\ connected_count <= Cardinality(WereLinked(Done))
        /\ connected_count * 100 >= MinConnectivity * Total
    BY DEF Counted, Ended, Enough
  <2>4. WereLinked(Done) \subseteq 1..Total
    BY <2>1 DEF WereLinked
  <2>5. Cardinality(WereLinked(Done)) \in Nat /\ connected_count \in Nat
    BY <2>4, Sizes, PeersAssumption DEF Base, TypeOK
  <2> DEFINE least == MinConnectivity * Total
             linkedOnce == Cardinality(WereLinked(Done))
  <2>6. least \in Int
    BY RatioAssumption, PeersAssumption
  <2>7. connected_count <= linkedOnce /\ connected_count * 100 >= least /\ linkedOnce \in Nat
    BY <2>3, <2>5
  <2> HIDE DEF least, linkedOnce
  <2>8. linkedOnce * 100 >= least
    BY <2>5, <2>6, <2>7
  <2> QED
    BY <2>2, <2>8 DEF least, linkedOnce
<1> QED
  BY <1>1, <1>2, <1>3, PTL DEF Spec

-----------------------------------------------------------------------------
\* A peer that was not counted has been in trouble since the round began; so has one between
\* rounds, but before the first; and before the last round, since a round that began late.
Missed ==
  /\ listening # Peers \/ linked # Peers => troubledAt = now
  /\ pc \in Probing \union {"decide"} => connected_count = Done \/ troubledAt >= roundStart
  /\ pc \in {"pause", "check"} => troubledAt >= roundStart \/ (pc = "check" /\ now = Start)
  /\ final => troubledAt + LongestRound + Pause > Start + Timeout
  /\ pc = "failed" => final

LEMMA AllAreEnough == ASSUME connected_count = Total PROVE Enough
<1>1. Total \in Nat /\ MinConnectivity \in 0..100
  BY PeersAssumption, RatioAssumption
<1>2. Total * 100 >= MinConnectivity * Total
  BY <1>1
<1> QED
  BY <1>2 DEF Enough

LEMMA MissedStep ==
  ASSUME Remote = {}, Base, Missed, [Next]_vars PROVE Missed'
<1>0. /\ Done \in 0..Total /\ Total \in Nat /\ LongestRound \in Nat /\ Pause \in Nat /\ Timeout \in Nat
      /\ Start = 1
      /\ pc \in Probing => peer \in 1..Total
      /\ now \in Nat /\ roundStart \in Nat /\ roundStart <= now /\ troubledAt \in 0..now
      /\ connected_count \in Nat
      /\ LongestRound' = LongestRound /\ final \in BOOLEAN
  BY DoneIsIndex, PeersAssumption, TimesAssumption, RoundIsNat
     DEF Base, TypeOK, Start, LongestRound, LongestProbe
<1>1. troubledAt' >= troubledAt /\ troubledAt' \in Nat
  BY <1>0 DEF Next, Tick, World, Listens, StopsListening, Links, Unlinks, Wait, BeginRound, Probe,
              Connects, ConnectFails, NoResponse, Answers, AnswersError, Responds, Disconnected,
              Decide, PauseEnds, Trouble, vars
<1> HIDE DEF LongestRound
<1>2. ASSUME final' = final PROVE final' => troubledAt' + LongestRound + Pause > Start + Timeout
  <2> SUFFICES ASSUME final' PROVE troubledAt' + LongestRound + Pause > Start + Timeout
    OBVIOUS
  <2>1. final
    BY <1>2
  <2>2. troubledAt + LongestRound + Pause > Start + Timeout
    BY <2>1 DEF Missed
  <2>3. PICK t \in Nat : t = troubledAt'
    BY <1>1
  <2>4. t >= troubledAt
    BY <1>1, <2>3
  <2>5. t + LongestRound + Pause > Start + Timeout
    BY <1>0, <2>2, <2>4
  <2> QED
    BY <2>3, <2>5
<1>3. CASE World
  <2>1. /\ now' = now /\ pc' = pc /\ connected_count' = connected_count /\ roundStart' = roundStart
        /\ Done' = Done /\ final' = final
    BY <1>3 DEF World, Listens, StopsListening, Links, Unlinks, round, Done
  <2>2. listening' # Peers \/ linked' # Peers => troubledAt' = now'
    BY <1>3 DEF World, Listens, StopsListening, Links, Unlinks, Missed, Base, TypeOK
  <2>3. troubledAt >= roundStart => troubledAt' >= roundStart'
    BY <1>0, <1>1, <2>1
  <2> QED
    BY <1>2, <2>1, <2>2, <2>3 DEF Missed
<1>4. CASE Tick
  <2>1. /\ pc' = pc /\ connected_count' = connected_count /\ roundStart' = roundStart
        /\ Done' = Done /\ final' = final /\ pc # "check"
        /\ (listening' # Peers \/ linked' # Peers => troubledAt' = now')
    BY <1>4 DEF Tick, round, Done, Awaiting, Probing, Fine, world
  <2>2. troubledAt >= roundStart => troubledAt' >= roundStart'
    BY <1>0, <1>1, <2>1
  <2> QED
    BY <1>2, <2>1, <2>2 DEF Missed
<1>5. ASSUME UNCHANGED <<now, listening, linked>>, pc # pc' \/ UNCHANGED vars,
             troubledAt' \in {troubledAt, now}
      PROVE  listening' # Peers \/ linked' # Peers => troubledAt' = now'
  BY <1>5 DEF Missed
<1>6. CASE BeginRound
  <2>1. /\ pc = "check" /\ pc' \in {"decide", "connect"} /\ roundStart' = now
        /\ connected_count' = 0 /\ Done' = 0 /\ troubledAt' = troubledAt
        /\ UNCHANGED <<now, listening, linked>> /\ final' = (now - Start > Timeout)
    BY <1>0, <1>6 DEF BeginRound, FreshCount, Done, world, Elapsed
  <2>2. ASSUME now - Start > Timeout
        PROVE  troubledAt + LongestRound + Pause > Start + Timeout
    <3>1. troubledAt >= roundStart
      BY <1>0, <2>1, <2>2 DEF Missed
    <3>2. now - roundStart <= LongestRound + Pause
      BY <2>1 DEF Base, IInv, InRound
    <3> QED
      BY <1>0, <2>2, <3>1, <3>2
  <2> QED
    BY <1>0, <1>5, <2>1, <2>2 DEF Missed
<1>7. CASE Connects
  <2>1. /\ pc = "connect" /\ pc' = "receive" /\ Done' = Done /\ final' = final
        /\ UNCHANGED <<now, listening, linked, connected_count, roundStart, troubledAt>>
    BY <1>7 DEF Connects, round, world, Done
  <2> QED
    BY <1>0, <1>2, <1>5, <2>1 DEF Missed, Probing
<1>8. CASE Answers \/ AnswersError
  <2>1. /\ pc = "receive" /\ pc' = "close" /\ Done = peer - 1 /\ Done' = peer /\ final' = final
        /\ UNCHANGED <<now, listening, linked, roundStart>> /\ peer \in Peers
        /\ troubledAt' \in {troubledAt, now}
        /\ \/ connected_count' = connected_count + 1
           \/ peer \notin linked
           \/ troubledAt' = now
    <3>1. pc = "receive"
      BY <1>8 DEF Answers, AnswersError, Responds
    <3>2. peer \in Peers
      BY <1>0, <3>1 DEF Probing, Peers
    <3>3. /\ pc' = "close" /\ peer' = peer /\ final' = final
          /\ UNCHANGED <<now, listening, linked, roundStart>>
      BY <1>8 DEF Answers, AnswersError, Responds, world
    <3>4. \/ troubledAt' = troubledAt /\ (connected_count' = connected_count + 1 \/ peer \notin linked)
          \/ troubledAt' = now
      BY <1>8 DEF Answers, AnswersError, Responds, Trouble
    <3> QED
      BY <3>1, <3>2, <3>3, <3>4 DEF Done
  <2>2. connected_count = Done \/ troubledAt >= roundStart
    BY <2>1 DEF Missed, Probing
  <2>3. connected_count' = Done' \/ troubledAt' >= roundStart
    <3>1. peer \notin linked => troubledAt = now
      BY <2>1 DEF Missed
    <3>2. CASE troubledAt' >= roundStart
      BY <2>1, <3>2
    <3>3. CASE ~(troubledAt' >= roundStart)
      <4>1. troubledAt' # now /\ troubledAt' = troubledAt /\ troubledAt # now
        BY <1>0, <2>1, <3>3
      <4>2. connected_count' = connected_count + 1 /\ connected_count = Done
        BY <2>1, <2>2, <3>1, <3>3, <4>1
      <4>3. (peer - 1) + 1 = peer
        BY <1>0, <2>1 DEF Peers
      <4> QED
        BY <2>1, <4>2, <4>3
    <3> QED
      BY <3>2, <3>3
  <2> QED
    BY <1>0, <1>2, <1>5, <2>1, <2>3 DEF Missed, Probing
<1>9. CASE ConnectFails \/ NoResponse
  <2>1. /\ pc \in Probing /\ NextProbe /\ pc' \in {"connect", "decide"} /\ final' = final
        /\ UNCHANGED <<listening, linked, roundStart>> /\ now' = now /\ troubledAt' = now
    BY <1>9 DEF ConnectFails, NoResponse, NextProbe, Probing, world, Trouble
  <2> QED
    BY <1>0, <1>2, <2>1 DEF Missed, Probing
<1>10. CASE Disconnected
  <2>1. /\ pc = "close" /\ NextProbe /\ pc' \in {"connect", "decide"} /\ final' = final
        /\ UNCHANGED <<now, listening, linked, roundStart, connected_count, troubledAt>>
    BY <1>10 DEF Disconnected, NextProbe, world
  <2>2. Done' = Done
    BY <2>1, NextDone DEF Done, Probing
  <2> QED
    BY <1>0, <1>2, <1>5, <2>1, <2>2 DEF Missed, Probing
<1>11. CASE Decide
  <2>1. /\ pc = "decide" /\ final' = final /\ Done = Total
        /\ UNCHANGED <<now, listening, linked, roundStart, connected_count, troubledAt>>
        /\ \/ pc' = "failed" /\ final
           \/ pc' = "ready"
           \/ pc' = "pause" /\ ~Enough
    BY <1>11 DEF Decide, round, world, Done
  <2>2. connected_count = Done => Enough
    BY <2>1, AllAreEnough
  <2> QED
    BY <1>0, <1>2, <1>5, <2>1, <2>2 DEF Missed, Probing
<1>12. CASE PauseEnds
  <2>1. /\ pc = "pause" /\ pc' = "check" /\ final' = final
        /\ UNCHANGED <<now, listening, linked, roundStart, troubledAt>>
    BY <1>12 DEF PauseEnds, round, world
  <2> QED
    BY <1>0, <1>2, <1>5, <2>1 DEF Missed, Probing
<1>13. CASE UNCHANGED vars
  <2>1. pc' = pc /\ UNCHANGED <<now, listening, linked, roundStart, troubledAt, connected_count, peer, final>>
    BY <1>13 DEF vars, round, world
  <2> QED
    BY <1>2, <2>1 DEF Missed, Done
<1> QED
  BY <1>3, <1>4, <1>6, <1>7, <1>8, <1>9, <1>10, <1>11, <1>12, <1>13 DEF Next, Wait, Probe

\* Without nodes on other machines: a network that is fine from a round and a pause before
\* the deadline on is never reported as failed.
THEOREM SteadyIsReady ==
  ASSUME Remote = {}
  PROVE  Spec => []SteadyNetworkIsReady
<1>1. Init => Base /\ Missed
  <2> SUFFICES ASSUME Init PROVE Missed
    BY BaseInit
  <2>1. /\ pc = "check" /\ now = Start /\ final = FALSE
        /\ (listening # Peers \/ linked # Peers => troubledAt = now)
    BY DEF Init
  <2> QED
    BY <2>1 DEF Missed, Probing
<1>2. Base /\ Missed /\ [Next]_vars => (Base /\ Missed)'
  BY BaseStep, MissedStep
<1>3. Missed => SteadyNetworkIsReady
  BY DEF Missed, SteadyNetworkIsReady
<1> QED
  BY <1>1, <1>2, <1>3, PTL DEF Spec
=============================================================================
