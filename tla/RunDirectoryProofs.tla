--------------------------- MODULE RunDirectoryProofs ---------------------------
(***************************************************************************)
(* Proofs about RunDirectory: types and how many directories are kept, for *)
(* any builders; and, for builds that exclude one another, which are kept, *)
(* and that what is in them is the work of the build they are named for.   *)
(***************************************************************************)
EXTENDS RunDirectory, FiniteSetTheorems, TLAPS

Statuses == [by : Builders \union {"nobody"},
             value : {"absent", "initializing", "success", "failure", "cut"}]
Owners == Builders \union {"nobody", "empty"}
Stages == Building \union {"idle", "live", "failed"}

\* What a builder has at each step: the next name, a directory, a peer that is being made.
Equipped(b) ==
  /\ pc[b] \in {"probe", "create"} => stamp[b] # 0
  /\ pc[b] \in {"guard", "peer", "keys", "start", "wait"} => root[b] \in Names
  /\ pc[b] \in {"idle", "list", "remove", "stamp", "probe", "create", "guard"} => made[b] = 0
  /\ pc[b] = "peer" => made[b] < NumPeers
  /\ pc[b] \in {"keys", "start", "wait"} => made[b] # 0

TypeInv ==
  /\ now \in 1..MaxTime /\ started \in 0..PerSecond
  /\ mtime \in [Names -> 0..now]
  /\ status \in [Names -> Statuses]
  /\ owner \in [Names -> [1..NumPeers -> Owners]]
  /\ pc \in [Builders -> Stages]
  /\ listing \in [Builders -> SUBSET (Names \X (1..now))]
  /\ excess \in [Builders -> 0..Cardinality(Names)]
  /\ stamp \in [Builders -> 0..now] /\ attempt \in [Builders -> 0..(Attempts - 1)]
  /\ root \in [Builders -> Names \union {NoName}] /\ made \in [Builders -> 0..NumPeers]
  /\ stuck \subseteq Existing /\ muted \subseteq Builders /\ faults \in 0..MaxFaults
  /\ \A b \in Builders : Equipped(b)

LEMMA NamesFinite == IsFiniteSet(Names) /\ Cardinality(Names) \in Nat
<1>1. IsFiniteSet(1..MaxTime) /\ IsFiniteSet(0..(Attempts - 1))
  BY FS_Interval, BoundsAssumption
<1> QED
  BY <1>1, FS_Product, FS_CardinalityType DEF Names

LEMMA TypeInit == ASSUME Init PROVE TypeInv
<1> USE NamesFinite, BoundsAssumption
<1>1. /\ now \in 1..MaxTime /\ started \in 0..PerSecond
      /\ stamp \in [Builders -> 0..now] /\ attempt \in [Builders -> 0..(Attempts - 1)]
      /\ excess \in [Builders -> 0..Cardinality(Names)] /\ made \in [Builders -> 0..NumPeers]
      /\ stuck \subseteq Existing /\ muted \subseteq Builders /\ faults \in 0..MaxFaults
  BY DEF Init
<1>2. /\ mtime \in [Names -> 0..now] /\ status \in [Names -> Statuses]
      /\ owner \in [Names -> [1..NumPeers -> Owners]]
  BY DEF Init, NoStatus, Statuses, Owners
<1>3. /\ pc \in [Builders -> Stages] /\ listing \in [Builders -> SUBSET (Names \X (1..now))]
      /\ root \in [Builders -> Names \union {NoName}]
  BY DEF Init, Stages
<1>4. \A b \in Builders : Equipped(b)
  BY DEF Init, Equipped
<1> QED
  BY <1>1, <1>2, <1>3, <1>4 DEF TypeInv

\* What is stuck is still there after a step that takes no directory away.
LEMMA StuckStay ==
  ASSUME TypeInv, UNCHANGED stuck, \A n \in Names : mtime[n] # 0 => mtime'[n] # 0
  PROVE  stuck' \subseteq Existing'
BY DEF TypeInv, Existing, Exists

\* Time passes; a build begins.
LEMMA TickTyped == ASSUME TypeInv, Tick PROVE TypeInv'
<1>1. now' \in 1..MaxTime /\ now' = now + 1 /\ started' \in 0..PerSecond /\ now \in Nat
  BY BoundsAssumption DEF TypeInv, Tick
<1>2. 0..now \subseteq 0..now' /\ 1..now \subseteq 1..now'
  BY <1>1
<1>3. /\ mtime' \in [Names -> 0..now'] /\ stamp' \in [Builders -> 0..now']
      /\ listing' \in [Builders -> SUBSET (Names \X (1..now'))]
  BY <1>2 DEF TypeInv, Tick, disk, naming
<1>4. stuck' \subseteq Existing'
  BY StuckStay DEF Tick, disk
<1> QED
  BY <1>1, <1>3, <1>4 DEF TypeInv, Tick, disk, naming, Equipped

LEMMA StartsTyped == ASSUME TypeInv, NEW b \in Builders, Starts(b) PROVE TypeInv'
<1>1. started' \in 0..PerSecond
  BY BoundsAssumption DEF TypeInv, Starts
<1>2. pc' \in [Builders -> Stages] /\ \A o \in Builders : Equipped(o)'
  BY DEF TypeInv, Starts, Goto, Equipped, Stages, Building, naming
<1>3. stuck' \subseteq Existing'
  BY StuckStay DEF Starts, disk
<1> QED
  BY <1>1, <1>2, <1>3 DEF TypeInv, Starts, disk, naming

\* cleanup_old_runs: what a removal does to the disk.
LEMMA RemoveTyped ==
  ASSUME TypeInv, NEW n \in Names, RemoveWhole(n) \/ RemoveFails(n)
  PROVE  /\ started' \in 0..PerSecond /\ faults' \in 0..MaxFaults
         /\ mtime' \in [Names -> 0..now] /\ status' \in [Names -> Statuses]
         /\ owner' \in [Names -> [1..NumPeers -> Owners]] /\ stuck' \subseteq Existing'
<1> USE BoundsAssumption
<1>1. CASE RemoveWhole(n)
  <2>1. mtime' \in [Names -> 0..now] /\ UNCHANGED <<started, faults>>
    BY <1>1 DEF TypeInv, RemoveWhole
  <2>2. status' \in [Names -> Statuses]
    BY <1>1 DEF TypeInv, RemoveWhole, NoStatus, Statuses
  <2>3. owner' \in [Names -> [1..NumPeers -> Owners]]
    BY <1>1 DEF TypeInv, RemoveWhole, Owners
  <2>4. stuck' \subseteq Existing'
    BY <1>1 DEF TypeInv, RemoveWhole, Existing, Exists
  <2> QED
    BY <2>1, <2>2, <2>3, <2>4 DEF TypeInv
<1>2. CASE RemoveFails(n)
  <2>1. PICK left \in Remnants(n) :
          /\ status' = [status EXCEPT ![n] = left[1]]
          /\ owner' = [owner EXCEPT ![n] = left[2]]
          /\ \/ started < PerSecond /\ started' = started + 1 /\ mtime' = [mtime EXCEPT ![n] = now]
             \/ UNCHANGED <<started, mtime>>
    BY <1>2 DEF RemoveFails
  <2>2. left[1] \in Statuses /\ left[2] \in [1..NumPeers -> Owners]
    BY DEF Remnants, TypeInv, NoStatus, Statuses, Owners
  <2>3. status' \in [Names -> Statuses] /\ owner' \in [Names -> [1..NumPeers -> Owners]]
    BY <2>1, <2>2 DEF TypeInv
  <2>4. started' \in 0..PerSecond /\ mtime' \in [Names -> 0..now]
    BY <2>1 DEF TypeInv
  <2>5. faults' \in 0..MaxFaults
    BY <1>2 DEF RemoveFails, TypeInv
  <2>6. stuck' \subseteq Existing'
    <3>1. \A m \in Names : mtime[m] # 0 => mtime'[m] # 0
      BY <2>1 DEF TypeInv
    <3> QED
      BY <1>2, <3>1 DEF RemoveFails, TypeInv, Existing, Exists
  <2> QED
    BY <2>3, <2>4, <2>5, <2>6
<1> QED
  BY <1>1, <1>2

LEMMA CleanupTyped == ASSUME TypeInv, NEW b \in Builders, Cleanup(b) PROVE TypeInv'
<1>0. Existing \subseteq Names /\ Cardinality(Existing) \in 0..Cardinality(Names)
  BY NamesFinite, FS_Subset, FS_CardinalityType DEF Existing
<1>1. /\ pc' \in [Builders -> Stages]
      /\ UNCHANGED <<now, stamp, attempt, root, made, muted>>
      /\ \A o \in Builders : Equipped(o)'
  BY DEF Cleanup, ListRuns, RemoveRun, CleanedUp, TypeInv, Equipped, Goto, Stages, Building, clock, naming
<1>2. CASE ListRuns(b)
  <2>1. {<<m, mtime[m]>> : m \in Existing} \subseteq Names \X (1..now)
    BY DEF TypeInv, Existing, Exists
  <2>2. Cardinality(Existing) > MaxRuns => RemoveCount(Cardinality(Existing)) \in 0..Cardinality(Names)
    BY <1>0, BoundsAssumption, NamesFinite DEF RemoveCount
  <2>3. listing' \in [Builders -> SUBSET (Names \X (1..now))]
    BY <1>2, <2>1 DEF ListRuns, TypeInv
  <2>4. excess' \in [Builders -> 0..Cardinality(Names)]
    <3>1. CASE Cardinality(Existing) <= MaxRuns
      BY <1>2, <3>1 DEF ListRuns, TypeInv
    <3>2. CASE Cardinality(Existing) > MaxRuns
      BY <1>0, <1>2, <2>2, <3>2, BoundsAssumption DEF ListRuns, TypeInv
    <3> QED
      BY <1>0, <3>1, <3>2, BoundsAssumption, NamesFinite
  <2>5. stuck' \subseteq Existing'
    BY <1>2, StuckStay DEF ListRuns, disk
  <2> QED
    BY <1>1, <1>2, <2>3, <2>4, <2>5 DEF TypeInv, ListRuns, disk, clock
<1>3. CASE RemoveRun(b)
  <2>1. PICK e \in listing[b] : /\ listing' = [listing EXCEPT ![b] = @ \ {e}]
                                /\ RemoveWhole(e[1]) \/ RemoveFails(e[1])
    BY <1>3 DEF RemoveRun
  <2>2. listing' \in [Builders -> SUBSET (Names \X (1..now))]
    BY <2>1 DEF TypeInv
  <2>3. excess' \in [Builders -> 0..Cardinality(Names)]
    BY <1>3, NamesFinite DEF TypeInv, RemoveRun
  <2>4. PICK n \in Names : n = e[1]
    BY <2>1 DEF TypeInv
  <2>5. /\ started' \in 0..PerSecond /\ faults' \in 0..MaxFaults
        /\ mtime' \in [Names -> 0..now] /\ status' \in [Names -> Statuses]
        /\ owner' \in [Names -> [1..NumPeers -> Owners]] /\ stuck' \subseteq Existing'
    BY <2>1, <2>4, RemoveTyped
  <2> QED
    BY <1>1, <2>2, <2>3, <2>5 DEF TypeInv
<1>4. CASE CleanedUp(b)
  <2>1. /\ listing' \in [Builders -> SUBSET (Names \X (1..now))]
        /\ excess' \in [Builders -> 0..Cardinality(Names)]
    BY <1>4, NamesFinite DEF TypeInv, CleanedUp
  <2>2. stuck' \subseteq Existing'
    BY <1>4, StuckStay DEF CleanedUp, disk
  <2> QED
    BY <1>1, <1>4, <2>1, <2>2 DEF TypeInv, CleanedUp, disk, clock
<1> QED
  BY <1>2, <1>3, <1>4 DEF Cleanup

\* create_run_directory
LEMMA CandidateIsName ==
  ASSUME TypeInv, NEW b \in Builders, pc[b] \in {"probe", "create"}
  PROVE  Candidate(b) \in Names
BY BoundsAssumption DEF TypeInv, Equipped, Candidate, Names

LEMMA CreateTyped == ASSUME TypeInv, NEW b \in Builders, Create(b) PROVE TypeInv'
<1>1. /\ pc' \in [Builders -> Stages]
      /\ UNCHANGED <<now, started, status, owner, stuck, listing, excess, made, muted, faults>>
  BY DEF Create, TakeStamp, ProbeName, CreateRoot, TypeInv, Goto, Stages, Building, clock, disk
<1>2. CASE TakeStamp(b)
  <2>1. stamp' \in [Builders -> 0..now] /\ attempt' \in [Builders -> 0..(Attempts - 1)]
    BY <1>2, BoundsAssumption DEF TakeStamp, TypeInv
  <2>2. \A o \in Builders : Equipped(o)'
    BY <1>2, BoundsAssumption DEF TakeStamp, TypeInv, Equipped, Goto
  <2>3. stuck' \subseteq Existing'
    BY <1>2, StuckStay DEF TakeStamp, disk
  <2> QED
    BY <1>1, <1>2, <2>1, <2>2, <2>3 DEF TypeInv, TakeStamp, disk
<1>3. CASE ProbeName(b)
  <2>1. attempt' \in [Builders -> 0..(Attempts - 1)]
    BY <1>3, BoundsAssumption DEF ProbeName, TypeInv, LastAttempt
  <2>2. \A o \in Builders : Equipped(o)'
    BY <1>3 DEF ProbeName, TypeInv, Equipped, Goto
  <2>3. stuck' \subseteq Existing'
    BY <1>3, StuckStay DEF ProbeName, disk
  <2> QED
    BY <1>1, <1>3, <2>1, <2>2, <2>3 DEF TypeInv, ProbeName, disk
<1>4. CASE CreateRoot(b)
  <2>0. PICK n \in Names : n = Candidate(b)
    BY <1>4, CandidateIsName DEF CreateRoot
  <2>1. root' \in [Builders -> Names \union {NoName}]
    BY <1>4, <2>0 DEF CreateRoot, TypeInv
  <2>2. mtime' \in [Names -> 0..now]
    BY <1>4, <2>0, BoundsAssumption DEF CreateRoot, TypeInv
  <2>3. \A o \in Builders : Equipped(o)'
    <3>1. /\ pc[b] = "create" /\ pc'[b] = "guard" /\ root'[b] = n /\ made[b] = 0
          /\ UNCHANGED <<stamp, made>>
      BY <1>4, <2>0 DEF CreateRoot, TypeInv, Equipped, Goto, naming
    <3>2. \A o \in Builders \ {b} : pc'[o] = pc[o] /\ root'[o] = root[o]
      BY <1>4 DEF CreateRoot, TypeInv, Goto
    <3> QED
      BY <3>1, <3>2 DEF TypeInv, Equipped
  <2>4. stuck' \subseteq Existing'
    <3>1. \A m \in Names : mtime[m] # 0 => mtime'[m] # 0
      BY <1>4, <2>0 DEF CreateRoot, TypeInv
    <3> QED
      BY <1>1, <3>1, StuckStay
  <2> QED
    BY <1>1, <1>4, <2>1, <2>2, <2>3, <2>4 DEF TypeInv, CreateRoot, naming
<1> QED
  BY <1>2, <1>3, <1>4 DEF Create

LEMMA BaseFailsTyped == ASSUME TypeInv, NEW b \in Builders, BaseFails(b) PROVE TypeInv'
<1>1. pc' \in [Builders -> Stages] /\ \A o \in Builders : Equipped(o)'
  BY DEF BaseFails, TypeInv, Goto, Stages, Equipped, naming
<1>2. stuck' \subseteq Existing'
  BY StuckStay DEF BaseFails, disk
<1> QED
  BY <1>1, <1>2 DEF TypeInv, BaseFails, clock, disk, naming

\* RunStatusGuard: what a write to run_status.txt does to the disk.
LEMMA WriteEffect ==
  ASSUME NEW b \in Builders, NEW v, WriteStatus(b, v), NEW n, n = root[b]
  PROVE  \/ UNCHANGED <<mtime, status>>
         \/ \E w \in {v, "cut"} :
              /\ Exists(n)
              /\ status' = [status EXCEPT ![n] = [by |-> b, value |-> w]]
              /\ \/ mtime' = [mtime EXCEPT ![n] = now]
                 \/ mtime' = [mtime EXCEPT ![n] = mtime[n]]
<1> DEFINE Leaves(w) == /\ Exists(n)
                       /\ status' = [status EXCEPT ![n] = [by |-> b, value |-> w]]
                       /\ mtime' = [mtime EXCEPT ![n] = IF status[n] = NoStatus THEN now ELSE @]
<1>1. UNCHANGED <<mtime, status>> \/ Leaves(v) \/ Leaves("cut")
  BY DEF WriteStatus
<1>2. ASSUME NEW w, Leaves(w)
      PROVE  /\ Exists(n)
             /\ status' = [status EXCEPT ![n] = [by |-> b, value |-> w]]
             /\ \/ mtime' = [mtime EXCEPT ![n] = now]
                \/ mtime' = [mtime EXCEPT ![n] = mtime[n]]
  BY <1>2
<1> HIDE DEF Leaves
<1> QED
  BY <1>1, <1>2

LEMMA WriteTyped ==
  ASSUME TypeInv, NEW b \in Builders, root[b] \in Names,
         NEW v \in {"initializing", "success", "failure"}, WriteStatus(b, v)
  PROVE  /\ mtime' \in [Names -> 0..now] /\ status' \in [Names -> Statuses]
         /\ muted' \subseteq Builders /\ faults' \in 0..MaxFaults
         /\ \A m \in Names : mtime[m] # 0 => mtime'[m] # 0
<1>1. \A w \in {v, "cut"} : [by |-> b, value |-> w] \in Statuses
  BY DEF Statuses
<1>2. PICK n \in Names : n = root[b]
  OBVIOUS
<1>3. mtime[n] \in 0..now /\ now \in 0..now /\ now # 0
  BY BoundsAssumption DEF TypeInv
<1>4. \/ UNCHANGED <<mtime, status>>
      \/ \E w \in {v, "cut"} :
           /\ Exists(n)
           /\ status' = [status EXCEPT ![n] = [by |-> b, value |-> w]]
           /\ \/ mtime' = [mtime EXCEPT ![n] = now]
              \/ mtime' = [mtime EXCEPT ![n] = mtime[n]]
  BY <1>2, WriteEffect
<1>5. muted' \subseteq Builders /\ faults' \in 0..MaxFaults
  BY BoundsAssumption DEF WriteStatus, TypeInv
<1>6. CASE UNCHANGED <<mtime, status>>
  BY <1>5, <1>6 DEF TypeInv
<1>7. CASE ~UNCHANGED <<mtime, status>>
  <2>1. PICK w \in {v, "cut"} : /\ status' = [status EXCEPT ![n] = [by |-> b, value |-> w]]
                                /\ \/ mtime' = [mtime EXCEPT ![n] = now]
                                   \/ mtime' = [mtime EXCEPT ![n] = mtime[n]]
    BY <1>4, <1>7
  <2>2. status' \in [Names -> Statuses]
    BY <1>1, <2>1 DEF TypeInv
  <2> QED
    BY <1>3, <1>5, <2>1, <2>2 DEF TypeInv
<1> QED
  BY <1>6, <1>7

LEMMA FillTyped == ASSUME TypeInv, NEW b \in Builders, Fill(b) PROVE TypeInv'
<1>1. /\ UNCHANGED <<now, started, stuck, listing, excess, stamp, attempt, root>>
      /\ pc[b] \in {"guard", "peer", "keys", "start", "wait"} /\ root[b] \in Names
  BY DEF Fill, NewGuard, MakePeerDir, WriteKeys, PeerFilesFail, PeerStarts, PeerFails, Connected,
         NotConnected, clock, disk, naming, TypeInv, Equipped
<1>2. CASE \/ NewGuard(b) \/ PeerFilesFail(b) \/ PeerStarts(b) \/ PeerFails(b) \/ Connected(b)
           \/ NotConnected(b)
  <2>1. /\ mtime' \in [Names -> 0..now] /\ status' \in [Names -> Statuses]
        /\ muted' \subseteq Builders /\ faults' \in 0..MaxFaults
        /\ \A m \in Names : mtime[m] # 0 => mtime'[m] # 0
    <3>1. ASSUME UNCHANGED <<mtime, status, muted, faults>> PROVE <2>1!:
      BY <3>1 DEF TypeInv
    <3>2. ASSUME NEW v \in {"initializing", "success", "failure"}, WriteStatus(b, v) PROVE <2>1!:
      BY <1>1, <3>2, WriteTyped
    <3> QED
      BY <1>2, <3>1, <3>2 DEF NewGuard, PeerFilesFail, PeerStarts, PeerFails, Connected, NotConnected, disk
  <2>2. pc' \in [Builders -> Stages] /\ UNCHANGED <<owner, made>>
    BY <1>2 DEF NewGuard, PeerFilesFail, PeerStarts, PeerFails, Connected, NotConnected, Goto, TypeInv,
                Stages, Building, disk
  <2>3. \A o \in Builders : Equipped(o)'
    BY <1>1, <1>2, BoundsAssumption
       DEF NewGuard, PeerFilesFail, PeerStarts, PeerFails, Connected, NotConnected, Goto, TypeInv, Equipped
  <2>4. stuck' \subseteq Existing'
    BY <1>1, <2>1, StuckStay
  <2> QED
    BY <1>1, <2>1, <2>2, <2>3, <2>4 DEF TypeInv
<1>3. CASE MakePeerDir(b)
  <2>0. PICK n \in Names : n = root[b]
    BY <1>1
  <2>1. made[b] + 1 \in 1..NumPeers /\ made' \in [Builders -> 0..NumPeers]
    BY <1>3, BoundsAssumption DEF MakePeerDir, TypeInv, Equipped
  <2>2. mtime' \in [Names -> 0..now]
    BY <1>3, <2>0, BoundsAssumption DEF MakePeerDir, TypeInv
  <2>3. owner' \in [Names -> [1..NumPeers -> Owners]]
    <3>1. PICK k \in 1..NumPeers : k = made[b] + 1
      BY <2>1
    <3>2. owner[n] \in [1..NumPeers -> Owners] /\ "empty" \in Owners
      BY DEF TypeInv, Owners
    <3>3. PICK w \in Owners : owner' = [owner EXCEPT ![n][k] = w]
      <4>1. owner' = [owner EXCEPT ![n][k] = IF owner[n][k] = "nobody" THEN "empty" ELSE @]
        BY <1>3, <2>0, <3>1 DEF MakePeerDir
      <4>2. CASE owner[n][k] = "nobody"
        BY <3>2, <4>1, <4>2
      <4>3. CASE owner[n][k] # "nobody"
        <5>1. owner' = [owner EXCEPT ![n][k] = owner[n][k]]
          BY <4>1, <4>3
        <5> QED
          BY <3>2, <5>1
      <4> QED
        BY <4>2, <4>3
    <3>4. [owner[n] EXCEPT ![k] = w] \in [1..NumPeers -> Owners]
      BY <3>2
    <3> QED
      BY <3>3, <3>4 DEF TypeInv
  <2>4. pc' \in [Builders -> Stages] /\ \A o \in Builders : Equipped(o)'
    BY <1>1, <1>3, <2>1 DEF MakePeerDir, Goto, TypeInv, Equipped, Stages, Building
  <2>5. stuck' \subseteq Existing'
    <3>1. \A m \in Names : mtime[m] # 0 => mtime'[m] # 0
      BY <1>3, <2>0 DEF MakePeerDir, TypeInv
    <3> QED
      BY <1>1, <3>1, StuckStay
  <2> QED
    BY <1>1, <1>3, <2>1, <2>2, <2>3, <2>4, <2>5 DEF TypeInv, MakePeerDir
<1>4. CASE WriteKeys(b)
  <2>0. PICK n \in Names : n = root[b]
    BY <1>1
  <2>1. made[b] \in 1..NumPeers
    BY <1>4, BoundsAssumption DEF WriteKeys, TypeInv, Equipped
  <2>3. owner' \in [Names -> [1..NumPeers -> Owners]]
    BY <1>4, <2>0, <2>1 DEF WriteKeys, TypeInv, Owners
  <2>4. pc' \in [Builders -> Stages] /\ \A o \in Builders : Equipped(o)'
    BY <1>1, <1>4, <2>1 DEF WriteKeys, Goto, TypeInv, Equipped, Stages, Building
  <2>5. stuck' \subseteq Existing'
    BY <1>4, StuckStay DEF WriteKeys
  <2> QED
    BY <1>1, <1>4, <2>3, <2>4, <2>5 DEF TypeInv, WriteKeys
<1> QED
  BY <1>2, <1>3, <1>4 DEF Fill

LEMMA EndsTyped == ASSUME TypeInv, NEW b \in Builders, Ends(b) PROVE TypeInv'
<1> USE NamesFinite, BoundsAssumption
<1>1. /\ listing' \in [Builders -> SUBSET (Names \X (1..now))]
      /\ excess' \in [Builders -> 0..Cardinality(Names)]
      /\ root' \in [Builders -> Names \union {NoName}] /\ made' \in [Builders -> 0..NumPeers]
  BY DEF Ends, TypeInv
<1>2. stamp' \in [Builders -> 0..now] /\ attempt' \in [Builders -> 0..(Attempts - 1)]
  BY DEF Ends, TypeInv
<1>3. pc' \in [Builders -> Stages] /\ \A o \in Builders : Equipped(o)'
  BY DEF Ends, TypeInv, Goto, Stages, Equipped
<1>4. stuck' \subseteq Existing' /\ muted' \subseteq Builders
  BY StuckStay DEF Ends, disk, TypeInv
<1> QED
  BY <1>1, <1>2, <1>3, <1>4 DEF TypeInv, Ends, clock, disk

LEMMA TypeStep == ASSUME TypeInv, [Next]_vars PROVE TypeInv'
<1>1. CASE UNCHANGED vars
  <2>1. stuck' \subseteq Existing'
    BY <1>1, StuckStay DEF vars, disk
  <2> QED
    BY <1>1, <2>1 DEF vars, clock, disk, naming, TypeInv, Equipped
<1> QED
  BY <1>1, TickTyped, StartsTyped, CleanupTyped, CreateTyped, BaseFailsTyped, FillTyped, EndsTyped
     DEF Next

\* The type invariant, for any builders and any bounds.
THEOREM DirectoryTypeCorrect == Spec => []TypeOK
<1>1. Init => TypeInv
  BY TypeInit
<1>2. TypeInv /\ [Next]_vars => TypeInv'
  BY TypeStep
<1>3. TypeInv => TypeOK
  BY DEF TypeInv, TypeOK, Statuses, Owners, Stages
<1> QED
  BY <1>1, <1>2, <1>3, PTL DEF Spec

-----------------------------------------------------------------------------
\* What the steps do, of one builder among others.
Before == {"list", "remove", "stamp", "probe", "create"}
Within == {"guard", "peer", "keys", "start", "wait"}

Unwritten == [p \in 1..NumPeers |-> "nobody"]

Dated == {<<m, mtime[m]>> : m \in Existing}

Listed(b) == {e[1] : e \in listing[b]}

LEMMA ExistingIsFinite ==
  /\ IsFiniteSet(Existing) /\ Cardinality(Existing) \in Nat
  /\ IsFiniteSet(Counted) /\ Cardinality(Counted) \in Nat
  /\ Cardinality(Counted) <= Cardinality(Existing)
<1>1. IsFiniteSet(Existing)
  BY NamesFinite, FS_Subset DEF Existing
<1> QED
  BY <1>1, FS_Subset, FS_CardinalityType DEF Counted

LEMMA DatedCount == IsFiniteSet(Dated) /\ Cardinality(Dated) = Cardinality(Existing)
<1> USE ExistingIsFinite
<1> DEFINE f == [m \in Existing |-> <<m, mtime[m]>>]
           g == [e \in Dated |-> e[1]]
<1>1. f \in Surjection(Existing, Dated)
  BY DEF Surjection, Dated
<1>2. g \in Surjection(Dated, Existing)
  <2>1. \A e \in Dated : e[1] \in Existing
    BY DEF Dated
  <2>2. \A m \in Existing : <<m, mtime[m]>> \in Dated /\ <<m, mtime[m]>>[1] = m
    BY DEF Dated
  <2> QED
    BY <2>1, <2>2 DEF Surjection
<1> HIDE DEF f, g
<1>3. IsFiniteSet(Dated) /\ Cardinality(Dated) <= Cardinality(Existing)
  BY <1>1, FS_Surjection
<1>4. Cardinality(Existing) <= Cardinality(Dated)
  BY <1>2, <1>3, FS_Surjection
<1> QED
  BY <1>3, <1>4, FS_CardinalityType

LEMMA ListedCount ==
  ASSUME NEW b \in Builders, IsFiniteSet(listing[b])
  PROVE  IsFiniteSet(Listed(b)) /\ Cardinality(Listed(b)) <= Cardinality(listing[b])
<1> DEFINE f == [e \in listing[b] |-> e[1]]
<1>1. f \in Surjection(listing[b], Listed(b))
  BY DEF Surjection, Listed
<1> HIDE DEF f
<1> QED
  BY <1>1, FS_Surjection

\* A step that leaves the modification times alone leaves the same directories.
LEMMA SameExisting ==
  ASSUME UNCHANGED <<mtime, stuck>>
  PROVE  Existing' = Existing /\ Dated' = Dated /\ Counted' = Counted
BY DEF Existing, Exists, Dated, Counted

\* Where a step of a builder leaves it, and the others as they are.
LEMMA OthersStay ==
  ASSUME TypeInv, NEW b \in Builders,
         Cleanup(b) \/ Create(b) \/ BaseFails(b) \/ Fill(b) \/ Ends(b)
  PROVE  /\ now' = now
         /\ \A o \in Builders \ {b} :
              /\ pc'[o] = pc[o] /\ root'[o] = root[o] /\ stamp'[o] = stamp[o]
              /\ attempt'[o] = attempt[o] /\ made'[o] = made[o]
<1>1. CASE Cleanup(b)
  BY <1>1 DEF Cleanup, ListRuns, RemoveRun, CleanedUp, Goto, TypeInv, naming, clock
<1>2. CASE Create(b)
  BY <1>2 DEF Create, TakeStamp, ProbeName, CreateRoot, Goto, TypeInv, naming, clock
<1>3. CASE Fill(b)
  BY <1>3 DEF Fill, NewGuard, MakePeerDir, WriteKeys, PeerFilesFail, PeerStarts, PeerFails, Connected,
              NotConnected, Goto, TypeInv, naming, clock
<1>4. CASE BaseFails(b) \/ Ends(b)
  BY <1>4 DEF BaseFails, Ends, Goto, TypeInv, naming, clock
<1> QED
  BY <1>1, <1>2, <1>3, <1>4

LEMMA ClockStays ==
  ASSUME NEW b \in Builders, Create(b) \/ BaseFails(b) \/ Fill(b) \/ Ends(b)
  PROVE  UNCHANGED clock
BY DEF Create, TakeStamp, ProbeName, CreateRoot, BaseFails, Fill, NewGuard, MakePeerDir, WriteKeys,
       PeerFilesFail, PeerStarts, PeerFails, Connected, NotConnected, Ends

LEMMA WhereTo ==
  ASSUME TypeInv, NEW b \in Builders
  PROVE  /\ Cleanup(b) => pc[b] \in {"list", "remove"} /\ pc'[b] \in {"remove", "stamp"} /\ root' = root
         /\ TakeStamp(b) => pc[b] = "stamp" /\ pc'[b] = "probe" /\ root' = root
         /\ ProbeName(b) => pc[b] = "probe" /\ pc'[b] \in {"probe", "create", "failed"} /\ root' = root
         /\ CreateRoot(b) => pc[b] = "create" /\ pc'[b] = "guard"
         /\ BaseFails(b) => pc[b] \in {"list", "create"} /\ pc'[b] = "failed" /\ root' = root
         /\ Fill(b) => pc[b] \in Within /\ pc'[b] \in (Within \ {"guard"}) \union {"live", "failed"} /\ root' = root
         /\ Ends(b) => pc'[b] = "idle" /\ root'[b] = NoName
<1>1. Cleanup(b) => pc[b] \in {"list", "remove"} /\ pc'[b] \in {"remove", "stamp"} /\ root' = root
  BY DEF Cleanup, ListRuns, RemoveRun, CleanedUp, Goto, TypeInv
<1>2. /\ TakeStamp(b) => pc[b] = "stamp" /\ pc'[b] = "probe" /\ root' = root
      /\ ProbeName(b) => pc[b] = "probe" /\ pc'[b] \in {"probe", "create", "failed"} /\ root' = root
      /\ CreateRoot(b) => pc[b] = "create" /\ pc'[b] = "guard"
  BY DEF TakeStamp, ProbeName, CreateRoot, Goto, TypeInv
<1>3. Fill(b) => pc[b] \in Within /\ pc'[b] \in (Within \ {"guard"}) \union {"live", "failed"} /\ root' = root
  BY DEF Fill, NewGuard, MakePeerDir, WriteKeys, PeerFilesFail, PeerStarts, PeerFails, Connected,
         NotConnected, Goto, TypeInv, Within
<1>4. /\ Ends(b) => pc'[b] = "idle" /\ root'[b] = NoName
      /\ BaseFails(b) => pc[b] \in {"list", "create"} /\ pc'[b] = "failed" /\ root' = root
  BY DEF Ends, BaseFails, Goto, TypeInv
<1> QED
  BY <1>1, <1>2, <1>3, <1>4

\* What a removal makes of directory m: it is gone; or something is left of it, and it counts
\* as stuck.
Gone(m) ==
  /\ mtime'[m] = 0 /\ status'[m] = NoStatus /\ owner'[m] = Unwritten
  /\ stuck' = stuck \ {m} /\ started' = started

LeftOver(m) ==
  /\ Exists(m) /\ status'[m] \in {status[m], NoStatus} /\ stuck' = stuck \union {m}
  /\ \A p \in 1..NumPeers : owner'[m][p] \in {owner[m][p], "empty", "nobody"}
  /\ \/ mtime'[m] = mtime[m] /\ started' = started
     \/ mtime'[m] = now /\ started' = started + 1

OthersAsTheyWere(m) ==
  \A n \in Names \ {m} : mtime'[n] = mtime[n] /\ status'[n] = status[n] /\ owner'[n] = owner[n]

LEMMA RemoveEffect ==
  ASSUME TypeInv, NEW b \in Builders, RemoveRun(b)
  PROVE  \E e \in listing[b] :
           /\ ComesFirst(e, listing[b]) /\ e[1] \in Names
           /\ listing' = [listing EXCEPT ![b] = @ \ {e}]
           /\ Gone(e[1]) \/ LeftOver(e[1])
           /\ OthersAsTheyWere(e[1])
<1>1. PICK e \in listing[b] :
        /\ ComesFirst(e, listing[b])
        /\ listing' = [listing EXCEPT ![b] = @ \ {e}]
        /\ RemoveWhole(e[1]) \/ RemoveFails(e[1])
  BY DEF RemoveRun
<1>2. PICK m \in Names : m = e[1]
  BY DEF TypeInv
<1>3. CASE RemoveWhole(m)
  <2>1. Gone(m) /\ OthersAsTheyWere(m)
    BY <1>3 DEF RemoveWhole, Gone, OthersAsTheyWere, Unwritten, TypeInv
  <2> QED
    BY <1>1, <1>2, <2>1
<1>4. CASE RemoveFails(m)
  <2>1. PICK left \in Remnants(m) :
          /\ status' = [status EXCEPT ![m] = left[1]]
          /\ owner' = [owner EXCEPT ![m] = left[2]]
          /\ \/ started' = started + 1 /\ mtime' = [mtime EXCEPT ![m] = now]
             \/ UNCHANGED <<started, mtime>>
    BY <1>4 DEF RemoveFails
  <2>2. /\ left[1] \in {status[m], NoStatus}
        /\ \A p \in 1..NumPeers : left[2][p] \in {owner[m][p], "empty", "nobody"}
    BY DEF Remnants
  <2>3. LeftOver(m)
    BY <1>4, <2>1, <2>2 DEF RemoveFails, LeftOver, TypeInv
  <2>4. OthersAsTheyWere(m)
    BY <2>1 DEF OthersAsTheyWere, TypeInv
  <2> QED
    BY <1>1, <1>2, <2>3, <2>4
<1> QED
  BY <1>1, <1>2, <1>3, <1>4

\* Whatever comes of it, the directory counts no longer.
LEMMA CountedLess ==
  ASSUME TypeInv, NEW m \in Names, Gone(m) \/ LeftOver(m), OthersAsTheyWere(m)
  PROVE  Counted' \subseteq Counted \ {m}
<1>1. \A n \in Names \ {m} : n \in Existing' => n \in Existing
  BY DEF OthersAsTheyWere, Existing, Exists
<1>2. m \in Existing' => m \in stuck'
  BY DEF Gone, LeftOver, Existing, Exists
<1> QED
  BY <1>1, <1>2 DEF Counted, Existing, Gone, LeftOver

\* A listing has MaxRuns directories more than are to be removed.
InExcess ==
  \A b \in Builders : pc[b] = "remove" =>
    IsFiniteSet(listing[b]) /\ Cardinality(listing[b]) = MaxRuns + excess[b]

LEMMA InExcessStep == ASSUME TypeInv, InExcess, [Next]_vars PROVE InExcess'
<1> USE BoundsAssumption, ExistingIsFinite
<1>1. CASE UNCHANGED vars \/ Tick
  BY <1>1 DEF vars, Tick, InExcess
<1>2. ASSUME NEW b \in Builders, Starts(b) PROVE InExcess'
  BY <1>2 DEF Starts, Goto, InExcess, TypeInv
<1>3. ASSUME NEW b \in Builders, Create(b) \/ BaseFails(b) \/ Fill(b) \/ Ends(b)
      PROVE  InExcess'
  <2>1. pc'[b] # "remove"
    BY <1>3, WhereTo DEF Create, Within
  <2>2. \A o \in Builders \ {b} : listing'[o] = listing[o] /\ excess'[o] = excess[o]
    BY <1>3 DEF Create, TakeStamp, ProbeName, CreateRoot, BaseFails, Fill, NewGuard, MakePeerDir, WriteKeys,
                PeerFilesFail, PeerStarts, PeerFails, Connected, NotConnected, Ends, TypeInv
  <2> QED
    BY <1>3, <2>1, <2>2, OthersStay DEF InExcess
<1>4. ASSUME NEW b \in Builders, Cleanup(b) PROVE InExcess'
  <2>1. \A o \in Builders \ {b} : listing'[o] = listing[o] /\ excess'[o] = excess[o]
    BY <1>4 DEF Cleanup, ListRuns, RemoveRun, CleanedUp, TypeInv
  <2> SUFFICES ASSUME pc'[b] = "remove"
               PROVE  IsFiniteSet(listing'[b]) /\ Cardinality(listing'[b]) = MaxRuns + excess'[b]
    BY <1>4, <2>1, OthersStay DEF InExcess
  <2>2. CASE ListRuns(b)
    <3>1. listing'[b] = Dated /\ excess'[b] = Cardinality(Existing) - MaxRuns
      BY <2>2 DEF ListRuns, Goto, Dated, RemoveCount, TypeInv
    <3>2. IsFiniteSet(Dated) /\ Cardinality(Dated) = Cardinality(Existing)
      BY DatedCount
    <3> QED
      BY <3>1, <3>2
  <2>3. CASE RemoveRun(b)
    <3>1. PICK e \in listing[b] : listing'[b] = listing[b] \ {e}
      BY <2>3 DEF RemoveRun, TypeInv
    <3>2. pc[b] = "remove" /\ excess'[b] = excess[b] - 1 /\ excess[b] \in Nat
      BY <2>3, NamesFinite DEF RemoveRun, TypeInv
    <3>3. IsFiniteSet(listing[b]) /\ Cardinality(listing[b]) = MaxRuns + excess[b]
      BY <3>2 DEF InExcess
    <3> PICK all : all = listing[b]
      OBVIOUS
    <3>4. IsFiniteSet(all \ {e}) /\ Cardinality(all \ {e}) = Cardinality(all) - 1
      BY <3>3, FS_RemoveElement
    <3>5. IsFiniteSet(listing'[b]) /\ Cardinality(listing'[b]) = Cardinality(listing[b]) - 1
      BY <3>1, <3>4
    <3> QED
      BY <3>2, <3>3, <3>5
  <2>4. ~CleanedUp(b)
    BY DEF CleanedUp, Goto, TypeInv
  <2> QED
    BY <1>4, <2>2, <2>3, <2>4 DEF Cleanup
<1> QED
  BY <1>1, <1>2, <1>3, <1>4 DEF Next

-----------------------------------------------------------------------------
\* Builds that exclude one another: nobody else changes what a build has listed, counted or
\* made, so what it removes, or fails to, leaves MaxRuns directories that count, to which it
\* adds its own.
InTurn ==
  /\ \A b, o \in Builders : pc[b] \in Building /\ pc[o] \in Building => b = o
  /\ Cardinality(Counted) <= MaxRuns + 1
  /\ \A b \in Builders :
       /\ pc[b] = "remove" => listing[b] \subseteq Dated /\ Counted \subseteq Listed(b)
       /\ pc[b] \in {"stamp", "probe", "create"} => Cardinality(Counted) <= MaxRuns
       /\ pc[b] \in {"guard", "peer", "keys", "start", "wait"} => Exists(root[b])

LEMMA InTurnInit == ASSUME Init PROVE InTurn
<1>1. Counted = {}
  BY DEF Init, Existing, Exists, Counted
<1>2. Cardinality(Counted) = 0
  BY <1>1, FS_EmptySet
<1>3. \A b \in Builders : pc[b] = "idle"
  BY DEF Init
<1> QED
  BY <1>2, <1>3, BoundsAssumption DEF InTurn, Building

\* While one builds the others do nothing that matters.
LEMMA OnlyOne ==
  ASSUME InTurn, NEW b \in Builders, pc[b] \in Building, TypeInv,
         NEW where \in Stages, pc' = [pc EXCEPT ![b] = where]
  PROVE  /\ \A o \in Builders \ {b} : pc[o] \notin Building /\ pc'[o] \notin Building
         /\ pc'[b] = where
         /\ \A c, o \in Builders : pc'[c] \in Building /\ pc'[o] \in Building => c = o
BY DEF InTurn, TypeInv

\* A removal takes one of the directories it has listed, as it has been listed.
LEMMA RemoveInTurn ==
  ASSUME TypeInv, InTurn, NEW b \in Builders, RemoveRun(b)
  PROVE  \E e \in listing[b], m \in Existing :
           /\ e = <<m, mtime[m]>> /\ ComesFirst(e, listing[b])
           /\ listing'[b] = listing[b] \ {e}
           /\ Gone(m) \/ LeftOver(m)
           /\ OthersAsTheyWere(m)
<1>1. PICK e \in listing[b] :
        /\ ComesFirst(e, listing[b]) /\ e[1] \in Names
        /\ listing' = [listing EXCEPT ![b] = @ \ {e}]
        /\ Gone(e[1]) \/ LeftOver(e[1])
        /\ OthersAsTheyWere(e[1])
  BY RemoveEffect
<1>2. e \in Dated
  BY DEF RemoveRun, InTurn
<1>3. PICK m \in Existing : e = <<m, mtime[m]>>
  BY <1>2 DEF Dated
<1>4. listing'[b] = listing[b] \ {e}
  BY <1>1 DEF TypeInv
<1> QED
  BY <1>1, <1>3, <1>4

LEMMA CleanupInTurn ==
  ASSUME TypeInv, InExcess, InTurn, NEW b \in Builders, Cleanup(b) PROVE InTurn'
<1> USE BoundsAssumption, ExistingIsFinite
<1>0. /\ pc[b] \in Building
      /\ \E where \in {"remove", "stamp"} : pc' = [pc EXCEPT ![b] = where]
  BY DEF Cleanup, ListRuns, RemoveRun, CleanedUp, Goto, Building, TypeInv
<1>1. PICK where \in {"remove", "stamp"} : pc' = [pc EXCEPT ![b] = where]
  BY <1>0
<1>2. /\ \A o \in Builders \ {b} : pc'[o] \notin Building
      /\ pc'[b] = where
      /\ \A c, o \in Builders : pc'[c] \in Building /\ pc'[o] \in Building => c = o
  BY <1>0, <1>1, OnlyOne DEF Stages, Building
<1>3. SUFFICES /\ Cardinality(Counted)' <= MaxRuns + 1
               /\ where = "remove" => listing'[b] \subseteq Dated' /\ Counted' \subseteq Listed(b)'
               /\ where = "stamp" => Cardinality(Counted)' <= MaxRuns
  BY <1>2 DEF InTurn, Building
<1>4. CASE ListRuns(b)
  <2>1. Dated' = Dated /\ Counted' = Counted
    BY <1>4, SameExisting DEF ListRuns, disk
  <2>2. CASE Cardinality(Existing) <= MaxRuns
    <3>1. pc' = [pc EXCEPT ![b] = "stamp"]
      BY <1>4, <2>2 DEF ListRuns, Goto
    <3>2. where = "stamp"
      BY <1>2, <3>1 DEF TypeInv
    <3> QED
      BY <2>1, <2>2, <3>2
  <2>3. CASE ~(Cardinality(Existing) <= MaxRuns)
    <3>1. pc' = [pc EXCEPT ![b] = "remove"] /\ listing' = [listing EXCEPT ![b] = Dated]
      BY <1>4, <2>3 DEF ListRuns, Goto, Dated
    <3>2. where = "remove" /\ listing'[b] = Dated
      BY <1>2, <3>1 DEF TypeInv
    <3>3. Counted \subseteq Listed(b)'
      <4>1. \A m \in Existing : <<m, mtime[m]>> \in Dated /\ <<m, mtime[m]>>[1] = m
        BY DEF Dated
      <4> QED
        BY <3>2, <4>1 DEF Listed, Counted
    <3>4. Cardinality(Counted) <= MaxRuns + 1
      BY DEF InTurn
    <3> QED
      BY <2>1, <3>2, <3>3, <3>4
  <2> QED
    BY <2>2, <2>3
<1>5. CASE RemoveRun(b)
  <2>1. PICK e \in listing[b], m \in Existing :
          /\ e = <<m, mtime[m]>>
          /\ listing'[b] = listing[b] \ {e}
          /\ Gone(m) \/ LeftOver(m)
          /\ OthersAsTheyWere(m)
    BY <1>5, RemoveInTurn
  <2>2. /\ where = "remove" /\ listing[b] \subseteq Dated /\ Counted \subseteq Listed(b)
        /\ Cardinality(Counted) <= MaxRuns + 1
    BY <1>2, <1>5 DEF RemoveRun, InTurn, TypeInv
  <2>3. m \in Names /\ Counted' \subseteq Counted \ {m}
    BY <2>1, CountedLess DEF Existing
  <2>4. Cardinality(Counted') <= Cardinality(Counted) /\ Cardinality(Counted') \in Nat
    BY <2>3, FS_Subset, FS_CardinalityType
  <2>5. listing'[b] \subseteq Dated'
    <3> SUFFICES ASSUME NEW f \in listing[b], f # e PROVE f \in Dated'
      BY <2>1
    <3>1. PICK n \in Existing : f = <<n, mtime[n]>>
      BY <2>2 DEF Dated
    <3>2. n \in Names \ {m}
      BY <2>1, <3>1 DEF Existing
    <3>3. mtime'[n] = mtime[n]
      BY <2>1, <3>2 DEF OthersAsTheyWere
    <3> QED
      BY <3>1, <3>3 DEF Dated, Existing, Exists
  <2>6. Counted' \subseteq Listed(b)'
    <3> SUFFICES ASSUME NEW n \in Counted' PROVE \E f \in listing'[b] : f[1] = n
      BY DEF Listed
    <3>1. n \in Counted /\ n # m
      BY <2>3
    <3>2. PICK f \in listing[b] : f[1] = n
      BY <2>2, <3>1 DEF Listed
    <3> QED
      BY <2>1, <3>1, <3>2
  <2> QED
    BY <2>2, <2>4, <2>5, <2>6
<1>6. CASE CleanedUp(b)
  <2>1. Counted' = Counted /\ where = "stamp"
    BY <1>2, <1>6, SameExisting DEF CleanedUp, disk, Goto, TypeInv
  <2>2. /\ IsFiniteSet(listing[b]) /\ Cardinality(listing[b]) = MaxRuns
        /\ Counted \subseteq Listed(b)
    <3>1. excess[b] = 0 /\ pc[b] = "remove"
      BY <1>6, NamesFinite DEF CleanedUp, TypeInv
    <3> QED
      BY <3>1 DEF InExcess, InTurn
  <2>3. Cardinality(Counted) <= Cardinality(Listed(b)) /\ Cardinality(Listed(b)) <= MaxRuns
    BY <2>2, ListedCount, FS_Subset
  <2>4. Cardinality(Counted) <= MaxRuns
    BY <2>2, <2>3, ListedCount, FS_CardinalityType
  <2> QED
    BY <2>1, <2>4
<1> QED
  BY <1>4, <1>5, <1>6 DEF Cleanup

LEMMA CreateInTurn ==
  ASSUME TypeInv, InTurn, NEW b \in Builders, Create(b) PROVE InTurn'
<1> USE BoundsAssumption, ExistingIsFinite
<1>0. /\ pc[b] \in {"stamp", "probe", "create"}
      /\ \E where \in {"probe", "create", "guard", "failed"} : pc' = [pc EXCEPT ![b] = where]
  <2>1. TypeInv => pc = [pc EXCEPT ![b] = pc[b]]
    BY DEF TypeInv
  <2> QED
    BY <2>1 DEF Create, TakeStamp, ProbeName, CreateRoot, Goto
<1>1. PICK where \in {"probe", "create", "guard", "failed"} : pc' = [pc EXCEPT ![b] = where]
  BY <1>0
<1>2. /\ \A o \in Builders \ {b} : pc'[o] \notin Building
      /\ pc'[b] = where
      /\ \A c, o \in Builders : pc'[c] \in Building /\ pc'[o] \in Building => c = o
  BY <1>0, <1>1, OnlyOne DEF Stages, Building
<1>3. Cardinality(Counted) <= MaxRuns
  BY <1>0 DEF InTurn
<1>4. CASE TakeStamp(b) \/ ProbeName(b)
  <2>1. Counted' = Counted /\ where # "guard"
    BY <1>2, <1>4, SameExisting DEF TakeStamp, ProbeName, disk, Goto, TypeInv
  <2> QED
    BY <1>2, <1>3, <2>1 DEF InTurn, Building
<1>5. CASE CreateRoot(b)
  <2>1. PICK n \in Names : n = Candidate(b)
    BY <1>5, CandidateIsName DEF CreateRoot
  <2>2. /\ root'[b] = n /\ where = "guard" /\ now # 0
        /\ mtime' = [mtime EXCEPT ![n] = IF mtime[n] = 0 THEN now ELSE mtime[n]]
    BY <1>2, <1>5, <2>1 DEF CreateRoot, Goto, TypeInv
  <2>3. Counted' \subseteq Counted \union {n} /\ mtime'[n] # 0
    BY <1>5, <2>2 DEF Counted, Existing, Exists, TypeInv, CreateRoot
  <2>4. Cardinality(Counted') <= MaxRuns + 1
    <3>1. /\ IsFiniteSet(Counted \union {n})
          /\ Cardinality(Counted \union {n}) \in {Cardinality(Counted), Cardinality(Counted) + 1}
      BY FS_AddElement
    <3>2. Cardinality(Counted') <= Cardinality(Counted \union {n}) /\ Cardinality(Counted') \in Nat
      BY <2>3, <3>1, FS_Subset, FS_CardinalityType
    <3> QED
      BY <1>3, <3>1, <3>2
  <2> QED
    BY <1>2, <2>2, <2>3, <2>4 DEF InTurn, Building, Exists
<1> QED
  BY <1>4, <1>5 DEF Create

\* Filling a directory changes no other's modification time.
LEMMA FillTimes ==
  ASSUME NEW b \in Builders, Fill(b), NEW n, n = root[b]
  PROVE  /\ UNCHANGED stuck
         /\ \/ UNCHANGED mtime
            \/ mtime' = [mtime EXCEPT ![n] = now]
            \/ mtime' = [mtime EXCEPT ![n] = mtime[n]]
<1>1. ASSUME NEW v, WriteStatus(b, v)
      PROVE  \/ UNCHANGED mtime
             \/ mtime' = [mtime EXCEPT ![n] = now]
             \/ mtime' = [mtime EXCEPT ![n] = mtime[n]]
  BY <1>1, WriteEffect
<1> QED
  BY <1>1 DEF Fill, NewGuard, MakePeerDir, WriteKeys, PeerFilesFail, PeerStarts, PeerFails, Connected,
              NotConnected, disk

LEMMA FillInTurn ==
  ASSUME TypeInv, InTurn, NEW b \in Builders, Fill(b) PROVE InTurn'
<1> USE BoundsAssumption, ExistingIsFinite
<1>0. /\ pc[b] \in {"guard", "peer", "keys", "start", "wait"} /\ root' = root
      /\ \E where \in {"peer", "keys", "start", "wait", "live", "failed"} :
           pc' = [pc EXCEPT ![b] = where]
  BY DEF Fill, NewGuard, MakePeerDir, WriteKeys, PeerFilesFail, PeerStarts, PeerFails, Connected,
         NotConnected, Goto
<1>1. PICK where \in {"peer", "keys", "start", "wait", "live", "failed"} : pc' = [pc EXCEPT ![b] = where]
  BY <1>0
<1>2. /\ \A o \in Builders \ {b} : pc'[o] \notin Building
      /\ pc'[b] = where
      /\ \A c, o \in Builders : pc'[c] \in Building /\ pc'[o] \in Building => c = o
  BY <1>0, <1>1, OnlyOne DEF Stages, Building
<1>3. PICK n \in Names : n = root[b] /\ Exists(n)
  BY <1>0 DEF InTurn, TypeInv, Equipped
<1>4. UNCHANGED stuck /\ (UNCHANGED mtime \/ mtime' = [mtime EXCEPT ![n] = now] \/ mtime' = [mtime EXCEPT ![n] = mtime[n]])
  BY <1>3, FillTimes
<1>5. Counted' = Counted /\ mtime'[n] # 0
  BY <1>3, <1>4 DEF Counted, Existing, Exists, TypeInv
<1> QED
  BY <1>0, <1>2, <1>3, <1>5 DEF InTurn, Building, Exists

LEMMA InTurnStep ==
  ASSUME Serial, TypeInv, InExcess, InTurn, [Next]_vars PROVE InTurn'
<1>1. CASE UNCHANGED vars \/ Tick
  <2>1. Dated' = Dated /\ Counted' = Counted /\ UNCHANGED <<mtime, pc, listing, root>>
    BY <1>1, SameExisting DEF vars, disk, Tick
  <2> QED
    BY <2>1 DEF InTurn, Exists, Listed
<1>2. ASSUME NEW b \in Builders, Starts(b) PROVE InTurn'
  <2>1. Counted' = Counted
    BY <1>2, SameExisting DEF disk, Starts
  <2>2. /\ \A o \in Builders : pc[o] \notin Building
        /\ pc' = [pc EXCEPT ![b] = "list"]
    BY <1>2 DEF Starts, Goto
  <2>3. /\ pc'[b] = "list" /\ \A o \in Builders \ {b} : pc'[o] \notin Building
    BY <2>2 DEF TypeInv
  <2> QED
    BY <2>1, <2>3 DEF InTurn, Building
<1>3. ASSUME NEW b \in Builders, Ends(b) \/ BaseFails(b) PROVE InTurn'
  <2>1. Dated' = Dated /\ Counted' = Counted /\ UNCHANGED mtime
    BY <1>3, SameExisting DEF disk, Ends, BaseFails
  <2>2. /\ pc'[b] \in {"idle", "failed"}
        /\ \A o \in Builders \ {b} : /\ pc'[o] = pc[o] /\ listing'[o] = listing[o]
                                      /\ root'[o] = root[o]
    BY <1>3 DEF Ends, BaseFails, Goto, TypeInv
  <2> QED
    BY <2>1, <2>2 DEF InTurn, Building, Exists, Listed
<1> QED
  BY <1>1, <1>2, <1>3, CleanupInTurn, CreateInTurn, FillInTurn DEF Next

LEMMA InTurnAlways ==
  ASSUME Serial PROVE Spec => [](TypeInv /\ InExcess /\ InTurn)
<1>1. Init => TypeInv /\ InExcess /\ InTurn
  <2>1. Init => InExcess
    BY DEF Init, InExcess
  <2> QED
    BY <2>1, TypeInit, InTurnInit
<1>2. TypeInv /\ InExcess /\ InTurn /\ [Next]_vars => (TypeInv /\ InExcess /\ InTurn)'
  BY TypeStep, InExcessStep, InTurnStep
<1> QED
  BY <1>1, <1>2, PTL DEF Spec

\* Builds that exclude one another never keep more than MaxRuns directories and their own.
LEMMA BoundedInTurn ==
  ASSUME Serial PROVE Spec => []RetentionBound
<1>1. InTurn => RetentionBound
  BY DEF InTurn, RetentionBound
<1> QED
  BY <1>1, InTurnAlways, PTL

\* Only a clean-up makes a directory disappear, and it takes one that comes first.
LEMMA RemovedComesFirst ==
  ASSUME TypeInv, InTurn, [Next]_vars, NEW n \in Names, Exists(n), mtime'[n] = 0
  PROVE  \E b \in Builders :
           /\ RemoveRun(b)
           /\ \E e \in listing[b] : /\ e = <<n, mtime[n]>> /\ ComesFirst(e, listing[b])
                                    /\ OthersAsTheyWere(n)
<1>0. mtime[n] # 0 /\ now # 0
  BY DEF TypeInv, Exists
<1>1. mtime' # mtime
  BY <1>0
<1>2. PICK b \in Builders : Cleanup(b) \/ Create(b) \/ Fill(b)
  BY <1>1 DEF Next, Tick, Starts, BaseFails, Ends, vars, disk
<1>3. ~Fill(b)
  BY <1>0, FillTimes DEF TypeInv
<1>4. ~Create(b)
  BY <1>0 DEF Create, TakeStamp, ProbeName, CreateRoot, TypeInv, disk
<1>5. RemoveRun(b)
  BY <1>1, <1>2, <1>3, <1>4 DEF Cleanup, ListRuns, CleanedUp, disk
<1>6. PICK e \in listing[b], m \in Existing :
        /\ e = <<m, mtime[m]>> /\ ComesFirst(e, listing[b])
        /\ Gone(m) \/ LeftOver(m)
        /\ OthersAsTheyWere(m)
  BY <1>5, RemoveInTurn
<1>7. m = n
  BY <1>0, <1>6 DEF OthersAsTheyWere
<1> QED
  BY <1>5, <1>6, <1>7

\* Builds that exclude one another remove a directory only while MaxRuns others, none of
\* them older, stay: a live network is safe from fewer later runs.
THEOREM NewestAreKept ==
  ASSUME Serial PROVE Spec => NewestSurvive
<1>1. TypeInv /\ InExcess /\ InTurn /\ [Next]_vars =>
        [\A n \in Names : Exists(n) /\ mtime'[n] = 0 =>
           Cardinality({m \in Existing : mtime'[m] # 0 /\ mtime[m] >= mtime[n]}) >= MaxRuns]_vars
  <2> SUFFICES ASSUME TypeInv, InExcess, InTurn, [Next]_vars, NEW n \in Names, Exists(n), mtime'[n] = 0
               PROVE  Cardinality({m \in Existing : mtime'[m] # 0 /\ mtime[m] >= mtime[n]}) >= MaxRuns
    OBVIOUS
  <2> DEFINE newer == {m \in Existing : mtime'[m] # 0 /\ mtime[m] >= mtime[n]}
  <2>1. PICK b \in Builders : /\ RemoveRun(b)
           /\ \E e \in listing[b] : /\ e = <<n, mtime[n]>> /\ ComesFirst(e, listing[b])
                                    /\ OthersAsTheyWere(n)
    BY RemovedComesFirst
  <2>2. PICK e \in listing[b] : /\ e = <<n, mtime[n]>> /\ ComesFirst(e, listing[b])
                                /\ OthersAsTheyWere(n)
    BY <2>1
  <2>3. /\ listing[b] \subseteq Dated /\ IsFiniteSet(listing[b])
        /\ Cardinality(listing[b]) = MaxRuns + excess[b] /\ excess[b] \in Nat /\ excess[b] > 0
    BY <2>1, NamesFinite DEF RemoveRun, InTurn, InExcess, TypeInv
  <2> PICK all : all = listing[b]
    OBVIOUS
  <2> PICK others : others = all \ {e}
    OBVIOUS
  <2>4. IsFiniteSet(others) /\ Cardinality(others) = MaxRuns + excess[b] - 1
    <3>1. IsFiniteSet(others) /\ Cardinality(others) = Cardinality(all) - 1
      BY <2>3, FS_RemoveElement
    <3>2. Cardinality(all) = MaxRuns + excess[b]
      BY <2>3
    <3> QED
      BY <2>3, <3>1, <3>2, BoundsAssumption
  <2>5. ASSUME NEW f \in others
        PROVE  f[1] \in newer /\ f = <<f[1], mtime[f[1]]>>
    <3>1. PICK m \in Existing : f = <<m, mtime[m]>>
      BY <2>3 DEF Dated
    <3>2. m \in Names /\ m # n /\ mtime[m] # 0 /\ f[1] = m /\ f[2] = mtime[m]
      BY <2>2, <3>1 DEF Existing, Exists
    <3>3. mtime'[m] = mtime[m]
      BY <2>2, <3>2 DEF OthersAsTheyWere
    <3>4. e[2] <= f[2] /\ e[2] = mtime[n]
      BY <2>2 DEF ComesFirst
    <3>5. mtime[m] \in Int /\ mtime[n] \in Int
      BY <3>2 DEF TypeInv
    <3> QED
      BY <3>1, <3>2, <3>3, <3>4, <3>5
  <2>6. IsFiniteSet(newer) /\ Cardinality(newer) \in Nat
    BY ExistingIsFinite, FS_Subset, FS_CardinalityType
  <2> HIDE DEF newer
  <2> DEFINE names == {f[1] : f \in others}
             g == [m \in names |-> <<m, mtime[m]>>]
  <2>7. g \in Surjection(names, others)
    BY <2>5 DEF Surjection
  <2>8. names \subseteq newer
    BY <2>5
  <2> HIDE DEF names, g
  <2>9. Cardinality(others) <= Cardinality(names) /\ Cardinality(names) <= Cardinality(newer)
        /\ Cardinality(names) \in Nat
    BY <2>6, <2>7, <2>8, FS_Surjection, FS_Subset, FS_CardinalityType
  <2>10. Cardinality(newer) >= MaxRuns
    BY <2>3, <2>4, <2>6, <2>9, BoundsAssumption
  <2> QED
    BY <2>10 DEF newer
<1> QED
  BY <1>1, InTurnAlways, PTL DEF Spec, NewestSurvive

-----------------------------------------------------------------------------
\* Builds that exclude one another, when no more of them start, or break off a removal, within
\* one second than runs are kept: a clean-up then never takes a directory of the current second, so a name that is
\* free again is of an earlier second, and no later build comes to use it.
\* The directories written in this second: at most one for each build that has begun in it,
\* and for each removal that has broken off in it, and one for the build that was under way
\* when it began.
Recent == {n \in Names : mtime[n] = now}

FewRecent ==
  /\ (\A b \in Builders : pc[b] \notin Building) => Cardinality(Recent) <= started + 1
  /\ \A b \in Builders :
       /\ pc[b] \in Before => Cardinality(Recent) <= started
       /\ pc[b] \in Within => Cardinality(Recent \ {root[b]}) <= started

\* What a name says of its directory and of the builder that has it.
Named ==
  /\ \A n \in Names : Exists(n) => n[1] <= mtime[n]
  /\ \A n \in Names : ~Exists(n) => status[n] = NoStatus /\ owner[n] = Unwritten
  /\ \A b \in Builders : pc[b] \in Before \union {"idle"} => root[b] = NoName
  /\ \A b \in Builders : pc[b] = "live" => root[b] # NoName
  /\ \A b \in Builders : pc[b] = "create" => ~Exists(Candidate(b))
  /\ \A b, o \in Builders : root[b] # NoName /\ root[o] = root[b] => o = b
  /\ \A b \in Builders : root[b] # NoName /\ ~Exists(root[b]) =>
       /\ root[b][1] < now
       /\ \A o \in Builders : pc[o] \in {"probe", "create"} => root[b][1] < stamp[o]

\* What run_status.txt of n says of b when value has been written last: that, as long as it
\* could be written and no clean-up has tried to remove it; else an earlier state of it.
Says(b, n, value) ==
  /\ status[n] \in {NoStatus} \union {[by |-> b, value |-> v] : v \in {"initializing", "cut", value}}
  /\ n \notin stuck /\ b \notin muted => status[n] = [by |-> b, value |-> value]

\* What a builder has written so far in its directory n.
Contents(b, n) ==
  /\ pc[b] = "guard" => status[n] = NoStatus /\ owner[n] = Unwritten
  /\ pc[b] \in {"peer", "keys", "start", "wait"} =>
       /\ Says(b, n, "initializing")
       /\ \A p \in 1..NumPeers :
            owner[n][p] = IF p > made[b] THEN "nobody"
                          ELSE IF p = made[b] /\ pc[b] = "keys" THEN "empty" ELSE b
  /\ pc[b] = "wait" => made[b] = NumPeers
  /\ pc[b] = "live" => /\ Says(b, n, "success")
                       /\ \A p \in 1..NumPeers : owner[n][p] \in {b, "empty", "nobody"}
                       /\ n \notin stuck => \A p \in 1..NumPeers : owner[n][p] = b
  /\ pc[b] = "failed" /\ Backend = "Local" => Says(b, n, "failure")

Filled == \A b \in Builders : root[b] # NoName /\ Exists(root[b]) => Contents(b, root[b])

FilesInv == TypeInv /\ InExcess /\ InTurn /\ FewRecent /\ Named /\ Filled

LEMMA FilesInit == ASSUME Init PROVE FilesInv
<1>1. TypeInv /\ InExcess /\ InTurn
  BY TypeInit, InTurnInit DEF Init, InExcess
<1>2. Recent = {}
  BY DEF Init, Recent
<1>3. Cardinality(Recent) = 0 /\ started = 0
  BY <1>2, FS_EmptySet DEF Init
<1>4. \A b \in Builders : pc[b] = "idle" /\ root[b] = NoName
  BY DEF Init
<1>5. FewRecent
  BY <1>3, <1>4 DEF FewRecent, Before, Within
<1>6. Named
  <2>1. \A n \in Names : ~Exists(n) /\ status[n] = NoStatus /\ owner[n] = Unwritten
    BY DEF Init, Exists, Unwritten
  <2> QED
    BY <1>4, <2>1 DEF Named
<1>7. Filled
  BY <1>4 DEF Filled
<1> QED
  BY <1>1, <1>5, <1>6, <1>7 DEF FilesInv

\* Counting what is recent: one directory more or less.
LEMMA WithoutOne ==
  ASSUME NEW S, IsFiniteSet(S), NEW x
  PROVE  /\ Cardinality(S) \in Nat /\ Cardinality(S \ {x}) \in Nat
         /\ Cardinality(S) <= Cardinality(S \ {x}) + 1
<1>1. Cardinality(S) \in Nat /\ IsFiniteSet(S \ {x}) /\ Cardinality(S \ {x}) \in Nat
  BY FS_Subset, FS_CardinalityType
<1>2. CASE x \in S
  <2>1. Cardinality(S \ {x}) = Cardinality(S) - 1
    BY <1>2, FS_RemoveElement
  <2> QED
    BY <1>1, <2>1
<1>3. CASE x \notin S
  <2>1. S \ {x} = S
    BY <1>3
  <2> QED
    BY <1>1, <2>1
<1> QED
  BY <1>2, <1>3

LEMMA RecentIsFinite == IsFiniteSet(Recent) /\ Cardinality(Recent) \in Nat
BY NamesFinite, FS_Subset, FS_CardinalityType DEF Recent

\* What a step of cleanup_old_runs, create_run_directory and what follows does to the disk.
LEMMA CreateEffect ==
  ASSUME TypeInv, Named, NEW b \in Builders, CreateRoot(b)
  PROVE  \E n \in Names :
           /\ n = Candidate(b) /\ ~Exists(n) /\ n[1] = stamp[b] /\ root'[b] = n
           /\ mtime' = [mtime EXCEPT ![n] = now] /\ UNCHANGED <<status, owner>>
<1>1. PICK n \in Names : n = Candidate(b)
  BY CandidateIsName DEF CreateRoot
<1>2. ~Exists(n) /\ n[1] = stamp[b]
  BY <1>1 DEF CreateRoot, Named, Candidate
<1>3. root'[b] = n /\ mtime' = [mtime EXCEPT ![n] = now]
  BY <1>1, <1>2 DEF CreateRoot, Exists, TypeInv
<1> QED
  BY <1>1, <1>2, <1>3 DEF CreateRoot

LEMMA FillEffect ==
  ASSUME TypeInv, InTurn, NEW b \in Builders, Fill(b)
  PROVE  \E n \in Names :
           /\ n = root[b] /\ Exists(n)
           /\ mtime'[n] \in {mtime[n], now}
           /\ \A m \in Names \ {n} :
                mtime'[m] = mtime[m] /\ status'[m] = status[m] /\ owner'[m] = owner[m]
<1>1. PICK n \in Names : n = root[b] /\ Exists(n)
  BY DEF Fill, NewGuard, MakePeerDir, WriteKeys, PeerFilesFail, PeerStarts, PeerFails, Connected,
         NotConnected, InTurn, TypeInv, Equipped
<1>2. mtime' = mtime \/ mtime' = [mtime EXCEPT ![n] = now] \/ mtime' = [mtime EXCEPT ![n] = mtime[n]]
  BY <1>1, FillTimes
<1>3. \A m \in Names \ {n} : status'[m] = status[m]
  <2>1. ASSUME NEW v, WriteStatus(b, v) PROVE <1>3!:
    <3>1. \/ UNCHANGED status
          \/ \E w \in {v, "cut"} : status' = [status EXCEPT ![n] = [by |-> b, value |-> w]]
      BY <1>1, <2>1, WriteEffect
    <3> QED
      BY <3>1 DEF TypeInv
  <2> QED
    BY <2>1 DEF Fill, NewGuard, MakePeerDir, WriteKeys, PeerFilesFail, PeerStarts, PeerFails, Connected,
                NotConnected, disk
<1>4. \A m \in Names \ {n} : owner'[m] = owner[m]
  BY <1>1 DEF Fill, NewGuard, MakePeerDir, WriteKeys, PeerFilesFail, PeerStarts, PeerFails, Connected,
              NotConnected, disk, TypeInv
<1>5. mtime'[n] \in {mtime[n], now} /\ \A m \in Names \ {n} : mtime'[m] = mtime[m]
  BY <1>2 DEF TypeInv
<1> QED
  BY <1>1, <1>3, <1>4, <1>5

LEMMA FewRecentStep ==
  ASSUME Serial, TypeInv, InTurn, FewRecent, Named, [Next]_vars PROVE FewRecent'
<1> USE RecentIsFinite, BoundsAssumption
<1>0. started \in Nat
  BY DEF TypeInv
<1>1. CASE UNCHANGED vars
  <2>1. Recent' = Recent /\ UNCHANGED <<pc, started, root>>
    BY <1>1 DEF vars, disk, clock, Recent
  <2> QED
    BY <2>1 DEF FewRecent
<1>2. CASE Tick
  <2>1. Recent' = {} /\ started' = 0
    BY <1>2 DEF Tick, disk, Recent, TypeInv
  <2>2. \A x : Recent' \ {x} = {}
    BY <2>1
  <2> QED
    BY <2>1, <2>2, FS_EmptySet DEF FewRecent
<1>3. ASSUME NEW b \in Builders, Starts(b) PROVE FewRecent'
  <2>1. Recent' = Recent /\ started' = started + 1
    BY <1>3 DEF Starts, disk, Recent
  <2>2. /\ \A o \in Builders : pc[o] \notin Building
        /\ \A o \in Builders : pc'[o] \in Building => pc'[o] = "list"
    BY <1>3 DEF Starts, Goto, TypeInv
  <2>3. Cardinality(Recent) <= started + 1
    BY <2>2 DEF FewRecent
  <2> QED
    BY <1>0, <2>1, <2>2, <2>3 DEF FewRecent, Building, Within
<1>4. ASSUME NEW b \in Builders, Ends(b) \/ BaseFails(b) PROVE FewRecent'
  <2>1. Recent' = Recent /\ started' = started /\ pc'[b] \in {"idle", "failed"}
        /\ \A o \in Builders \ {b} : pc'[o] = pc[o] /\ root'[o] = root[o]
    BY <1>4, OthersStay, WhereTo DEF Ends, BaseFails, disk, clock, Recent
  <2>2. (\A o \in Builders : pc'[o] \notin Building) => Cardinality(Recent) <= started + 1
    <3>1. CASE pc[b] \in Before
      <4>1. Cardinality(Recent) <= started
        BY <3>1 DEF FewRecent
      <4> QED
        BY <1>0, <4>1
    <3>2. CASE pc[b] \in Within
      <4>1. Cardinality(Recent \ {root[b]}) <= started
        BY <3>2 DEF FewRecent
      <4> QED
        BY <1>0, <4>1, WithoutOne
    <3>3. CASE pc[b] \notin Building
      BY <2>1, <3>3 DEF FewRecent
    <3> QED
      BY <3>1, <3>2, <3>3 DEF Building, Before, Within
  <2>3. \A o \in Builders : /\ pc'[o] \in Before => Cardinality(Recent) <= started
                            /\ pc'[o] \in Within => Cardinality(Recent \ {root'[o]}) <= started
    BY <2>1 DEF FewRecent, Before, Within
  <2> QED
    BY <2>1, <2>2, <2>3 DEF FewRecent
<1>5. ASSUME NEW b \in Builders, Cleanup(b) PROVE FewRecent'
  <2>1. pc[b] \in Before /\ pc'[b] \in Before
    BY <1>5, WhereTo DEF Before
  <2>2. \A o \in Builders \ {b} : pc'[o] \notin Building
    BY <1>5, <2>1, OthersStay DEF InTurn, Building, Before
  <2>3. Cardinality(Recent) <= started
    BY <2>1 DEF FewRecent
  <2>4. \/ Recent' \subseteq Recent /\ started' = started
        \/ \E m : Recent' \subseteq Recent \union {m} /\ started' = started + 1
    <3>1. CASE RemoveRun(b)
      <4>1. PICK m \in Existing : (Gone(m) \/ LeftOver(m)) /\ OthersAsTheyWere(m)
        BY <3>1, RemoveInTurn
      <4>2. now' = now /\ now # 0
        BY <1>5, OthersStay DEF TypeInv
      <4> QED
        BY <4>1, <4>2 DEF Recent, OthersAsTheyWere, Gone, LeftOver
    <3>2. CASE ListRuns(b) \/ CleanedUp(b)
      BY <3>2 DEF ListRuns, CleanedUp, Recent, disk, clock
    <3> QED
      BY <1>5, <3>1, <3>2 DEF Cleanup
  <2>5. Cardinality(Recent') <= started'
    <3>1. CASE Recent' \subseteq Recent /\ started' = started
      <4>1. Cardinality(Recent') \in Nat /\ Cardinality(Recent') <= Cardinality(Recent)
        BY <3>1, FS_Subset, FS_CardinalityType
      <4> QED
        BY <1>0, <2>3, <3>1, <4>1
    <3>2. ASSUME NEW m, Recent' \subseteq Recent \union {m}, started' = started + 1
          PROVE  Cardinality(Recent') <= started'
      <4>1. /\ IsFiniteSet(Recent \union {m})
            /\ Cardinality(Recent \union {m}) \in {Cardinality(Recent), Cardinality(Recent) + 1}
        BY FS_AddElement
      <4>2. Cardinality(Recent') \in Nat /\ Cardinality(Recent') <= Cardinality(Recent \union {m})
        BY <3>2, <4>1, FS_Subset, FS_CardinalityType
      <4> QED
        BY <1>0, <2>3, <3>2, <4>1, <4>2
    <3> QED
      BY <2>4, <3>1, <3>2
  <2> QED
    BY <2>1, <2>2, <2>5 DEF FewRecent, Building, Before, Within
<1>6. ASSUME NEW b \in Builders, Create(b) PROVE FewRecent'
  <2>1. started' = started /\ pc[b] \in Before
    BY <1>6, ClockStays, WhereTo DEF clock, Before, Create
  <2>2. \A o \in Builders \ {b} : pc'[o] \notin Building
    BY <1>6, <2>1, OthersStay DEF InTurn, Building, Before
  <2>3. Cardinality(Recent) <= started
    BY <2>1 DEF FewRecent
  <2>4. CASE TakeStamp(b) \/ ProbeName(b)
    <3>1. Recent' = Recent /\ pc'[b] \notin Within
      BY <2>4, WhereTo DEF TakeStamp, ProbeName, Recent, disk, clock, Within
    <3> QED
      BY <1>0, <2>1, <2>2, <2>3, <3>1 DEF FewRecent, Building, Before, Within
  <2>5. CASE CreateRoot(b)
    <3>1. Recent' \ {root'[b]} \subseteq Recent
      BY <2>5, CreateEffect DEF Recent, TypeInv, clock, CreateRoot
    <3>2. Cardinality(Recent' \ {root'[b]}) <= Cardinality(Recent)
          /\ Cardinality(Recent' \ {root'[b]}) \in Nat
      BY <3>1, FS_Subset, FS_CardinalityType
    <3>3. pc'[b] = "guard"
      BY <2>5, WhereTo
    <3> QED
      BY <1>0, <2>1, <2>2, <2>3, <3>2, <3>3 DEF FewRecent, Building, Before, Within
  <2> QED
    BY <1>6, <2>4, <2>5 DEF Create
<1>7. ASSUME NEW b \in Builders, Fill(b) PROVE FewRecent'
  <2>1. started' = started /\ pc[b] \in Within /\ root'[b] = root[b]
        /\ pc'[b] \in Within \union {"live", "failed"}
    BY <1>7, ClockStays, WhereTo DEF clock
  <2>2. \A o \in Builders \ {b} : pc'[o] \notin Building
    BY <1>7, <2>1, OthersStay DEF InTurn, Building, Within
  <2>3. Cardinality(Recent \ {root[b]}) <= started
    BY <2>1 DEF FewRecent
  <2>4. Recent' \ {root[b]} = Recent \ {root[b]}
    BY <1>7, FillEffect, OthersStay DEF Recent
  <2>5. IsFiniteSet(Recent')
    BY NamesFinite, FS_Subset DEF Recent
  <2>6. Cardinality(Recent') \in Nat /\ Cardinality(Recent') <= Cardinality(Recent' \ {root[b]}) + 1
    BY <2>5, WithoutOne
  <2>7. PICK c \in Nat : c = Cardinality(Recent')
    BY <2>6
  <2>8. PICK d \in Nat : d = Cardinality(Recent' \ {root[b]})
    BY <2>5, WithoutOne
  <2>9. c <= d + 1 /\ d <= started
    BY <2>3, <2>4, <2>6, <2>7, <2>8
  <2>10. c <= started + 1
    BY <1>0, <2>9
  <2> QED
    BY <2>1, <2>2, <2>7, <2>8, <2>9, <2>10 DEF FewRecent, Building, Before, Within
<1> QED
  BY <1>1, <1>2, <1>3, <1>4, <1>5, <1>6, <1>7 DEF Next

\* The directory a clean-up takes is of an earlier second.
LEMMA TakenIsOld ==
  ASSUME PerSecond <= MaxRuns, TypeInv, InExcess, InTurn, FewRecent, NEW b \in Builders, RemoveRun(b),
         NEW e \in listing[b], ComesFirst(e, listing[b])
  PROVE  e[2] < now
<1> USE BoundsAssumption, RecentIsFinite
<1> PICK all : all = listing[b]
  OBVIOUS
<1>1. /\ Cardinality(all) = MaxRuns + excess[b] /\ excess[b] \in Nat /\ excess[b] > 0
      /\ all \subseteq Dated /\ IsFiniteSet(all)
  BY NamesFinite DEF RemoveRun, InTurn, InExcess, TypeInv
<1>2. Cardinality(Recent) <= started /\ started <= PerSecond /\ started \in Nat
  <2>1. pc[b] \in Before
    BY DEF RemoveRun, Before
  <2>2. started \in 0..PerSecond
    BY DEF TypeInv
  <2>3. Cardinality(Recent) <= started
    BY <2>1 DEF FewRecent
  <2> QED
    BY <2>2, <2>3
<1>3. SUFFICES ASSUME ~(e[2] < now) PROVE FALSE
  OBVIOUS
<1>4. ASSUME NEW f \in all PROVE f[1] \in Recent /\ f = <<f[1], now>>
  <2>1. PICK m \in Existing : f = <<m, mtime[m]>>
    BY <1>1 DEF Dated
  <2>2. PICK n \in Existing : e = <<n, mtime[n]>>
    BY <1>1 DEF Dated
  <2>3. /\ m \in Names /\ mtime[m] \in 0..now /\ mtime[n] \in 0..now /\ now \in Nat
        /\ e[2] = mtime[n] /\ f[2] = mtime[m] /\ f[1] = m
    BY <2>1, <2>2 DEF Existing, TypeInv
  <2>4. e[2] <= f[2]
    BY DEF ComesFirst
  <2>5. mtime[m] = now
    BY <1>3, <2>3, <2>4
  <2> QED
    BY <2>1, <2>3, <2>5 DEF Recent
<1> DEFINE names == {f[1] : f \in all}
           g == [m \in names |-> <<m, now>>]
<1>5. g \in Surjection(names, all)
  BY <1>4 DEF Surjection
<1>6. names \subseteq Recent
  BY <1>4
<1> HIDE DEF names, g
<1>7. /\ Cardinality(all) <= Cardinality(names) /\ Cardinality(names) <= Cardinality(Recent)
      /\ Cardinality(names) \in Nat
  BY <1>5, <1>6, FS_Surjection, FS_Subset, FS_CardinalityType
<1> QED
  BY <1>1, <1>2, <1>7

LEMMA NamedStep ==
  ASSUME Serial, PerSecond <= MaxRuns, TypeInv, InExcess, InTurn, FewRecent, Named, [Next]_vars
  PROVE  Named'
<1>0. /\ now \in Nat /\ now # 0 /\ NoName \notin Names
      /\ \A n \in Names : n[1] \in Nat /\ mtime[n] \in 0..now
      /\ \A b \in Builders : root[b] # NoName => root[b] \in Names
      /\ \A b \in Builders : stamp[b] \in 0..now
  BY DEF TypeInv, Names, NoName
<1>1. CASE UNCHANGED vars
  BY <1>1 DEF vars, disk, clock, naming, Named, Exists, Candidate
<1>2. CASE Tick
  <2>1. now' = now + 1 /\ UNCHANGED <<mtime, status, owner, pc, root, stamp, attempt>>
    BY <1>2 DEF Tick, disk, naming
  <2> QED
    BY <1>0, <2>1 DEF Named, Exists, Candidate
<1>3. ASSUME NEW b \in Builders, Starts(b) PROVE Named'
  <2>1. UNCHANGED <<now, mtime, status, owner, root, stamp, attempt>>
    BY <1>3 DEF Starts, disk, naming
  <2>2. pc[b] = "idle" /\ pc'[b] = "list" /\ \A o \in Builders \ {b} : pc'[o] = pc[o]
    BY <1>3 DEF Starts, Goto, TypeInv
  <2> QED
    BY <2>1, <2>2 DEF Named, Exists, Candidate, Before
<1>4. ASSUME NEW b \in Builders, Ends(b) PROVE Named'
  <2>1. UNCHANGED <<now, mtime, status, owner>>
    BY <1>4 DEF Ends, disk, clock
  <2>2. pc'[b] = "idle" /\ root'[b] = NoName
    BY <1>4, WhereTo
  <2>3. \A o \in Builders \ {b} : /\ pc'[o] = pc[o] /\ root'[o] = root[o] /\ stamp'[o] = stamp[o]
                                  /\ attempt'[o] = attempt[o]
    BY <1>4, OthersStay
  <2> QED
    BY <2>1, <2>2, <2>3 DEF Named, Exists, Candidate, Before
<1>5. ASSUME NEW b \in Builders, Cleanup(b) PROVE Named'
  <2>1. /\ UNCHANGED <<now, root, stamp, attempt>> /\ pc[b] \in Before /\ pc'[b] \in {"remove", "stamp"}
        /\ \A o \in Builders \ {b} : pc'[o] = pc[o] /\ pc[o] \notin Building
    BY <1>5, OthersStay, WhereTo
       DEF clock, naming, Before, InTurn, Building, Cleanup, ListRuns, RemoveRun, CleanedUp
  <2>2. CASE UNCHANGED disk
    BY <2>1, <2>2 DEF disk, Named, Exists, Candidate, Before
  <2>3. CASE RemoveRun(b)
    <3>1. PICK e \in listing[b], m \in Existing :
            /\ e = <<m, mtime[m]>> /\ ComesFirst(e, listing[b])
            /\ Gone(m) \/ LeftOver(m)
            /\ OthersAsTheyWere(m)
      BY <2>3, RemoveInTurn
    <3>2. m \in Names /\ m[1] <= mtime[m] /\ mtime[m] # 0 /\ mtime[m] < now
      BY <2>3, <3>1, TakenIsOld DEF Existing, Exists, Named
    <3>3. m[1] < now
      BY <1>0, <3>2
    <3>4. \A o \in Builders : pc'[o] \notin {"probe", "create"}
      BY <2>1 DEF Building
    <3>5. \A o \in Builders : root[o] # NoName /\ mtime'[root[o]] = 0 => root[o][1] < now
      BY <1>0, <3>1, <3>3 DEF Named, Exists, OthersAsTheyWere
    <3>6. \A n \in Names : /\ mtime'[n] # 0 => n[1] <= mtime'[n]
                           /\ mtime'[n] = 0 => status'[n] = NoStatus /\ owner'[n] = Unwritten
      <4>1. CASE Gone(m)
        BY <3>1, <4>1 DEF Named, Exists, OthersAsTheyWere, Gone
      <4>2. CASE LeftOver(m)
        <5>1. m[1] <= mtime'[m] /\ mtime'[m] # 0
          BY <1>0, <3>2, <3>3, <4>2 DEF LeftOver
        <5> QED
          BY <3>1, <5>1 DEF Named, Exists, OthersAsTheyWere
      <4> QED
        BY <3>1, <4>1, <4>2
    <3> QED
      BY <2>1, <3>4, <3>5, <3>6 DEF Named, Exists, Before
  <2> QED
    BY <1>5, <2>2, <2>3 DEF Cleanup, ListRuns, CleanedUp
<1>6. ASSUME NEW b \in Builders, TakeStamp(b) \/ ProbeName(b) \/ BaseFails(b) PROVE Named'
  <2>1. /\ UNCHANGED <<now, mtime, status, owner, root>> /\ pc[b] \in Before
        /\ pc'[b] \in {"probe", "create", "failed"}
        /\ \A o \in Builders \ {b} : pc'[o] = pc[o] /\ pc[o] \notin Building
    BY <1>6, OthersStay, WhereTo
       DEF clock, disk, Before, InTurn, Building, TakeStamp, ProbeName, BaseFails, Create
  <2>2. pc'[b] = "create" => ~Exists(Candidate(b))'
    <3>1. CASE TakeStamp(b)
      BY <3>1, WhereTo
    <3>2. CASE ProbeName(b) /\ pc'[b] = "create"
      <4>1. ~Exists(Candidate(b)) /\ UNCHANGED <<stamp, attempt, mtime>>
        BY <3>2 DEF ProbeName, Goto, TypeInv, Taken, disk
      <4> QED
        BY <4>1 DEF Exists, Candidate
    <3>3. CASE BaseFails(b)
      BY <3>3, WhereTo
    <3> QED
      BY <1>6, <3>1, <3>2, <3>3
  <2>3. \A o \in Builders : root[o] # NoName /\ ~Exists(root[o]) /\ pc'[b] \in {"probe", "create"} =>
          root[o][1] < stamp'[b]
    <3>1. CASE TakeStamp(b)
      <4>1. stamp'[b] = now
        BY <3>1 DEF TakeStamp, TypeInv
      <4> QED
        BY <4>1 DEF Named
    <3>2. CASE ProbeName(b)
      BY <3>2 DEF ProbeName, Named
    <3>3. CASE BaseFails(b)
      BY <3>3, WhereTo
    <3> QED
      BY <1>6, <3>1, <3>2, <3>3
  <2>4. \A o \in Builders : pc'[o] \in Building => o = b
    BY <2>1
  <2> QED
    BY <2>1, <2>2, <2>3, <2>4 DEF Named, Exists, Before, Building
<1>7. ASSUME NEW b \in Builders, CreateRoot(b) PROVE Named'
  <2>1. PICK n \in Names : /\ n = Candidate(b) /\ ~Exists(n) /\ n[1] = stamp[b] /\ root'[b] = n
                           /\ mtime' = [mtime EXCEPT ![n] = now] /\ UNCHANGED <<status, owner>>
    BY <1>7, CreateEffect
  <2>2. /\ UNCHANGED <<now, stamp, attempt>> /\ pc[b] = "create" /\ pc'[b] = "guard"
        /\ \A o \in Builders \ {b} : pc'[o] = pc[o] /\ root'[o] = root[o] /\ pc[o] \notin Building
    BY <1>7, OthersStay, WhereTo DEF clock, naming, InTurn, Building, CreateRoot, Create
  <2>3. mtime'[n] = now /\ \A m \in Names \ {n} : mtime'[m] = mtime[m]
    BY <2>1 DEF TypeInv
  <2>4. n[1] <= now /\ \A m \in Names : mtime'[m] # 0 => m[1] <= mtime'[m]
    BY <1>0, <2>1, <2>3 DEF Named, Exists
  <2>5. \A m \in Names : mtime'[m] = 0 => status'[m] = NoStatus /\ owner'[m] = Unwritten
    BY <1>0, <2>1, <2>3 DEF Named, Exists
  <2>6. \A o \in Builders : root[o] # n
    <3> SUFFICES ASSUME NEW o \in Builders, root[o] = n PROVE FALSE
      OBVIOUS
    <3>1. root[o][1] < stamp[b]
      BY <1>0, <2>1, <2>2 DEF Named
    <3> QED
      BY <1>0, <2>1, <3>1
  <2>7. \A c, o \in Builders : root'[c] # NoName /\ root'[o] = root'[c] => o = c
    BY <2>1, <2>2, <2>6 DEF Named
  <2>8. \A o \in Builders : root'[o] # NoName /\ mtime'[root'[o]] = 0 => root'[o][1] < now
    BY <1>0, <2>1, <2>2, <2>3, <2>6 DEF Named, Exists
  <2>9. \A o \in Builders : pc'[o] \in Before \union {"idle"} => root'[o] = NoName
    BY <2>2 DEF Named, Before
  <2> QED
    BY <2>2, <2>4, <2>5, <2>7, <2>8, <2>9 DEF Named, Exists, Building
<1>8. ASSUME NEW b \in Builders, Fill(b) PROVE Named'
  <2>1. PICK n \in Names :
          /\ n = root[b] /\ Exists(n)
          /\ mtime'[n] \in {mtime[n], now}
          /\ \A m \in Names \ {n} :
               mtime'[m] = mtime[m] /\ status'[m] = status[m] /\ owner'[m] = owner[m]
    BY <1>8, FillEffect
  <2>2. UNCHANGED <<now, root>> /\ pc'[b] \notin Before \union {"idle"}
        /\ \A o \in Builders \ {b} : pc'[o] = pc[o] /\ pc[o] \notin Building
    BY <1>8, OthersStay, WhereTo DEF clock, InTurn, Building, Before, Within
  <2>8. root[b] # NoName
    BY <1>0, <2>1
  <2>3. \A m \in Names : mtime'[m] = 0 <=> mtime[m] = 0
    BY <1>0, <2>1 DEF Exists
  <2>4. \A m \in Names : mtime'[m] # 0 => m[1] <= mtime'[m]
    BY <1>0, <2>1 DEF Named, Exists
  <2>5. \A m \in Names : mtime'[m] = 0 => status'[m] = NoStatus /\ owner'[m] = Unwritten
    BY <2>1, <2>3 DEF Named, Exists
  <2>6. \A o \in Builders : pc'[o] \notin {"probe", "create"}
    BY <2>2 DEF Building, Before
  <2>7. \A o \in Builders : root[o] # NoName /\ mtime'[root[o]] = 0 => root[o][1] < now
    BY <1>0, <2>3 DEF Named, Exists
  <2> QED
    BY <2>2, <2>4, <2>5, <2>6, <2>7, <2>8 DEF Named, Exists, Before
<1> QED
  BY <1>1, <1>2, <1>3, <1>4, <1>5, <1>6, <1>7, <1>8 DEF Next, Create

\* Nobody but its builder changes what is in a directory, but for a clean-up, which may take
\* a part of it once the builder is done.
LEMMA ContentsStay ==
  ASSUME NEW b \in Builders, NEW n \in Names, Contents(b, n),
         pc'[b] = pc[b], made'[b] = made[b], status'[n] = status[n], owner'[n] = owner[n],
         n \in stuck' <=> n \in stuck, b \in muted' <=> b \in muted
  PROVE  Contents(b, n)'
BY DEF Contents, Says

LEMMA ContentsTaken ==
  ASSUME NEW b \in Builders, NEW n \in Names, Contents(b, n), LeftOver(n),
         pc[b] \notin Building, pc'[b] = pc[b]
  PROVE  Contents(b, n)'
<1>1. n \in stuck' /\ status'[n] \in {status[n], NoStatus}
  BY DEF LeftOver
<1>2. ASSUME NEW v, Says(b, n, v) PROVE Says(b, n, v)'
  BY <1>1, <1>2 DEF Says
<1>3. pc[b] = "live" => \A p \in 1..NumPeers : owner'[n][p] \in {b, "empty", "nobody"}
  BY DEF LeftOver, Contents
<1> QED
  BY <1>1, <1>2, <1>3 DEF Contents, Building

\* What comes of writing run_status.txt in a directory that is there.
LEMMA StatusWritten ==
  ASSUME TypeInv, NEW b \in Builders, NEW v, WriteStatus(b, v), NEW n \in Names, n = root[b],
         Exists(n), status[n] \in {NoStatus} \union {[by |-> b, value |-> w] : w \in {"initializing", "cut"}},
         UNCHANGED stuck
  PROVE  Says(b, n, v)'
<1> DEFINE Leaves(w) == status' = [status EXCEPT ![n] = [by |-> b, value |-> w]]
<1>1. \/ Leaves(v) /\ muted' = muted \ {b}
      \/ (Leaves("cut") \/ UNCHANGED status) /\ b \in muted'
  BY DEF WriteStatus
<1>2. ASSUME NEW w, Leaves(w) PROVE status'[n] = [by |-> b, value |-> w]
  BY <1>2 DEF TypeInv
<1> HIDE DEF Leaves
<1> QED
  BY <1>1, <1>2 DEF Says

\* What each step of a build makes of its own directory.
LEMMA OwnContents ==
  ASSUME TypeInv, NEW b \in Builders, Fill(b), NEW n \in Names, n = root[b], Exists(n), Contents(b, n)
  PROVE  Contents(b, n)'
<1> USE BoundsAssumption
<1>0. /\ made[b] \in Nat /\ n \in Names /\ mtime[n] # 0
      /\ \A p \in 1..NumPeers : p \in Nat
      /\ b \notin {"nobody", "empty"}
      /\ UNCHANGED stuck
  BY BuildersAssumption, FillTimes DEF TypeInv, Exists
<1>1. ASSUME NEW v, WriteStatus(b, v), pc[b] \in Within PROVE Says(b, n, v)'
  BY <1>0, <1>1, StatusWritten DEF Contents, Says, Within
<1>2. CASE NewGuard(b)
  <2>1. /\ pc[b] = "guard" /\ pc'[b] = "peer" /\ owner'[n] = owner[n] /\ made'[b] = made[b] /\ made[b] = 0
        /\ Says(b, n, "initializing")'
    BY <1>1, <1>2 DEF NewGuard, Goto, TypeInv, Equipped, Within
  <2>2. \A p \in 1..NumPeers : p > made[b] /\ owner[n][p] = "nobody"
    BY <2>1 DEF Contents, Unwritten
  <2> QED
    BY <2>1, <2>2 DEF Contents
<1>3. CASE MakePeerDir(b)
  <2>1. /\ pc[b] = "peer" /\ pc'[b] = "keys" /\ made'[b] = made[b] + 1
        /\ made[b] + 1 \in 1..NumPeers
    BY <1>0, <1>3 DEF MakePeerDir, Goto, TypeInv, Equipped
  <2>2. Says(b, n, "initializing")'
    BY <1>0, <1>3, <2>1 DEF MakePeerDir, Contents, Says
  <2>3. owner[n][made[b] + 1] = "nobody"
    BY <1>0, <2>1 DEF Contents
  <2>4. owner' = [owner EXCEPT ![n][made[b] + 1] = "empty"]
    BY <1>3, <2>3 DEF MakePeerDir
  <2>5. owner'[n][made[b] + 1] = "empty" /\ \A p \in 1..NumPeers : p # made[b] + 1 => owner'[n][p] = owner[n][p]
    BY <2>1, <2>4 DEF TypeInv
  <2>6. \A p \in 1..NumPeers : owner[n][p] = IF p > made[b] THEN "nobody" ELSE b
    BY <2>1 DEF Contents
  <2> QED
    BY <1>0, <2>1, <2>2, <2>5, <2>6 DEF Contents
<1>4. CASE WriteKeys(b)
  <2>1. /\ pc[b] = "keys" /\ pc'[b] = "start" /\ made'[b] = made[b]
        /\ made[b] \in 1..NumPeers
    BY <1>0, <1>4 DEF WriteKeys, Goto, TypeInv, Equipped
  <2>2. Says(b, n, "initializing")'
    BY <1>0, <1>4, <2>1 DEF WriteKeys, Contents, Says
  <2>3. owner'[n][made[b]] = b /\ \A p \in 1..NumPeers : p # made[b] => owner'[n][p] = owner[n][p]
    BY <1>4, <2>1 DEF WriteKeys, TypeInv
  <2> QED
    BY <1>0, <2>1, <2>2, <2>3 DEF Contents
<1>5. CASE PeerStarts(b)
  <2>1. /\ pc[b] = "start" /\ pc'[b] = IF made[b] < NumPeers THEN "peer" ELSE "wait"
        /\ made'[b] = made[b] /\ owner'[n] = owner[n] /\ made[b] \in 0..NumPeers
    BY <1>5 DEF PeerStarts, Goto, TypeInv, disk
  <2>2. Says(b, n, "initializing")'
    BY <1>0, <1>5, <2>1 DEF PeerStarts, disk, Contents, Says
  <2>3. pc'[b] = "wait" => made[b] = NumPeers
    BY <1>0, <2>1
  <2> QED
    BY <2>1, <2>2, <2>3 DEF Contents
<1>6. CASE Connected(b)
  <2>1. /\ pc[b] = "wait" /\ pc'[b] = "live" /\ made[b] = NumPeers /\ owner'[n] = owner[n]
        /\ Says(b, n, "success")'
    BY <1>1, <1>6 DEF Connected, Goto, TypeInv, Contents, Within
  <2>2. \A p \in 1..NumPeers : owner[n][p] = b
    BY <1>0, <2>1 DEF Contents
  <2> QED
    BY <2>1, <2>2 DEF Contents
<1>7. CASE PeerFilesFail(b) \/ PeerFails(b) \/ NotConnected(b)
  <2>1. pc[b] \in Within /\ pc'[b] = "failed"
    BY <1>7 DEF PeerFilesFail, PeerFails, NotConnected, Goto, TypeInv, Within
  <2>2. Backend = "Local" => WriteStatus(b, "failure")
    BY <1>7 DEF PeerFilesFail, PeerFails, NotConnected, MarksStartFailure
  <2> QED
    BY <1>1, <2>1, <2>2 DEF Contents
<1> QED
  BY <1>2, <1>3, <1>4, <1>5, <1>6, <1>7 DEF Fill

\* A step of one builder is no write of another's status.
LEMMA MutedStays ==
  ASSUME NEW b \in Builders, Cleanup(b) \/ Create(b) \/ BaseFails(b) \/ Fill(b) \/ Ends(b),
         NEW o \in Builders \ {b}
  PROVE  o \in muted' <=> o \in muted
<1>1. ASSUME NEW v, WriteStatus(b, v) PROVE o \in muted' <=> o \in muted
  BY <1>1 DEF WriteStatus
<1>2. CASE Fill(b)
  BY <1>1, <1>2 DEF Fill, NewGuard, MakePeerDir, WriteKeys, PeerFilesFail, PeerStarts, PeerFails,
                    Connected, NotConnected
<1>3. CASE ~Fill(b)
  BY <1>3 DEF Cleanup, ListRuns, RemoveRun, CleanedUp, Create, TakeStamp, ProbeName, CreateRoot,
              BaseFails, Ends
<1> QED
  BY <1>2, <1>3

LEMMA FilledStep ==
  ASSUME Serial, PerSecond <= MaxRuns, TypeInv, InExcess, InTurn, FewRecent, Named, Filled, [Next]_vars
  PROVE  Filled'
<1> USE NamedStep
<1>0. NoName \notin Names /\ \A b \in Builders : root[b] # NoName => root[b] \in Names
  BY DEF TypeInv, Names, NoName
<1>1. CASE UNCHANGED vars \/ Tick
  BY <1>1 DEF vars, Tick, disk, Filled, Contents, Says, Exists
<1>2. ASSUME NEW b \in Builders, Starts(b) PROVE Filled'
  <2>1. UNCHANGED <<mtime, status, owner, stuck, root, made, muted>> /\ pc[b] = "idle"
        /\ \A o \in Builders \ {b} : pc'[o] = pc[o]
    BY <1>2 DEF Starts, Goto, TypeInv, disk
  <2>2. root[b] = NoName
    BY <2>1 DEF Named
  <2> QED
    BY <2>1, <2>2 DEF Filled, Contents, Says, Exists
\* A step of one builder, for the others and for itself.
<1>3. ASSUME NEW b \in Builders, Cleanup(b) \/ Create(b) \/ BaseFails(b) \/ Fill(b) \/ Ends(b),
             NEW o \in Builders \ {b}, root[o] # NoName, Exists(root[o]),
             status'[root[o]] = status[root[o]], owner'[root[o]] = owner[root[o]],
             root[o] \in stuck' <=> root[o] \in stuck
      PROVE  Contents(o, root[o])' /\ root'[o] = root[o]
  <2>1. PICK n \in Names : n = root[o]
    BY <1>0, <1>3
  <2>2. pc'[o] = pc[o] /\ made'[o] = made[o] /\ root'[o] = root[o]
    BY <1>3, OthersStay
  <2>3. Contents(o, n)
    BY <1>3, <2>1 DEF Filled
  <2>4. o \in muted' <=> o \in muted
    BY <1>3, MutedStays
  <2>5. status'[n] = status[n] /\ owner'[n] = owner[n] /\ (n \in stuck' <=> n \in stuck)
    BY <1>3, <2>1
  <2>6. Contents(o, n)'
    BY <2>2, <2>3, <2>4, <2>5, ContentsStay
  <2>7. n = root'[o]
    BY <2>1, <2>2
  <2> QED
    BY <2>2, <2>6, <2>7
<1>4. ASSUME NEW b \in Builders, Ends(b) PROVE Filled'
  <2>1. root'[b] = NoName /\ UNCHANGED <<mtime, status, owner, stuck>>
    BY <1>4, WhereTo DEF Ends, disk
  <2>2. \A o \in Builders \ {b} : root'[o] = root[o]
    BY <1>4, OthersStay
  <2> QED
    BY <1>3, <1>4, <2>1, <2>2 DEF Filled, Exists
<1>5. ASSUME NEW b \in Builders, Cleanup(b) PROVE Filled'
  <2>1. root'[b] = NoName /\ \A o \in Builders \ {b} : root'[o] = root[o]
    BY <1>5, WhereTo, OthersStay DEF Named, Before
  <2>2. CASE UNCHANGED disk
    BY <1>3, <1>5, <2>1, <2>2 DEF Filled, Exists, disk
  <2>3. CASE RemoveRun(b)
    <3>1. PICK m \in Existing : (Gone(m) \/ LeftOver(m)) /\ OthersAsTheyWere(m)
      BY <2>3, RemoveInTurn
    <3>2. ASSUME NEW o \in Builders \ {b}, root[o] # NoName, mtime'[root[o]] # 0
          PROVE  Contents(o, root[o])'
      <4>1. PICK n \in Names : n = root[o]
        BY <1>0, <3>2
      <4>2. CASE n = m
        <5>1. LeftOver(m) /\ Exists(n)
          BY <3>1, <3>2, <4>1, <4>2 DEF Gone, LeftOver
        <5>2. pc[o] \notin Building /\ pc'[o] = pc[o] /\ root'[o] = root[o]
          BY <1>5, <2>3, <3>2, OthersStay DEF InTurn, Building, RemoveRun
        <5>3. Contents(o, n)
          BY <3>2, <4>1, <5>1 DEF Filled
        <5>4. Contents(o, n)'
          BY <4>2, <5>1, <5>2, <5>3, ContentsTaken
        <5> QED
          BY <4>1, <5>2, <5>4 DEF Contents, Says
      <4>3. CASE n # m
        <5>1. /\ Exists(n) /\ status'[n] = status[n] /\ owner'[n] = owner[n]
              /\ n \in stuck' <=> n \in stuck
          BY <3>1, <3>2, <4>1, <4>3 DEF OthersAsTheyWere, Exists, Gone, LeftOver
        <5> QED
          BY <1>3, <1>5, <3>2, <4>1, <5>1
      <4> QED
        BY <4>2, <4>3
    <3> QED
      BY <2>1, <3>2 DEF Filled, Exists
  <2> QED
    BY <1>5, <2>2, <2>3 DEF Cleanup, ListRuns, CleanedUp
<1>6. ASSUME NEW b \in Builders, TakeStamp(b) \/ ProbeName(b) \/ BaseFails(b) PROVE Filled'
  <2>1. /\ Create(b) \/ BaseFails(b)
        /\ root' = root /\ UNCHANGED <<mtime, status, owner, stuck>> /\ root[b] = NoName
    BY <1>6, WhereTo DEF Create, TakeStamp, ProbeName, BaseFails, disk, Named, Before
  <2> QED
    BY <1>3, <2>1 DEF Filled, Exists
<1>7. ASSUME NEW b \in Builders, CreateRoot(b) PROVE Filled'
  <2>1. PICK n \in Names : /\ n = Candidate(b) /\ ~Exists(n) /\ root'[b] = n
                           /\ mtime' = [mtime EXCEPT ![n] = now] /\ UNCHANGED <<status, owner, stuck>>
    BY <1>7, CreateEffect DEF CreateRoot
  <2>2. Create(b) /\ pc'[b] = "guard" /\ \A o \in Builders \ {b} : root'[o] = root[o]
    BY <1>7, OthersStay, WhereTo DEF Create
  <2>3. Contents(b, root[b])'
    <3>1. status[n] = NoStatus /\ owner[n] = Unwritten
      BY <2>1 DEF Named
    <3> QED
      BY <2>1, <2>2, <3>1 DEF Contents
  <2>4. ASSUME NEW o \in Builders \ {b}, root[o] # NoName, mtime'[root[o]] # 0
        PROVE  Exists(root[o])
    <3>1. root[o] # n
      BY <1>0, <2>1, <2>2, <2>4 DEF Named
    <3> QED
      BY <1>0, <2>1, <2>4, <3>1 DEF Exists, TypeInv
  <2> QED
    BY <1>3, <2>1, <2>2, <2>3, <2>4 DEF Filled, Exists
<1>8. ASSUME NEW b \in Builders, Fill(b) PROVE Filled'
  <2>1. PICK n \in Names :
          /\ n = root[b] /\ Exists(n)
          /\ \A m \in Names \ {n} :
               mtime'[m] = mtime[m] /\ status'[m] = status[m] /\ owner'[m] = owner[m]
    BY <1>8, FillEffect
  <2>2. root' = root /\ UNCHANGED stuck
    BY <1>8, WhereTo, FillTimes
  <2>3. Contents(b, n)'
    BY <1>0, <1>8, <2>1, OwnContents DEF Filled
  <2>4. ASSUME NEW o \in Builders \ {b}, root[o] # NoName, mtime'[root[o]] # 0
        PROVE  /\ Exists(root[o])
               /\ status'[root[o]] = status[root[o]] /\ owner'[root[o]] = owner[root[o]]
    <3>1. root[o] \in Names \ {n}
      BY <1>0, <2>1, <2>4 DEF Named
    <3> QED
      BY <2>1, <2>4, <3>1 DEF Exists
  <2>5. n = root'[b]
    BY <2>1, <2>2
  <2>6. Contents(b, root[b])'
    BY <2>3, <2>5
  <2>7. ASSUME NEW o \in Builders \ {b}, root[o] # NoName, mtime'[root[o]] # 0
        PROVE  Contents(o, root[o])'
    BY <1>3, <1>8, <2>2, <2>4, <2>7
  <2> QED
    BY <2>2, <2>6, <2>7 DEF Filled, Exists
<1> QED
  BY <1>1, <1>2, <1>4, <1>5, <1>6, <1>7, <1>8 DEF Next, Create

LEMMA FilesAlways ==
  ASSUME Serial, PerSecond <= MaxRuns PROVE Spec => []FilesInv
<1>1. Init => FilesInv
  BY FilesInit
<1>2. FilesInv /\ [Next]_vars => FilesInv'
  BY TypeStep, InExcessStep, InTurnStep, FewRecentStep, NamedStep, FilledStep DEF FilesInv
<1> QED
  BY <1>1, <1>2, PTL DEF Spec

\* What is in a live network's directory is its own, and all that it has written but for what a
\* clean-up has tried to remove, however many runs of however many peers come and go, as long
\* as no more of them begin, or break off a removal, within one second than are kept.
THEOREM OnlyOwnFiles ==
  ASSUME Serial, PerSecond <= MaxRuns PROVE Spec => []OwnFilesOnly
<1>1. FilesInv => OwnFilesOnly
  <2> SUFFICES ASSUME FilesInv, NEW b \in Builders, pc[b] = "live", Exists(root[b]), NEW n, n = root[b]
               PROVE  /\ status[n].by \in {b, "nobody"} /\ status[n].value # "failure"
                      /\ \A p \in 1..NumPeers : owner[n][p] \in {b, "empty", "nobody"}
                      /\ n \notin stuck => \A p \in 1..NumPeers : owner[n][p] = b
                      /\ n \notin stuck /\ b \notin muted =>
                           status[n] = [by |-> b, value |-> "success"]
    BY DEF OwnFilesOnly
  <2>1. n # NoName
    BY DEF FilesInv, Named
  <2>2. Contents(b, n)
    BY <2>1 DEF FilesInv, Filled
  <2>3. Says(b, n, "success")
    BY <2>2 DEF Contents
  <2>4. status[n].by \in {b, "nobody"} /\ status[n].value # "failure"
    BY <2>3 DEF Says, NoStatus
  <2> QED
    BY <2>2, <2>3, <2>4 DEF Contents, Says
<1> QED
  BY <1>1, FilesAlways, PTL

\* A local build that has failed has said so in its directory, at whichever step it failed, if
\* it could; and whatever fails, the directory never says that it has been successful.
THEOREM FailuresAreMarked ==
  ASSUME Serial, PerSecond <= MaxRuns, Backend = "Local" PROVE Spec => []FailureIsMarked
<1>1. FilesInv => FailureIsMarked
  <2> SUFFICES ASSUME FilesInv, NEW b \in Builders, pc[b] = "failed", root[b] # NoName,
                      Exists(root[b]), NEW n, n = root[b]
               PROVE  /\ status[n].by \in {b, "nobody"} /\ status[n].value # "success"
                      /\ n \notin stuck /\ b \notin muted =>
                           status[n] = [by |-> b, value |-> "failure"]
    BY DEF FailureIsMarked
  <2>1. Says(b, n, "failure")
    BY DEF FilesInv, Filled, Contents
  <2>2. status[n].by \in {b, "nobody"} /\ status[n].value # "success"
    BY <2>1 DEF Says, NoStatus
  <2> QED
    BY <2>1, <2>2 DEF Says
<1> QED
  BY <1>1, FilesAlways, PTL

-----------------------------------------------------------------------------
\* Builders at the same time.  Of what counts, those that have cleaned up have each added one
\* directory at most since the latest listing that was worked off: any that adds a second has listed later.
Adding == {"stamp", "probe", "create"}
\* All there is is among those kept or what v names, of each builder the directory it has added.
\* That is none for a builder that is still to add one: it has cleaned up, or it is going to, and
\* its turn to list was not after rank.
View(v, kept, rank, turn) ==
  /\ v \in [Builders -> Names \union {NoName}]
  /\ Counted \subseteq kept \union {v[o] : o \in Builders}
  /\ \A o \in Builders :
       /\ pc[o] \in Adding => v[o] = NoName
       /\ pc[o] \in Within => v[o] = root[o]
       /\ pc[o] = "remove" /\ turn[o] <= rank => v[o] = NoName

\* The latest listing that was worked off, that of rank, has left those kept; those that are being
\* worked off and are later will leave what they list.
Accounts(top, turn, rank, kept, v, own) ==
  /\ top \in Nat /\ turn \in [Builders -> 0..top] /\ rank \in 0..top
  /\ IsFiniteSet(kept) /\ Cardinality(kept) <= MaxRuns
  /\ View(v, kept, rank, turn)
  /\ own \in [Builders -> [Builders -> Names \union {NoName}]]
  /\ \A b \in Builders :
       pc[b] = "remove" /\ turn[b] > rank => View(own[b], Listed(b), turn[b], turn)

Accounted == \E top, turn, rank, kept, v, own : Accounts(top, turn, rank, kept, v, own)

\* What a step of one builder leaves as it is seen.
LEMMA ViewStays ==
  ASSUME NEW v, NEW kept, NEW rank, NEW turn, View(v, kept, rank, turn), NEW left, NEW b \in Builders,
         \A o \in Builders \ {b} : pc'[o] = pc[o] /\ root'[o] = root[o],
         pc'[b] \in Adding => v[b] = NoName,
         pc'[b] \in Within => pc[b] \in Within /\ root'[b] = root[b],
         pc'[b] = "remove" => pc[b] = "remove",
         \A n \in Counted' : n \in Counted \/ (pc[b] \in Within /\ n = root[b]),
         kept \intersect Counted' \subseteq left
  PROVE  View(v, left, rank, turn)'
<1>1. ASSUME NEW n \in Counted' PROVE n \in left \union {v[o] : o \in Builders}
  BY <1>1 DEF View
<1>2. ASSUME NEW o \in Builders
      PROVE  /\ pc'[o] \in Adding => v[o] = NoName
             /\ pc'[o] \in Within => v[o] = root'[o]
             /\ pc'[o] = "remove" /\ turn[o] <= rank => v[o] = NoName
  BY DEF View
<1> QED
  BY <1>1, <1>2 DEF View

\* A step that begins nothing and adds nothing new.
LEMMA AccountsStay ==
  ASSUME Accounted, NEW b \in Builders,
         \A o \in Builders \ {b} : /\ pc'[o] = pc[o] /\ root'[o] = root[o]
                                   /\ listing'[o] = listing[o],
         pc'[b] \in Adding => pc[b] \in Adding,
         pc'[b] \in Within => pc[b] \in Within /\ root'[b] = root[b],
         pc'[b] = "remove" => pc[b] = "remove",
         \A n \in Counted' : n \in Counted \/ (pc[b] \in Within /\ n = root[b]),
         pc'[b] = "remove" => Listed(b) \intersect Counted' \subseteq Listed(b)'
  PROVE  Accounted'
<1>1. PICK top, turn, rank, kept, v, own : Accounts(top, turn, rank, kept, v, own)
  BY DEF Accounted
<1>2. View(v, kept, rank, turn)'
  <2>1. View(v, kept, rank, turn)
    BY <1>1 DEF Accounts
  <2>2. pc'[b] \in Adding => v[b] = NoName
    BY <2>1 DEF View
  <2> QED
    BY <2>1, <2>2, ViewStays
<1>3. ASSUME NEW c \in Builders, pc'[c] = "remove", turn[c] > rank
      PROVE  View(own[c], Listed(c), turn[c], turn)'
  <2> PICK u : u = own[c]
    OBVIOUS
  <2> PICK t : t = turn[c]
    OBVIOUS
  <2> PICK before : before = Listed(c)
    OBVIOUS
  <2> PICK after : after = Listed(c)'
    OBVIOUS
  <2>1. View(u, before, t, turn)
    BY <1>1, <1>3 DEF Accounts
  <2>2. pc'[b] \in Adding => u[b] = NoName
    BY <2>1 DEF View
  <2>3. before \intersect Counted' \subseteq after
    BY <1>3 DEF Listed
  <2>4. View(u, after, t, turn)'
    BY <2>1, <2>2, <2>3, ViewStays
  <2> QED
    BY <2>4 DEF View
<1>4. Accounts(top, turn, rank, kept, v, own)'
  BY <1>1, <1>2, <1>3 DEF Accounts
<1> QED
  BY <1>4 DEF Accounted

\* Nothing added yet, but what is filled already.
Fresh == [o \in Builders |-> IF pc[o] \in Within THEN root[o] ELSE NoName]

LEMMA FreshView ==
  ASSUME TypeInv, NEW kept, Counted \subseteq kept, NEW rank, NEW turn
  PROVE  View(Fresh, kept, rank, turn)
<1>1. \A o \in Builders : pc[o] \in Within => root[o] \in Names
  BY DEF TypeInv, Equipped, Within
<1>2. Fresh \in [Builders -> Names \union {NoName}]
  BY <1>1 DEF Fresh
<1>3. \A o \in Builders :
        /\ pc[o] \in Adding => Fresh[o] = NoName
        /\ pc[o] \in Within => Fresh[o] = root[o]
        /\ pc[o] = "remove" /\ turn[o] <= rank => Fresh[o] = NoName
  BY DEF Fresh, Adding, Within
<1> QED
  BY <1>2, <1>3 DEF View

\* A listing begins to be worked off, later than any other, or there is nothing to remove.
LEMMA AccountsListed ==
  ASSUME TypeInv, Accounted, NEW b \in Builders, ListRuns(b) PROVE Accounted'
<1> USE BoundsAssumption, ExistingIsFinite
<1>1. PICK top, turn, rank, kept, v, own : Accounts(top, turn, rank, kept, v, own)
  BY DEF Accounted
<1>2. /\ Counted' = Counted /\ pc[b] = "list" /\ root' = root
      /\ \A o \in Builders \ {b} : pc'[o] = pc[o] /\ listing'[o] = listing[o]
  BY SameExisting DEF ListRuns, disk, Goto, TypeInv
<1>3. CASE pc'[b] = "stamp"
  <2> PICK all : all = Counted
    OBVIOUS
  <2> PICK fresh : fresh = Fresh
    OBVIOUS
  <2>1. Cardinality(Counted) <= MaxRuns
    BY <1>3 DEF ListRuns, Goto, TypeInv
  <2>2. View(fresh, all, top, turn)
    BY FreshView
  <2>3. fresh[b] = NoName
    BY <1>2 DEF Fresh, Within
  <2>4. View(fresh, all, top, turn)'
    <3>1. kept \intersect Counted' \subseteq kept
      OBVIOUS
    <3> QED
      BY <1>2, <1>3, <2>2, <2>3, ViewStays DEF Within, Adding
  <2>5. \A o \in Builders : ~(turn[o] > top)
    BY <1>1 DEF Accounts
  <2>6. Accounts(top, turn, top, all, fresh, own)'
    BY <1>1, <2>1, <2>4, <2>5 DEF Accounts
  <2> QED
    BY <2>6 DEF Accounted
<1>4. CASE pc'[b] = "remove"
  <2> PICK last : last = top + 1
    OBVIOUS
  <2> PICK turns : turns = [turn EXCEPT ![b] = last]
    OBVIOUS
  <2> PICK fresh : fresh = Fresh
    OBVIOUS
  <2> PICK owns : owns = [own EXCEPT ![b] = fresh]
    OBVIOUS
  <2>1. top \in Nat /\ rank \in 0..top /\ turn \in [Builders -> 0..top]
    BY <1>1 DEF Accounts
  <2>2. last \in Nat /\ turns \in [Builders -> 0..last] /\ rank \in 0..last /\ turns[b] = last
        /\ \A o \in Builders \ {b} : turns[o] = turn[o]
    BY <2>1
  <2>3. ASSUME NEW u, NEW old, NEW new, NEW t \in 0..top, View(u, old, t, turn), old \subseteq new
        PROVE  View(u, new, t, turns)'
    BY <1>2, <1>4, <2>1, <2>2, <2>3 DEF View, Adding, Within
  <2>4. View(v, kept, rank, turns)'
    BY <1>1, <2>1, <2>3 DEF Accounts
  <2>5. Counted \subseteq Listed(b)'
    <3>1. listing'[b] = Dated
      BY <1>4 DEF ListRuns, Goto, TypeInv, Dated
    <3>2. \A m \in Existing : <<m, mtime[m]>> \in Dated /\ <<m, mtime[m]>>[1] = m
      BY DEF Dated
    <3> QED
      BY <3>1, <3>2 DEF Listed, Counted
  <2>6. View(fresh, Listed(b), last, turns)'
    <3> PICK new : new = Listed(b)'
      OBVIOUS
    <3>1. \A o \in Builders : /\ pc'[o] \in Adding => fresh[o] = NoName
                              /\ pc'[o] \in Within => fresh[o] = root'[o]
                              /\ pc'[o] = "remove" => fresh[o] = NoName
      BY <1>2, <1>4 DEF Fresh, Adding, Within
    <3>2. fresh \in [Builders -> Names \union {NoName}]
      BY FreshView DEF View
    <3> QED
      BY <1>2, <2>5, <3>1, <3>2 DEF View
  <2>7. owns \in [Builders -> [Builders -> Names \union {NoName}]] /\ owns[b] = fresh
        /\ \A o \in Builders \ {b} : owns[o] = own[o]
    BY <1>1, <2>6 DEF Accounts, View
  <2>8. ASSUME NEW c \in Builders, pc'[c] = "remove", turns[c] > rank
        PROVE  View(owns[c], Listed(c), turns[c], turns)'
    <3>1. CASE c = b
      BY <2>2, <2>6, <2>7, <3>1
    <3>2. CASE c # b
      <4> PICK u : u = own[c]
        OBVIOUS
      <4> PICK old : old = Listed(c)
        OBVIOUS
      <4> PICK t : t = turn[c]
        OBVIOUS
      <4>1. View(u, old, t, turn)
        BY <1>1, <1>2, <2>2, <2>8, <3>2 DEF Accounts
      <4>2. t \in 0..top
        BY <2>1
      <4>3. View(u, old, t, turns)'
        BY <2>3, <4>1, <4>2
      <4>4. owns[c] = u /\ turns[c] = t /\ Listed(c)' = old
        BY <1>2, <2>2, <2>7, <3>2 DEF Listed
      <4> QED
        BY <4>3, <4>4 DEF View
    <3> QED
      BY <3>1, <3>2
  <2>9. Accounts(last, turns, rank, kept, v, owns)'
    BY <1>1, <2>2, <2>4, <2>7, <2>8 DEF Accounts
  <2> QED
    BY <2>9 DEF Accounted
<1> QED
  BY <1>3, <1>4, WhereTo DEF Cleanup

\* The latest listing has been worked off, or an earlier one, which no longer counts.
LEMMA AccountsCleaned ==
  ASSUME TypeInv, InExcess, Accounted, NEW b \in Builders, CleanedUp(b) PROVE Accounted'
<1> USE BoundsAssumption, ExistingIsFinite
<1>1. PICK top, turn, rank, kept, v, own : Accounts(top, turn, rank, kept, v, own)
  BY DEF Accounted
<1>2. /\ Counted' = Counted /\ pc[b] = "remove" /\ pc'[b] = "stamp" /\ root' = root
      /\ \A o \in Builders \ {b} : pc'[o] = pc[o] /\ listing'[o] = listing[o]
  BY SameExisting DEF CleanedUp, disk, Goto, TypeInv
<1>3. ASSUME NEW u, NEW old, NEW t, View(u, old, t, turn), turn[b] <= t PROVE View(u, old, t, turn)'
  <2>1. u[b] = NoName
    BY <1>2, <1>3 DEF View
  <2> QED
    BY <1>2, <1>3, <2>1, ViewStays DEF Within
<1>4. top \in Nat /\ rank \in 0..top /\ turn \in [Builders -> 0..top]
  BY <1>1 DEF Accounts
<1>5. ASSUME NEW c \in Builders, pc'[c] = "remove", turn[c] > rank, turn[c] >= turn[b]
      PROVE  View(own[c], Listed(c), turn[c], turn)'
  <2> PICK u : u = own[c]
    OBVIOUS
  <2> PICK old : old = Listed(c)
    OBVIOUS
  <2> PICK t : t = turn[c]
    OBVIOUS
  <2>1. c # b
    BY <1>2, <1>5
  <2>2. View(u, old, t, turn)
    BY <1>1, <1>2, <1>5, <2>1 DEF Accounts
  <2>3. View(u, old, t, turn)'
    BY <1>3, <1>4, <1>5, <2>2
  <2>4. Listed(c)' = old
    BY <1>2, <2>1 DEF Listed
  <2> QED
    BY <2>3, <2>4 DEF View
<1>6. CASE turn[b] <= rank
  <2>1. View(v, kept, rank, turn)'
    BY <1>1, <1>3, <1>6 DEF Accounts
  <2>2. \A c \in Builders : turn[c] > rank => turn[c] >= turn[b]
    BY <1>4, <1>6
  <2>3. Accounts(top, turn, rank, kept, v, own)'
    BY <1>1, <1>5, <2>1, <2>2 DEF Accounts
  <2> QED
    BY <2>3 DEF Accounted
<1>7. CASE turn[b] > rank
  <2> PICK left : left = Listed(b)
    OBVIOUS
  <2> PICK t : t = turn[b]
    OBVIOUS
  <2> PICK u : u = own[b]
    OBVIOUS
  <2>1. IsFiniteSet(left) /\ Cardinality(left) <= MaxRuns
    <3>1. excess[b] = 0
      BY NamesFinite DEF CleanedUp, TypeInv
    <3>2. IsFiniteSet(listing[b]) /\ Cardinality(listing[b]) = MaxRuns
      BY <1>2, <3>1 DEF InExcess
    <3> QED
      BY <3>2, ListedCount
  <2>2. View(u, left, t, turn)
    BY <1>1, <1>2, <1>7 DEF Accounts
  <2>3. View(u, left, t, turn)'
    BY <1>3, <1>4, <2>2
  <2>4. \A c \in Builders : turn[c] > t => turn[c] > rank /\ turn[c] >= turn[b]
    BY <1>4, <1>7
  <2>5. Accounts(top, turn, t, left, u, own)'
    BY <1>1, <1>4, <1>5, <2>1, <2>3, <2>4 DEF Accounts
  <2> QED
    BY <2>5 DEF Accounted
<1> QED
  BY <1>4, <1>6, <1>7

\* A builder that has cleaned up adds its directory.
LEMMA AccountsCreated ==
  ASSUME TypeInv, Accounted, NEW b \in Builders, CreateRoot(b) PROVE Accounted'
<1>1. PICK top, turn, rank, kept, v, own : Accounts(top, turn, rank, kept, v, own)
  BY DEF Accounted
<1>2. PICK n \in Names : n = Candidate(b)
  BY CandidateIsName DEF CreateRoot
<1>3. /\ Counted' \subseteq Counted \union {n} /\ pc[b] = "create" /\ pc'[b] = "guard" /\ root'[b] = n
      /\ \A o \in Builders \ {b} : pc'[o] = pc[o] /\ root'[o] = root[o] /\ listing'[o] = listing[o]
  BY <1>2 DEF CreateRoot, Goto, Counted, Existing, Exists, TypeInv
<1>4. \A m \in Names : m # NoName
  BY DEF Names, NoName
<1>5. ASSUME NEW u, NEW old, NEW t, View(u, old, t, turn) PROVE View([u EXCEPT ![b] = n], old, t, turn)'
  <2> PICK w : w = [u EXCEPT ![b] = n]
    OBVIOUS
  <2>1. w \in [Builders -> Names \union {NoName}] /\ w[b] = n /\ \A o \in Builders \ {b} : w[o] = u[o]
    BY <1>5 DEF View
  <2>2. u[b] = NoName
    BY <1>3, <1>5 DEF View, Adding
  <2>3. Counted' \subseteq old \union {w[o] : o \in Builders}
    BY <1>3, <1>4, <1>5, <2>1, <2>2 DEF View, Counted, Existing
  <2>4. \A o \in Builders : /\ pc'[o] \in Adding => w[o] = NoName
                            /\ pc'[o] \in Within => w[o] = root'[o]
                            /\ pc'[o] = "remove" /\ turn[o] <= t => w[o] = NoName
    BY <1>3, <1>5, <2>1 DEF View, Adding
  <2>5. View(w, old, t, turn)'
    BY <2>1, <2>3, <2>4 DEF View
  <2> QED
    BY <2>5 DEF View
<1> PICK next : next = [v EXCEPT ![b] = n]
  OBVIOUS
<1> PICK owns : owns = [c \in Builders |-> [own[c] EXCEPT ![b] = n]]
  OBVIOUS
<1>6. View(next, kept, rank, turn)'
  BY <1>1, <1>5 DEF Accounts
<1>7. owns \in [Builders -> [Builders -> Names \union {NoName}]]
  BY <1>1 DEF Accounts
<1>8. ASSUME NEW c \in Builders, pc'[c] = "remove", turn[c] > rank
      PROVE  View(owns[c], Listed(c), turn[c], turn)'
  <2> PICK u : u = own[c]
    OBVIOUS
  <2> PICK w : w = owns[c]
    OBVIOUS
  <2> PICK old : old = Listed(c)
    OBVIOUS
  <2> PICK t : t = turn[c]
    OBVIOUS
  <2>1. c # b
    BY <1>3, <1>8
  <2>2. View(u, old, t, turn)
    BY <1>1, <1>3, <1>8, <2>1 DEF Accounts
  <2>3. w = [u EXCEPT ![b] = n]
    OBVIOUS
  <2>4. View(w, old, t, turn)'
    BY <1>5, <2>2, <2>3
  <2>5. Listed(c)' = old
    BY <1>3, <2>1 DEF Listed
  <2> QED
    BY <2>4, <2>5 DEF View
<1>9. Accounts(top, turn, rank, kept, next, owns)'
  BY <1>1, <1>6, <1>7, <1>8 DEF Accounts
<1> QED
  BY <1>9 DEF Accounted

LEMMA AccountsStep ==
  ASSUME TypeInv, InExcess, Accounted, [Next]_vars PROVE Accounted'
<1>1. CASE UNCHANGED vars \/ Tick
  <2>1. UNCHANGED <<pc, root, listing>> /\ Counted' = Counted
    BY <1>1, SameExisting DEF vars, disk, Tick
  <2>2. PICK top, turn, rank, kept, v, own : Accounts(top, turn, rank, kept, v, own)
    BY DEF Accounted
  <2>3. ASSUME NEW u, NEW old, NEW t, View(u, old, t, turn) PROVE View(u, old, t, turn)'
    BY <2>1, <2>3 DEF View
  <2>4. ASSUME NEW c \in Builders, pc'[c] = "remove", turn[c] > rank
        PROVE  View(own[c], Listed(c), turn[c], turn)'
    <3> PICK old : old = Listed(c)
      OBVIOUS
    <3>1. Listed(c)' = old
      BY <2>1 DEF Listed
    <3>2. View(own[c], old, turn[c], turn)
      BY <2>1, <2>2, <2>4 DEF Accounts
    <3> QED
      BY <2>3, <3>1, <3>2 DEF View
  <2>5. Accounts(top, turn, rank, kept, v, own)'
    BY <2>2, <2>3, <2>4 DEF Accounts
  <2> QED
    BY <2>5 DEF Accounted
<1>2. ASSUME NEW b \in Builders, Starts(b) PROVE Accounted'
  <2>1. /\ Counted' = Counted /\ UNCHANGED <<root, listing>> /\ pc'[b] = "list"
        /\ \A o \in Builders \ {b} : pc'[o] = pc[o]
    BY <1>2, SameExisting DEF Starts, Goto, disk, TypeInv
  <2> QED
    BY <2>1, AccountsStay DEF Adding, Within
<1>3. ASSUME NEW b \in Builders, Ends(b) \/ BaseFails(b) \/ TakeStamp(b) \/ ProbeName(b)
      PROVE  Accounted'
  <2>1. /\ Counted' = Counted /\ pc'[b] \notin Within \union {"remove"}
        /\ pc'[b] \in Adding => pc[b] \in Adding
    BY <1>3, SameExisting, WhereTo DEF Ends, BaseFails, TakeStamp, ProbeName, disk, Adding, Within
  <2>2. \A o \in Builders \ {b} : /\ pc'[o] = pc[o] /\ root'[o] = root[o]
                                  /\ listing'[o] = listing[o]
    BY <1>3, OthersStay DEF Ends, BaseFails, TakeStamp, ProbeName, Create, TypeInv
  <2> QED
    BY <2>1, <2>2, AccountsStay
<1>4. ASSUME NEW b \in Builders, RemoveRun(b) PROVE Accounted'
  <2>1. PICK e \in listing[b] :
          /\ e[1] \in Names /\ listing' = [listing EXCEPT ![b] = @ \ {e}]
          /\ Gone(e[1]) \/ LeftOver(e[1])
          /\ OthersAsTheyWere(e[1])
    BY <1>4, RemoveEffect
  <2>2. Counted' \subseteq Counted \ {e[1]}
    BY <2>1, CountedLess
  <2>3. Listed(b) \ {e[1]} \subseteq Listed(b)' /\ \A o \in Builders \ {b} : listing'[o] = listing[o]
    BY <2>1 DEF Listed, TypeInv
  <2>4. UNCHANGED <<pc, root>>
    BY <1>4 DEF RemoveRun
  <2> QED
    BY <2>2, <2>3, <2>4, AccountsStay
<1>5. ASSUME NEW b \in Builders, Fill(b) PROVE Accounted'
  <2>1. /\ root' = root /\ pc[b] \in Within /\ pc'[b] \notin Adding \union {"remove"}
        /\ \A o \in Builders \ {b} : pc'[o] = pc[o] /\ root'[o] = root[o]
    BY <1>5, WhereTo, OthersStay DEF Within, Adding
  <2>2. listing' = listing
    BY <1>5 DEF Fill, NewGuard, MakePeerDir, WriteKeys, PeerFilesFail, PeerStarts, PeerFails, Connected,
                NotConnected
  <2>3. PICK n \in Names : n = root[b]
    BY <2>1 DEF TypeInv, Equipped, Within
  <2>4. /\ UNCHANGED stuck
        /\ UNCHANGED mtime \/ mtime' = [mtime EXCEPT ![n] = now] \/ mtime' = [mtime EXCEPT ![n] = mtime[n]]
    BY <1>5, <2>3, FillTimes
  <2>5. \A m \in Counted' : m \in Counted \/ m = root[b]
    BY <2>3, <2>4 DEF Counted, Existing, Exists, TypeInv
  <2> QED
    BY <2>1, <2>2, <2>5, AccountsStay
<1> QED
  BY <1>1, <1>2, <1>3, <1>4, <1>5, AccountsListed, AccountsCleaned, AccountsCreated DEF Next, Cleanup, Create

LEMMA AccountsInit == ASSUME Init PROVE InExcess /\ Accounted
<1>1. Counted = {} /\ \A b \in Builders : pc[b] = "idle"
  BY DEF Init, Counted, Existing, Exists
<1> DEFINE none == [b \in Builders |-> NoName]
<1>2. IsFiniteSet({}) /\ Cardinality({}) <= MaxRuns
  BY FS_EmptySet, BoundsAssumption
<1>3. View(none, {}, 0, [b \in Builders |-> 0])
  BY <1>1 DEF View, Adding, Within
<1>4. Accounts(0, [b \in Builders |-> 0], 0, {}, none, [b \in Builders |-> none])
  BY <1>1, <1>2, <1>3 DEF Accounts
<1> QED
  BY <1>1, <1>4 DEF Accounted, InExcess

\* The base directory holds MaxRuns directories, one of each builder, and those that could not
\* be removed at most, however they get in each other's way; of builders that exclude one
\* another it is one in all.
THEOREM RetentionIsBounded == Spec => []RetentionBound
<1>1. CASE Serial
  BY <1>1, BoundedInTurn
<1> SUFFICES ASSUME ~Serial PROVE Spec => []RetentionBound
  BY <1>1
<1>2. Init => TypeInv /\ InExcess /\ Accounted
  BY TypeInit, AccountsInit
<1>3. TypeInv /\ InExcess /\ Accounted /\ [Next]_vars => (TypeInv /\ InExcess /\ Accounted)'
  BY TypeStep, InExcessStep, AccountsStep
<1>4. Accounted => RetentionBound
  <2> SUFFICES ASSUME NEW top, NEW turn, NEW rank, NEW kept, NEW v, NEW own,
                      Accounts(top, turn, rank, kept, v, own)
               PROVE  RetentionBound
    BY DEF Accounted
  <2> DEFINE added == {v[o] : o \in Builders}
  <2>1. v \in Surjection(Builders, added)
    BY DEF Accounts, View, Surjection
  <2>2. IsFiniteSet(added) /\ Cardinality(added) <= Cardinality(Builders)
    BY <2>1, BuildersAssumption, FS_Surjection
  <2>3. IsFiniteSet(kept) /\ Cardinality(kept) <= MaxRuns /\ Counted \subseteq kept \union added
    BY DEF Accounts, View
  <2> HIDE DEF added
  <2>4. IsFiniteSet(kept \union added) /\ Cardinality(kept \union added) <= Cardinality(kept) + Cardinality(added)
    <3>1. Cardinality(kept \intersect added) \in Nat
      BY <2>2, FS_Intersection, FS_CardinalityType
    <3>2. /\ IsFiniteSet(kept \union added)
          /\ Cardinality(kept \union added)
               = Cardinality(kept) + Cardinality(added) - Cardinality(kept \intersect added)
      BY <2>2, <2>3, FS_Union
    <3>3. Cardinality(kept) \in Nat /\ Cardinality(added) \in Nat
      BY <2>2, <2>3, FS_CardinalityType
    <3> QED
      BY <3>1, <3>2, <3>3
  <2>5. Cardinality(Counted) <= Cardinality(kept \union added)
    BY <2>3, <2>4, FS_Subset
  <2>6. /\ Cardinality(kept) \in Nat /\ Cardinality(added) \in Nat /\ Cardinality(Builders) \in Nat
        /\ Cardinality(kept \union added) \in Nat /\ Cardinality(Counted) \in Nat
    BY <2>2, <2>3, <2>4, BuildersAssumption, FS_CardinalityType, FS_Subset
  <2>7. Cardinality(Counted) <= MaxRuns + Cardinality(Builders)
    BY <2>2, <2>3, <2>4, <2>5, <2>6, BoundsAssumption
  <2> QED
    BY <2>7 DEF RetentionBound
<1> QED
  BY <1>2, <1>3, <1>4, PTL DEF Spec
=============================================================================
