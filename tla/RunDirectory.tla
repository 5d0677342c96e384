----------------------------- MODULE RunDirectory -----------------------------
(***************************************************************************)
(* The run directories of src/builder.rs: before a network is built, the   *)
(* oldest directories beyond MaxRuns under the base directory are removed  *)
(* (cleanup_old_runs), a new one named after the second is created         *)
(* (create_run_directory), and run_status.txt, one directory per peer and  *)
(* the peers' keys are written in it.  Builders are test processes, or the *)
(* threads of one, sharing the base directory; each file system call is a  *)
(* step of its own, which may fail, and a builder may die between any two. *)
(* A live network of a builder goes on using its directory while others    *)
(* build.                                                                  *)
(***************************************************************************)
EXTENDS Integers, FiniteSets

CONSTANTS
  Builders,   \* those that build and use networks, any number of times each
  Backend,    \* "Local" or "DockerNat": which build_* function is called
  NumPeers,   \* gateways and peers of a network
  MaxRuns,    \* max_runs of cleanup_old_runs (5 in the code)
  Attempts,   \* names create_run_directory tries for one second (100 in the code)
  Serial,     \* whether builds exclude one another, as tests run one at a time do
  PerSecond,  \* bound of the builds that start, and the removals that break off, in one second
  MaxTime,    \* bound of the clock, in seconds
  MaxFaults   \* bound of the removals and status writes that fail

ASSUME BuildersAssumption == IsFiniteSet(Builders) /\ {"nobody", "empty"} \cap Builders = {}
ASSUME BackendAssumption == Backend \in {"Local", "DockerNat"}
ASSUME BoundsAssumption ==
  /\ NumPeers \in Nat \ {0} /\ MaxRuns \in Nat /\ Attempts \in Nat \ {0}
  /\ Serial \in BOOLEAN /\ PerSecond \in Nat /\ MaxTime \in Nat \ {0} /\ MaxFaults \in Nat

\* <timestamp>, or <timestamp>-<attempt> for the later attempts.
Names == (1..MaxTime) \X (0..(Attempts - 1))
NoName == <<0, 0>>
NoStatus == [by |-> "nobody", value |-> "absent"]

VARIABLES
  now,        \* the clock
  started,    \* builds started, and removals broken off, in this second
  mtime,      \* modification time of each directory; 0: there is none
  status,     \* its run_status.txt
  owner,      \* whose keys each peer directory holds; "empty", or "nobody" without one
  pc,         \* where each builder is
  listing,    \* runs: the listed directories still to be considered
  excess,     \* remove_count, less those already taken
  stamp,      \* timestamp
  attempt,    \* attempt
  root,       \* run_root
  made,       \* peers whose directory the builder has made
  stuck,      \* history: directories of which a removal has failed
  muted,      \* history: builders whose latest write of their status has failed
  faults      \* removals and status writes that have failed

disk == <<mtime, status, owner, stuck>>
naming == <<stamp, attempt>>
clock == <<now, started>>
vars == <<clock, disk, pc, listing, excess, naming, root, made, muted, faults>>

Building ==
  {"list", "remove", "stamp", "probe", "create", "guard", "peer", "keys", "start", "wait"}

Exists(n) == mtime[n] # 0
Existing == {n \in Names : Exists(n)}
Goto(b, where) == pc' = [pc EXCEPT ![b] = where]

Tick ==
  /\ now < MaxTime
  /\ now' = now + 1
  /\ started' = 0
  /\ UNCHANGED <<disk, pc, listing, excess, naming, root, made, muted, faults>>

Starts(b) ==
  /\ pc[b] = "idle"
  /\ started < PerSecond
  /\ started' = started + 1
  /\ Serial => \A o \in Builders : pc[o] \notin Building
  /\ Goto(b, "list")
  /\ UNCHANGED <<now, disk, listing, excess, naming, root, made, muted, faults>>

-----------------------------------------------------------------------------
\* cleanup_old_runs

\* Mutant: one directory too few is removed.
RemoveCount_OneLess(n) == n - MaxRuns - 1

RemoveCount(n) == n - MaxRuns

\* read_dir and the metadata of each entry; nothing to do up to max_runs entries.
ListRuns(b) ==
  /\ pc[b] = "list"
  /\ LET n == Cardinality(Existing) IN
       IF n <= MaxRuns
       THEN Goto(b, "stamp") /\ UNCHANGED <<listing, excess>>
       ELSE /\ Goto(b, "remove")
            /\ listing' = [listing EXCEPT ![b] = {<<m, mtime[m]>> : m \in Existing}]
            /\ excess' = [excess EXCEPT ![b] = RemoveCount(n)]
  /\ UNCHANGED <<clock, disk, naming, root, made, muted, faults>>

\* Mutant: the sort is descending.
ComesFirst_Newest(e, runs) == \A f \in runs : f[2] <= e[2]

\* sort_by_key(modified); entries of one time come in any order.
ComesFirst(e, runs) == \A f \in runs : e[2] <= f[2]

\* remove_dir_all
RemoveWhole(n) ==
  /\ mtime' = [mtime EXCEPT ![n] = 0]
  /\ status' = [status EXCEPT ![n] = NoStatus]
  /\ owner' = [owner EXCEPT ![n] = [p \in 1..NumPeers |-> "nobody"]]
  /\ stuck' = stuck \ {n}
  /\ UNCHANGED <<started, faults>>

\* What remove_dir_all may leave when it fails half-way, or at once: of the status file and
\* of the peers' directories, each as it was, without its keys, or gone.
Remnants(n) ==
  {status[n], NoStatus} \X
  {o \in [1..NumPeers -> Builders \union {"nobody", "empty"}] :
     \A p \in 1..NumPeers : \/ o[p] \in {owner[n][p], "nobody"}
                            \/ o[p] = "empty" /\ owner[n][p] # "nobody"}

\* An entry of the directory itself is gone, which changes its modification time.
Lessened(n, left) ==
  left[1] # status[n] \/ \E p \in 1..NumPeers : left[2][p] = "nobody" /\ owner[n][p] # "nobody"

\* The error, as that of a directory that is gone already, is logged.
RemoveFails(n) ==
  /\ Exists(n)
  /\ \E left \in Remnants(n) :
       /\ status' = [status EXCEPT ![n] = left[1]]
       /\ owner' = [owner EXCEPT ![n] = left[2]]
       /\ IF Lessened(n, left)
          THEN /\ started < PerSecond
               /\ started' = started + 1
               /\ mtime' = [mtime EXCEPT ![n] = now]
          ELSE UNCHANGED <<started, mtime>>
  /\ stuck' = stuck \union {n}
  /\ faults < MaxFaults /\ faults' = faults + 1

\* The next one; whatever comes of it, the loop goes on.
RemoveRun(b) ==
  /\ pc[b] = "remove" /\ excess[b] > 0
  /\ \E e \in listing[b] :
       /\ ComesFirst(e, listing[b])
       /\ listing' = [listing EXCEPT ![b] = @ \ {e}]
       /\ RemoveWhole(e[1]) \/ RemoveFails(e[1])
  /\ excess' = [excess EXCEPT ![b] = @ - 1]
  /\ UNCHANGED <<now, pc, naming, root, made, muted>>

CleanedUp(b) ==
  /\ pc[b] = "remove" /\ excess[b] <= 0
  /\ Goto(b, "stamp")
  /\ listing' = [listing EXCEPT ![b] = {}]
  /\ excess' = [excess EXCEPT ![b] = 0]
  /\ UNCHANGED <<clock, disk, naming, root, made, muted, faults>>

-----------------------------------------------------------------------------
\* create_run_directory

TakeStamp(b) ==
  /\ pc[b] = "stamp"
  /\ Goto(b, "probe")
  /\ stamp' = [stamp EXCEPT ![b] = now]
  /\ attempt' = [attempt EXCEPT ![b] = 0]
  /\ UNCHANGED <<clock, disk, listing, excess, root, made, muted, faults>>

Candidate(b) == <<stamp[b], attempt[b]>>

\* Mutant: the directory of a run that has been successful counts as free.
Taken_Unfinished(n) == Exists(n) /\ status[n].value # "success"

Taken(n) == Exists(n)

LastAttempt == Attempts - 1

\* candidate.exists(), and the next attempt; after the last one the build fails.
ProbeName(b) ==
  /\ pc[b] = "probe"
  /\ IF ~Taken(Candidate(b))
     THEN Goto(b, "create") /\ UNCHANGED attempt
     ELSE IF attempt[b] < LastAttempt
          THEN attempt' = [attempt EXCEPT ![b] = @ + 1] /\ UNCHANGED pc
          ELSE Goto(b, "failed") /\ UNCHANGED attempt
  /\ UNCHANGED <<clock, disk, listing, excess, stamp, root, made, muted, faults>>

\* create_dir_all(candidate), which is content with a directory that exists.
CreateRoot(b) ==
  /\ pc[b] = "create"
  /\ Goto(b, "guard")
  /\ root' = [root EXCEPT ![b] = Candidate(b)]
  /\ mtime' = [mtime EXCEPT ![Candidate(b)] = IF @ = 0 THEN now ELSE @]
  /\ UNCHANGED <<clock, status, owner, stuck, listing, excess, naming, made, muted, faults>>

\* read_dir of the base directory or create_dir_all of the new one fails, and with it the
\* build, which has no directory to say so.
BaseFails(b) ==
  /\ pc[b] \in {"list", "create"}
  /\ Goto(b, "failed")
  /\ UNCHANGED <<clock, disk, listing, excess, naming, root, made, muted, faults>>

-----------------------------------------------------------------------------
\* RunStatusGuard and the peers' directories

\* fs::write truncates the file, then writes it; an error is ignored or only logged.  The file
\* is written; or it is as it was, as when the directory is gone; or it is left cut short.  A
\* new entry changes the directory's modification time, a rewritten one does not.
WriteStatus(b, value) ==
  LET n == root[b]
      Leaves(v) == /\ Exists(n)
                   /\ status' = [status EXCEPT ![n] = [by |-> b, value |-> v]]
                   /\ mtime' = [mtime EXCEPT ![n] = IF status[n] = NoStatus THEN now ELSE @]
  IN \/ /\ Leaves(value)
        /\ muted' = muted \ {b} /\ UNCHANGED faults
     \/ /\ Leaves("cut") \/ (Exists(n) /\ UNCHANGED <<status, mtime>>)
        /\ faults < MaxFaults /\ faults' = faults + 1
        /\ muted' = muted \union {b}
     \/ /\ ~Exists(n)
        /\ UNCHANGED <<status, mtime, faults>>
        /\ muted' = muted \union {b}

\* RunStatusGuard::new
NewGuard(b) ==
  /\ pc[b] = "guard"
  /\ Goto(b, "peer")
  /\ WriteStatus(b, "initializing")
  /\ UNCHANGED <<clock, owner, stuck, listing, excess, naming, root, made>>

\* create_peer_dir: create_dir_all makes the run's directory again if it is gone.
MakePeerDir(b) ==
  /\ pc[b] = "peer"
  /\ Goto(b, "keys")
  /\ made' = [made EXCEPT ![b] = @ + 1]
  /\ LET new == owner[root[b]][made[b] + 1] = "nobody" IN
       /\ mtime' = [mtime EXCEPT ![root[b]] = IF new THEN now ELSE @]
       /\ owner' = [owner EXCEPT ![root[b]][made[b] + 1] = IF new THEN "empty" ELSE @]
  /\ UNCHANGED <<clock, status, stuck, listing, excess, naming, root, muted, faults>>

\* generate_keypair writes both files of the peer's directory, over those of another.
WriteKeys(b) ==
  /\ pc[b] = "keys"
  /\ Exists(root[b])
  /\ Goto(b, "start")
  /\ owner' = [owner EXCEPT ![root[b]][made[b]] = b]
  /\ UNCHANGED <<clock, mtime, status, stuck, listing, excess, naming, root, made, muted, faults>>

\* Mutant: the error of a peer that does not start is returned without a mark.
MarksStartFailure_Never == FALSE

MarksStartFailure == TRUE

\* create_peer_dir or generate_keypair fails, as when the directory is gone or the disk full.
\* build_local marks the failure; build_docker_nat returns it with a bare `?`, but marks that of
\* its backend, before the first peer.
PeerFilesFail(b) ==
  /\ pc[b] \in {"peer", "keys"}
  /\ Goto(b, "failed")
  /\ \/ Backend = "DockerNat" /\ UNCHANGED <<status, mtime, muted, faults>>
     \/ /\ Backend = "Local" \/ (pc[b] = "peer" /\ made[b] = 0)
        /\ WriteStatus(b, "failure")
  /\ UNCHANGED <<clock, owner, stuck, listing, excess, naming, root, made>>

\* The process or container starts: the next peer, or the wait for connectivity.
PeerStarts(b) ==
  /\ pc[b] = "start"
  /\ Goto(b, IF made[b] < NumPeers THEN "peer" ELSE "wait")
  /\ UNCHANGED <<clock, disk, listing, excess, naming, root, made, muted, faults>>

PeerFails(b) ==
  /\ pc[b] = "start"
  /\ Goto(b, "failed")
  /\ IF MarksStartFailure THEN WriteStatus(b, "failure") ELSE UNCHANGED <<status, mtime, muted, faults>>
  /\ UNCHANGED <<clock, owner, stuck, listing, excess, naming, root, made>>

\* wait_until_ready_with_timeout returns.
Connected(b) ==
  /\ pc[b] = "wait"
  /\ Goto(b, "live")
  /\ WriteStatus(b, "success")
  /\ UNCHANGED <<clock, owner, stuck, listing, excess, naming, root, made>>

NotConnected(b) ==
  /\ pc[b] = "wait"
  /\ Goto(b, "failed")
  /\ WriteStatus(b, "failure")
  /\ UNCHANGED <<clock, owner, stuck, listing, excess, naming, root, made>>

\* The caller drops the network or the error, or the builder's process dies.  The
\* directory stays; no Drop touches it.
Ends(b) ==
  /\ pc[b] # "idle"
  /\ Goto(b, "idle")
  /\ listing' = [listing EXCEPT ![b] = {}]
  /\ excess' = [excess EXCEPT ![b] = 0]
  /\ stamp' = [stamp EXCEPT ![b] = 0] /\ attempt' = [attempt EXCEPT ![b] = 0]
  /\ root' = [root EXCEPT ![b] = NoName] /\ made' = [made EXCEPT ![b] = 0]
  /\ muted' = muted \ {b}
  /\ UNCHANGED <<clock, disk, faults>>

-----------------------------------------------------------------------------
Init ==
  /\ now = 1 /\ started = 0
  /\ mtime = [n \in Names |-> 0]
  /\ status = [n \in Names |-> NoStatus]
  /\ owner = [n \in Names |-> [p \in 1..NumPeers |-> "nobody"]]
  /\ pc = [b \in Builders |-> "idle"]
  /\ listing = [b \in Builders |-> {}]
  /\ excess = [b \in Builders |-> 0]
  /\ stamp = [b \in Builders |-> 0] /\ attempt = [b \in Builders |-> 0]
  /\ root = [b \in Builders |-> NoName]
  /\ made = [b \in Builders |-> 0]
  /\ stuck = {} /\ muted = {} /\ faults = 0

Cleanup(b) == ListRuns(b) \/ RemoveRun(b) \/ CleanedUp(b)
Create(b) == TakeStamp(b) \/ ProbeName(b) \/ CreateRoot(b)
Fill(b) ==
  \/ NewGuard(b) \/ MakePeerDir(b) \/ WriteKeys(b) \/ PeerFilesFail(b)
  \/ PeerStarts(b) \/ PeerFails(b) \/ Connected(b) \/ NotConnected(b)
Next ==
  \/ Tick
  \/ \E b \in Builders :
       Starts(b) \/ Cleanup(b) \/ Create(b) \/ BaseFails(b) \/ Fill(b) \/ Ends(b)

Spec == Init /\ [][Next]_vars

-----------------------------------------------------------------------------
\* Properties

\* The type invariant.
TypeOK ==
  /\ now \in 1..MaxTime /\ started \in 0..PerSecond
  /\ mtime \in [Names -> 0..now]
  /\ status \in [Names -> [by : Builders \union {"nobody"},
                           value : {"absent", "initializing", "success", "failure", "cut"}]]
  /\ owner \in [Names -> [1..NumPeers -> Builders \union {"nobody", "empty"}]]
  /\ pc \in [Builders -> Building \union {"idle", "live", "failed"}]
  /\ \A b \in Builders :
       /\ listing[b] \subseteq Names \X (1..now)
       /\ excess[b] \in 0..Cardinality(Names)
       /\ stamp[b] \in 0..now /\ attempt[b] \in 0..(Attempts - 1)
       /\ root[b] \in Names \union {NoName} /\ made[b] \in 0..NumPeers
  /\ stuck \subseteq Existing /\ muted \subseteq Builders /\ faults \in 0..MaxFaults

\* The directories a clean-up has not tried to remove, or has removed wholly before they were
\* made again.
Counted == Existing \ stuck

\* The base directory never holds more than MaxRuns directories, one for each builder that may
\* be past its clean-up, and those whose removal has failed, which is only logged
\* (builder.rs:772-803).
RetentionBound ==
  Cardinality(Counted) <= MaxRuns + (IF Serial THEN 1 ELSE Cardinality(Builders))

\* A directory is only ever removed while MaxRuns others, none of them older, stay
\* (builder.rs:790-792): a live network loses its directory to no fewer later runs.  Builds
\* that exclude one another; a concurrent one removes what it listed before.
NewestSurvive ==
  [][\A n \in Names : Exists(n) /\ mtime'[n] = 0 =>
       Cardinality({m \in Existing : mtime'[m] # 0 /\ mtime[m] >= mtime[n]}) >= MaxRuns]_vars

\* What there is in a live network's directory is its own, never of a run of the same second
\* (builder.rs:813): the status and every peer's keys, as they have been written, unless a
\* clean-up has tried to remove them (builder.rs:793); then, what is left of them.  Builds that
\* exclude one another.
OwnFilesOnly ==
  \A b \in Builders : pc[b] = "live" /\ Exists(root[b]) =>
    LET n == root[b] IN
    /\ status[n].by \in {b, "nobody"} /\ status[n].value # "failure"
    /\ \A p \in 1..NumPeers : owner[n][p] \in {b, "empty", "nobody"}
    /\ n \notin stuck => \A p \in 1..NumPeers : owner[n][p] = b
    /\ n \notin stuck /\ b \notin muted => status[n] = [by |-> b, value |-> "success"]

\* When a local build has failed, at whichever step, run_status.txt of its directory says so
\* (builder.rs:228, 263, 313), unless the mark itself could not be written (builder.rs:849) or a
\* clean-up has tried to remove the directory; and it never says success, nor is it another
\* run's.  Builds that exclude one another.
FailureIsMarked ==
  \A b \in Builders : pc[b] = "failed" /\ root[b] # NoName /\ Exists(root[b]) =>
    LET n == root[b] IN
    /\ status[n].by \in {b, "nobody"} /\ status[n].value # "success"
    /\ n \notin stuck /\ b \notin muted => status[n] = [by |-> b, value |-> "failure"]
=============================================================================
