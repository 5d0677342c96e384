------------------------------ MODULE NetworkLogs ------------------------------
(***************************************************************************)
(* TestNetwork::read_logs (src/logs.rs): the logs of the peers are read    *)
(* one after the other, while the nodes go on writing, put together and    *)
(* sorted by time.  A node on this machine writes the file that is read;   *)
(* the log of one on another machine, or in a container, is first fetched  *)
(* into a file of its own here, and if that fails the file is read as it   *)
(* is: as an earlier fetch left it, or cut off by this one.                *)
(***************************************************************************)
EXTENDS Integers, Sequences, SequencesExt, FiniteSets

CONSTANTS
  Total,          \* gateways and peers, read in the order 1 .. Total
  Placements,     \* the networks considered: "local", "remote" or "docker", for each
  Lines,          \* what a node may write in one line
  MaxLines,       \* bound of the lines of a log
  MaxTime,        \* bound of the times in the logs
  MAX_LOG_LINES   \* entries dump_recent_logs shows (200 in the code)

LogPeers == 1..Total

ASSUME LogPeersAssumption ==
  Total \in Nat /\ Placements \subseteq [LogPeers -> {"local", "remote", "docker"}]
ASSUME LinesAssumption ==
  \A l \in Lines : l.stamped \in BOOLEAN /\ l.blank \in BOOLEAN /\ (l.blank => ~l.stamped)
ASSUME LogBoundsAssumption == MaxLines \in Nat /\ MaxTime \in Nat /\ MAX_LOG_LINES \in Nat

VARIABLES
  place,    \* where each node runs
  log,      \* what each node has written
  cache,    \* what the file here holds of a log that has to be fetched
  reading,  \* the peer being read; 0 before, Total + 1 when all are, Total + 2 at the end
  entries,  \* entries of read_logs
  taken,    \* history: how many lines of each log the current reading has seen
  fallen    \* history: the peers read by the fallback

reader == <<reading, entries, taken, fallen>>
logVars == <<place, log, cache, reader>>

NoTime == 0
Sorting == Total + 1
Finished == Total + 2
Fetched(p) == place[p] # "local"

\* The name of the directory the file is in: for a remote peer "<id>-cache".
PeerId(p) == IF place[p] = "remote" THEN <<p, 1>> ELSE <<p, 0>>

\* A node writes a line, by its own clock, which does not go back.  One that is not UTF-8 is no
\* line here: lines().flatten() passes over it as if it had not been written (logs.rs:45, 190).
Writes(p, line, at) ==
  /\ Len(log[p]) < MaxLines
  /\ log[p] # <<>> => at >= Last(log[p]).at
  /\ log' = [log EXCEPT ![p] = Append(@, [at |-> at, line |-> line, id |-> <<p, Len(@) + 1>>])]
  /\ UNCHANGED <<place, cache, reader>>

-----------------------------------------------------------------------------
\* Parsing

\* Docker is asked for timestamps, and puts one before every line.
Stamped(p, l) == l.line.stamped \/ place[p] = "docker"

\* parse_log_line: an RFC 3339 time, in brackets or not, at the head of the line.
ParseLine(p, peer_id, l) ==
  [peer_id |-> peer_id,
   timestamp |-> IF Stamped(p, l) THEN l.at ELSE NoTime,
   message |-> IF l.line.blank THEN <<>> ELSE <<l>>]

\* Mutant: a line without a time is skipped, wherever it stands.
AddLine_Skip(acc, parsed) == IF parsed.timestamp # NoTime THEN Append(acc, parsed) ELSE acc

\* A line without a time belongs to the entry before it, if there is one.
AddLine(acc, parsed) ==
  IF parsed.timestamp # NoTime \/ acc = <<>>
  THEN Append(acc, parsed)
  ELSE [acc EXCEPT ![Len(acc)].message = @ \o parsed.message]

\* The lines of a file, one by one, after the entries there are so far.
AddFile(p, peer_id, file, acc) ==
  LET added[n \in 0..Len(file)] ==
        IF n = 0 THEN acc ELSE AddLine(added[n - 1], ParseLine(p, peer_id, file[n]))
  IN  added[Len(file)]

\* Mutant: read_log_file goes on from the entries of the peers before.
ReadLogFile_Shared(p, file) == AddFile(p, PeerId(p), file, entries)

\* read_log_file
ReadLogFile(p, file) == entries \o AddFile(p, PeerId(p), file, <<>>)

-----------------------------------------------------------------------------
\* read_logs

BeginRead ==
  /\ reading \in {0, Finished}
  /\ reading' = 1
  /\ entries' = <<>> /\ taken' = [p \in LogPeers |-> 0] /\ fallen' = {}
  /\ UNCHANGED <<place, log, cache>>

\* The part of a log that a fetch brings: all of it, but for Docker, whose stream's errors
\* are passed over.
Brought(p) ==
  IF place[p] = "docker" THEN {SubSeq(log[p], 1, n) : n \in 0..Len(log[p])} ELSE {log[p]}

\* The file is created anew, so what an earlier fetch left is gone.
Stored(old, part) == part

\* peer.read_logs() returns Ok.
ReadPeer ==
  /\ reading \in LogPeers
  /\ \E part \in Brought(reading) :
       LET file == IF Fetched(reading) THEN Stored(cache[reading], part) ELSE part
       IN  /\ entries' = ReadLogFile(reading, file)
           /\ taken' = [taken EXCEPT ![reading] = Len(file)]
           /\ cache' = [cache EXCEPT ![reading] = IF Fetched(reading) THEN file ELSE @]
  /\ reading' = reading + 1
  /\ UNCHANGED <<place, log, fallen>>

\* What a failed fetch leaves: the file as it was, or the part that had come when it broke.
Remains(p) ==
  {cache[p]} \union {Stored(cache[p], SubSeq(log[p], 1, n)) : n \in 0..Len(log[p])}

\* It returns Err, and the file is read, into the entries of all peers.
ReadFallback ==
  /\ reading \in LogPeers /\ Fetched(reading)
  /\ \E file \in Remains(reading) :
       /\ entries' = AddFile(reading, <<reading, 0>>, file, entries)
       /\ taken' = [taken EXCEPT ![reading] = Len(file)]
       /\ cache' = [cache EXCEPT ![reading] = file]
  /\ fallen' = fallen \union {reading}
  /\ reading' = reading + 1
  /\ UNCHANGED <<place, log>>

\* Mutant: entries of one time are not told from others: the sort is by peer alone.
Before_ByPeer(a, b) ==
  \/ a.peer_id[1] < b.peer_id[1]
  \/ a.peer_id[1] = b.peer_id[1] /\ a.peer_id[2] < b.peer_id[2]

\* The order of the sort: those with a time first, those without one by peer.
Before(a, b) ==
  CASE a.timestamp # NoTime /\ b.timestamp # NoTime -> a.timestamp < b.timestamp
    [] a.timestamp # NoTime /\ b.timestamp = NoTime -> TRUE
    [] a.timestamp = NoTime /\ b.timestamp # NoTime -> FALSE
    [] OTHER -> \/ a.peer_id[1] < b.peer_id[1]
                \/ a.peer_id[1] = b.peer_id[1] /\ a.peer_id[2] < b.peer_id[2]

\* The places of two elements that compare as less.
Less(s) == {ij \in (DOMAIN s) \X (DOMAIN s) : Before(s[ij[1]], s[ij[2]])}

\* sort_by is stable: equal elements keep their order.
InPlace(less, i, j) == <<i, j>> \in less \/ (<<j, i>> \notin less /\ i < j)
StableSort(s, less) ==
  LET Place(i) == 1 + Cardinality({j \in DOMAIN s : InPlace(less, j, i)})
  IN  [k \in DOMAIN s |-> s[CHOOSE i \in DOMAIN s : Place(i) = k]]

SortEntries ==
  /\ reading = Sorting
  /\ entries' = StableSort(entries, Less(entries))
  /\ reading' = Finished
  /\ UNCHANGED <<place, log, cache, taken, fallen>>

\* dump_recent_logs, after a wait for connectivity that failed.
Recent(es) ==
  IF Len(es) > MAX_LOG_LINES THEN SubSeq(es, Len(es) - MAX_LOG_LINES + 1, Len(es)) ELSE es

\* Mutant: entries without a time come first.
BeforeInDump_UntimedFirst(a, b) == a.timestamp < b.timestamp

\* dump_logs and dump_connection_logs sort once more, and for them entries without a time are equal.
BeforeInDump(a, b) ==
  /\ a.timestamp # NoTime
  /\ b.timestamp # NoTime => a.timestamp < b.timestamp
LessInDump(s) == {ij \in (DOMAIN s) \X (DOMAIN s) : BeforeInDump(s[ij[1]], s[ij[2]])}

\* What they show, at its places: the entries whose message, any line of it, matches the
\* filter, given as the lines that match.
Matches(e, kinds) == \E i \in DOMAIN e.message : e.message[i].line \in kinds
Matching(es, kinds) == Restrict(es, {i \in DOMAIN es : Matches(es[i], kinds)})
Dump(es, kinds) == Matching(StableSort(es, LessInDump(es)), kinds)

-----------------------------------------------------------------------------
LogsInit ==
  /\ place \in Placements
  /\ log = [p \in LogPeers |-> <<>>]
  /\ cache = [p \in LogPeers |-> <<>>]
  /\ reading = 0
  /\ entries = <<>>
  /\ taken = [p \in LogPeers |-> 0]
  /\ fallen = {}

LogsNext ==
  \/ \E p \in LogPeers, line \in Lines, at \in 1..MaxTime : Writes(p, line, at)
  \/ BeginRead \/ ReadPeer \/ ReadFallback \/ SortEntries

LogsSpec == LogsInit /\ [][LogsNext]_logVars

-----------------------------------------------------------------------------
\* Properties

LogLines(p) == [at : 1..MaxTime, line : Lines, id : {p} \X (1..MaxLines)]

\* The type invariant.
LogsTypeOK ==
  /\ place \in Placements
  /\ \A p \in LogPeers : log[p] \in Seq(LogLines(p)) /\ IsPrefix(cache[p], log[p])
  /\ reading \in 0..Finished /\ fallen \subseteq LogPeers
  /\ \A i \in DOMAIN entries :
       /\ entries[i].peer_id \in LogPeers \X {0, 1}
       /\ entries[i].timestamp \in 0..MaxTime
       /\ entries[i].message \in Seq(UNION {LogLines(p) : p \in LogPeers})
  /\ taken \in [LogPeers -> 0..MaxLines]

\* The lines an entry's message is made of.
MessageLines(e) == {e.message[i] : i \in DOMAIN e.message}

\* Every line that was read, is UTF-8 and not blank, is in the message of exactly one entry,
\* and no other line is: putting the logs together loses and doubles nothing (logs.rs:36-62).
NothingLost ==
  reading = Finished =>
    \A p \in LogPeers : \A n \in 1..Len(log[p]) :
      Cardinality({i \in DOMAIN entries : log[p][n] \in MessageLines(entries[i])})
        = IF n <= taken[p] /\ ~log[p][n].line.blank THEN 1 ELSE 0

\* "Read all logs in chronological order" (logs.rs:29): the entries with a time come first,
\* in the order of time; and what one node wrote at one time stays in the order written.
Chronological ==
  reading = Finished =>
    \A i, j \in DOMAIN entries : i < j =>
      LET a == entries[i]
          b == entries[j]
      IN  /\ b.timestamp # NoTime => a.timestamp \in 1..b.timestamp
          /\ \A l \in MessageLines(a), m \in MessageLines(b) :
               a.timestamp = b.timestamp /\ a.timestamp # NoTime /\ l.id[1] = m.id[1] =>
                 l.id[2] < m.id[2]

\* A line is in an entry of its own peer, except the lines without a time at the head of a
\* log that could not be fetched (logs.rs:48-58), which follow whatever was read before.
GluedToOwnPeer ==
  \A i \in DOMAIN entries : \A l \in MessageLines(entries[i]) :
    \/ l.id[1] = entries[i].peer_id[1]
    \/ /\ l.id[1] \in fallen
       /\ \A n \in 1..l.id[2] : ~Stamped(l.id[1], log[l.id[1]][n])

\* A dump shows every line that matches, in the order of read_logs: its own sort, by another
\* comparison, does not disturb that one (network.rs:576-617, 622-665).  And what the dump of a
\* failed build leaves out is no later than what it shows (builder.rs:886-892).
ShownInOrder ==
  reading = Finished =>
    LET kinds == {l \in Lines : ~l.stamped}
        shown == Dump(entries, kinds)
        recent == Recent(entries)
    IN  /\ shown = Matching(entries, kinds)
        /\ \A p \in LogPeers : \A n \in 1..taken[p] :
             log[p][n].line \in kinds /\ ~log[p][n].line.blank =>
               \E k \in DOMAIN shown : log[p][n] \in MessageLines(shown[k])
        /\ \A i \in DOMAIN entries, j \in DOMAIN recent :
             entries[i] \notin {recent[k] : k \in DOMAIN recent} /\ recent[j].timestamp # NoTime =>
               entries[i].timestamp \in 1..recent[j].timestamp
=============================================================================
