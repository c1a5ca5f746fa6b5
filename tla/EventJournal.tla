---------------------------- MODULE EventJournal ----------------------------
(***************************************************************************)
(* The journal of diagnostic events (codepet-host/src/event_journal.rs)    *)
(* and its history in files (event_journal/history.rs).                    *)
(*                                                                         *)
(* One writer thread numbers the events and appends them to events.jsonl,  *)
(* under one lock for each event, and keeps the newest in memory; a full   *)
(* or old file is sealed under the id of its segment, and the oldest       *)
(* segments are removed.  Every file has an index of its records, written  *)
(* behind and rebuilt from the file.  Two clients read: a poller follows   *)
(* the live events by sequence, a reader pages through the history with a  *)
(* cursor of segment and offset, or by sequence; it reads without the lock *)
(* what it pinned under it.                                                *)
(*                                                                         *)
(* A line is one unit long, a page holds one event, filters are left out;  *)
(* whether a file is full or of another day is a choice.  The queue before *)
(* the writer only loses events, which then are not the journal's.  The    *)
(* process may crash between any two effects on the files; what was        *)
(* written stays (nothing is synced, so a loss of power is not covered).   *)
(*                                                                         *)
(* Three accidents are never repaired, and the properties except what they *)
(* do: a failed append that left a whole line (a "ghost" of the event that *)
(* takes its sequence next), a file that is sealed without a record (a     *)
(* "hollow" one, which a start takes to be the oldest), and a sidecar that *)
(* could neither be renamed nor replaced (a "stale" one).                  *)
(***************************************************************************)
EXTENDS Naturals, Sequences, FiniteSets, SequencesExt

CONSTANTS
  MaxEvents,    \* Bounds the events that reach the writer.
  MaxSegments,  \* Bounds the random segment ids.
  Retained,     \* ARCHIVES
  LiveCount,    \* LIVE_COUNT
  FlushRows,    \* INDEX_FLUSH_ROWS
  MaxFaults,    \* Bounds the file operations that fail.
  MaxCrashes    \* Bounds the crashes.

ASSUME JournalAssumption ==
  /\ {MaxEvents, MaxFaults, MaxCrashes} \subseteq Nat
  /\ {MaxSegments, Retained, LiveCount, FlushRows} \subseteq Nat \ {0}

VARIABLES
  files,     \* the lines of each file of the directory
  index,     \* the sidecar of each file that has one
  torn,      \* events.jsonl ends without a newline
  writer,    \* what the writer does next, or "down"
  active,    \* HistoryStore.active.id
  archives,  \* HistoryStore.archives, newest first
  offsets,   \* Segment.offsets of each segment
  file,      \* HistoryStore.file is open
  indexing,  \* HistoryStore.index is open
  bytes,     \* HistoryStore.bytes
  retired,   \* pruned segments that a query still holds
  sequence,  \* State.sequence
  live,      \* State.live
  poller,    \* the client that follows the live events
  reader,    \* the client that pages through the history
  taken, drawn, faults, crashes,  \* events, segment ids, faults and crashes so far
  acked,     \* history: the event of each sequence given
  pruned,    \* history: the last sequence of the segments pruned
  damage     \* history: accidents that nothing repairs

disk    == <<files, index, torn>>
store   == <<active, archives, offsets, file, indexing, bytes, retired>>
state   == <<sequence, live>>
clients == <<poller, reader>>
counts  == <<taken, drawn, faults, crashes>>
history == <<acked, pruned, damage>>
vars    == <<disk, writer, store, state, clients, counts, history>>

-----------------------------------------------------------------------------
Active   == 0                 \* the name events.jsonl
Segments == 1 .. MaxSegments  \* segment ids, and the names events.<id>.jsonl
Garbage  == [seq |-> 0, event |-> 0]
NoCursor == [segment |-> 0, at |-> 0]

\* Segment.offsets is a set of rows here, in the order of their lines.
RowsAt(lines, where) == {[seq |-> lines[i].seq, at |-> i] : i \in where}
LastSequence(rows)   == Max({0} \cup {r.seq : r \in rows})
LastLine(rows)       == Max({0} \cup {r.at : r \in rows})

Ids == <<active>> \o archives

\* prune
Newest(ids) == SubSeq(ids, 1, IF Len(ids) > Retained THEN Retained ELSE Len(ids))

With(f, x, v)  == [y \in DOMAIN f \cup {x} |-> IF y = x THEN v ELSE f[y]]
Without(f, S)  == [y \in DOMAIN f \ S |-> f[y]]

\* The rows of all segments, by the age of their segment.
Chain ==
  UNION {{[segment |-> Ids[i], age |-> i, seq |-> r.seq, at |-> r.at] : r \in offsets[Ids[i]]}
         : i \in DOMAIN Ids}

Newer(r, q) == r.age < q.age \/ (r.age = q.age /\ r.at > q.at)
First(rows) == CHOOSE r \in rows : \A q \in rows \ {r} : Newer(r, q)

-----------------------------------------------------------------------------
(* Opening.                                                                *)

\* Segment::load keeps the rows of a sidecar that is whole and fits.
Sound(name, expected) ==
  /\ name \in DOMAIN index
  /\ expected \in {0, index[name].id}
  /\ index[name].whole
  /\ \A r \in index[name].rows : r.at <= Len(files[name])
  /\ \A r, q \in index[name].rows : r.at < q.at => r.seq < q.seq

\* It adds the lines after them that are records with growing sequences.
Loaded(name, expected) ==
  LET lines == files[name]
      rows  == IF Sound(name, expected) THEN index[name].rows ELSE {}
      rest  == LastLine(rows) + 1 .. Len(lines)
      Grows(i) == /\ lines[i].seq > LastSequence(rows)
                  /\ \A j \in rest : j < i => lines[j].seq < lines[i].seq
  IN  rows \cup RowsAt(lines, {i \in rest : Grows(i)})

\* The archives by their last sequences; the directory's order decides ties.
Orders(rows) ==
  {s \in [1 .. Cardinality(DOMAIN rows) -> DOMAIN rows] :
     \A i, j \in DOMAIN s : i < j =>
       s[i] # s[j] /\ LastSequence(rows[s[i]]) >= LastSequence(rows[s[j]])}

\* Mutant of Identity: the id of the sidecar is taken as it is.
IdentityAsFound(sealed) == IF Active \in DOMAIN index THEN index[Active].id ELSE drawn + 1

\* The id in the sidecar of events.jsonl, unless an archive has it: an
\* interrupted rotation left the sidecar behind.
Identity(sealed) ==
  IF Active \in DOMAIN index /\ index[Active].id \notin sealed
  THEN index[Active].id ELSE drawn + 1

\* HistoryStore::open and EventJournal::open.
Open ==
  /\ writer = "down"
  /\ LET sealed == DOMAIN files \ {Active}
         rows   == [id \in sealed |-> Loaded(id, id)]
         id     == Identity(sealed)
         lines  == IF Active \in DOMAIN files THEN files[Active] ELSE <<>>
         mine   == IF Active \in DOMAIN files THEN Loaded(Active, 0) ELSE {}
     IN  /\ id \in Segments
         /\ \E order \in Orders(rows) :
              LET gone == sealed \ ToSet(Newest(order))
                  kept == sealed \ gone
              IN  /\ archives' = Newest(order)
                  /\ offsets' = With(Without(rows, gone), id, mine)
                  /\ files' = With(Without(files, gone), Active, lines)
                  /\ index' = [i \in kept \cup {Active} |->
                                 [id |-> IF i = Active THEN id ELSE i, whole |-> TRUE,
                                  rows |-> IF i = Active THEN mine ELSE rows[i]]]
                  /\ sequence' = Max({LastSequence(mine)} \cup {LastSequence(rows[i]) : i \in kept})
                  /\ pruned' = Max({pruned} \cup {LastSequence(rows[i]) : i \in gone})
         /\ active' = id
         /\ drawn' = IF id = drawn + 1 THEN id ELSE drawn
         /\ bytes' = Len(lines)
  /\ writer' = "idle" /\ torn' = FALSE /\ file' = TRUE /\ indexing' = TRUE
  /\ live' = <<>> /\ retired' = {}
  /\ UNCHANGED <<clients, taken, faults, crashes, acked, damage>>

-----------------------------------------------------------------------------
(* The writer: State::append, HistoryStore::rotate and append.  The lock   *)
(* is free only while the writer is "idle".                                *)

Fails == faults < MaxFaults /\ faults' = faults + 1
Works == UNCHANGED faults

Take ==
  /\ writer = "idle" /\ taken < MaxEvents
  /\ taken' = taken + 1
  /\ \/ writer' = "write"
     \/ bytes > 0 /\ drawn < MaxSegments /\ writer' = "flush"
  /\ UNCHANGED <<disk, store, state, clients, drawn, faults, crashes, history>>

\* The rows of the buffer reach the sidecar, where there is one.
Flushed(name) ==
  IF indexing /\ name \in DOMAIN index THEN [index EXCEPT ![name].rows = offsets[active]]
  ELSE index

FlushIndex ==
  /\ writer = "flush"
  /\ \/ index' = Flushed(Active) /\ Works
     \/ indexing /\ UNCHANGED index /\ Fails
  /\ file' = FALSE /\ indexing' = FALSE /\ writer' = "rename"
  /\ UNCHANGED <<files, torn, active, archives, offsets, bytes, retired, state, clients,
                 taken, drawn, crashes, history>>

\* The event is lost if the file cannot be renamed.
RenameData ==
  /\ writer = "rename"
  /\ \/ /\ files' = With(Without(files, {Active}), active, files[Active])
        /\ damage' = IF offsets[active] = {} THEN damage \cup {"hollow"} ELSE damage
        /\ writer' = "rename_index" /\ torn' = FALSE /\ Works
     \/ /\ writer' = "idle" /\ UNCHANGED <<files, torn, damage>> /\ Fails
  /\ UNCHANGED <<index, store, state, clients, taken, drawn, crashes, acked, pruned>>

RenameIndex ==
  /\ writer = "rename_index"
  /\ IF Active \in DOMAIN index
     THEN \/ index' = With(Without(index, {Active}), active, index[Active]) /\ Works
          \/ UNCHANGED index /\ Fails
     ELSE UNCHANGED index /\ Works
  /\ writer' = "switch"
  /\ UNCHANGED <<files, torn, store, state, clients, taken, drawn, crashes, history>>

Leased == {r.segment : r \in reader.pinned}

\* The sealed segment is an archive now; the oldest one goes, its files
\* with the last lease.
Switch ==
  /\ writer = "switch"
  /\ LET kept == Newest(Ids)
         gone == ToSet(Ids) \ ToSet(kept)
         free == gone \ Leased
     IN  /\ archives' = kept
         /\ offsets' = With(Without(offsets, gone), drawn + 1, {})
         /\ files' = Without(files, free)
         /\ index' = Without(index, free)
         /\ retired' = retired \cup (gone \cap Leased)
         /\ pruned' = Max({pruned} \cup {LastSequence(offsets[i]) : i \in gone})
  /\ active' = drawn + 1 /\ drawn' = drawn + 1
  /\ bytes' = 0 /\ writer' = "persist"
  /\ UNCHANGED <<torn, file, indexing, state, clients, taken, faults, crashes, acked, damage>>

PersistIndex ==
  /\ writer = "persist"
  /\ \/ /\ index' = With(index, Active, [id |-> active, whole |-> TRUE, rows |-> offsets[active]])
        /\ indexing' = TRUE /\ Works /\ UNCHANGED damage
     \/ /\ damage' = IF Active \in DOMAIN index THEN damage \cup {"stale"} ELSE damage
        /\ UNCHANGED <<index, indexing>> /\ Fails
  /\ writer' = "open"
  /\ UNCHANGED <<files, torn, active, archives, offsets, file, bytes, retired, state, clients,
                 taken, drawn, crashes, acked, pruned>>

\* Mutant of OpenWriter: a torn line is not completed.
OpenWriterAsItIs ==
  /\ files' = IF Active \in DOMAIN files THEN files ELSE With(files, Active, <<>>)
  /\ bytes' = Len(files'[Active])
  /\ file' = TRUE
  /\ UNCHANGED torn

\* open_writer completes a torn line and measures the file.
OpenWriter ==
  /\ files' = IF Active \in DOMAIN files THEN files ELSE With(files, Active, <<>>)
  /\ bytes' = Len(files'[Active])
  /\ file' = TRUE
  /\ torn' = FALSE

\* Within rotate, and again before an append that finds no open file.
OpenFile ==
  /\ writer = "open" \/ (writer = "write" /\ ~file)
  /\ \/ OpenWriter /\ writer' = "write" /\ Works
     \/ writer' = "idle" /\ UNCHANGED <<files, bytes, file, torn>> /\ Fails
  /\ UNCHANGED <<index, active, archives, offsets, indexing, retired, state, clients,
                 taken, drawn, crashes, history>>

Record == [seq |-> sequence + 1, event |-> taken]

\* Bytes after a torn line are lost in it.
Lines(line) ==
  [files EXCEPT ![Active] = IF torn THEN Append(Front(@), Garbage) ELSE Append(@, line)]

\* Every FlushRows rows the buffer of the index is flushed; an index that
\* cannot be written is given up.
AppendLine ==
  /\ writer = "write" /\ file
  /\ LET row  == [seq |-> sequence + 1, at |-> bytes + 1]
         rows == offsets[active] \cup {row}
     IN  /\ offsets' = [offsets EXCEPT ![active] = rows]
         /\ \/ /\ index' = IF indexing /\ Cardinality(rows) % FlushRows = 0
                          THEN [index EXCEPT ![Active].rows = rows] ELSE index
               /\ UNCHANGED indexing /\ Works
            \/ indexing /\ indexing' = FALSE /\ UNCHANGED index /\ Fails
  /\ files' = Lines(Record) /\ bytes' = bytes + 1
  /\ sequence' = sequence + 1
  /\ live' = LET all == Append(live, Record)
             IN  IF Len(all) > LiveCount THEN Tail(all) ELSE all
  /\ acked' = With(acked, sequence + 1, taken)
  /\ writer' = "idle"
  /\ UNCHANGED <<torn, active, archives, file, retired, clients, taken, drawn, crashes,
                 pruned, damage>>

\* The write is cut: nothing, a part of the line, or all but its newline
\* reaches the file.
Cut(line) ==
  \/ UNCHANGED <<files, torn>>
  \/ files' = Lines(line) /\ torn' = TRUE

CutAppend ==
  /\ writer = "write" /\ file
  /\ \/ Cut(Garbage) /\ UNCHANGED damage
     \/ Cut(Record) /\ damage' = damage \cup {"ghost"}
  /\ file' = FALSE /\ writer' = "idle" /\ Fails
  /\ UNCHANGED <<index, active, archives, offsets, indexing, bytes, retired, state, clients,
                 taken, drawn, crashes, acked, pruned>>

\* The process stops, an append or a flush of the index half done.
Crash ==
  /\ writer # "down" /\ crashes < MaxCrashes
  /\ crashes' = crashes + 1
  /\ IF writer = "write" /\ file
     THEN \/ \E line \in {Garbage, Record} : Cut(line)
          \/ files' = Lines(Record) /\ UNCHANGED torn
     ELSE UNCHANGED <<files, torn>>
  /\ \/ UNCHANGED index
     \/ /\ indexing /\ Active \in DOMAIN index /\ index[Active].rows # offsets[active]
        /\ index' = [index EXCEPT ![Active].whole = FALSE]
  /\ writer' = "down" /\ active' = 0 /\ archives' = <<>> /\ offsets' = [i \in {} |-> {}]
  /\ file' = FALSE /\ indexing' = FALSE /\ bytes' = 0 /\ retired' = {}
  /\ sequence' = 0 /\ live' = <<>>
  /\ reader' = [reader EXCEPT !.pinned = {}]
  /\ UNCHANGED <<poller, taken, drawn, faults, history>>

-----------------------------------------------------------------------------
(* The queries of the clients.                                             *)

\* Mutant of LiveExpired: an event too many is taken to be seen.
LiveExpiredLate(after) ==
  \/ after > sequence
  \/ after < sequence /\ (live = <<>> \/ after + 2 < live[1].seq)

LiveExpired(after) ==
  \/ after > sequence
  \/ after < sequence /\ (live = <<>> \/ after + 1 < live[1].seq)

\* A query after a sequence; after a reset the client starts anew.
Poll ==
  /\ writer = "idle"
  /\ LET news  == {i \in DOMAIN live : live[i].seq > poller.after}
         first == live[Min(news)]
     IN  poller' =
           IF LiveExpired(poller.after)
           THEN [after |-> sequence, from |-> sequence, got |-> {}]
           ELSE IF news = {} THEN [poller EXCEPT !.after = sequence]
           ELSE [poller EXCEPT
                   !.after = IF Cardinality(news) = 1 THEN sequence ELSE first.seq,
                   !.got = @ \cup {first.event}]
  /\ UNCHANGED <<disk, writer, store, state, reader, counts, history>>

NewWalk == [cursor |-> NoCursor, last |-> 0, pinned |-> {}]

\* snapshot: the segments from the cursor's on, that one up to the cursor,
\* which is a boundary between records.
Boundary(rows, at) == \E r \in rows : r.at \in {at, at + 1}

FromCursor(c) ==
  {r \in Chain : \E i \in DOMAIN Ids :
     /\ Ids[i] = c.segment /\ Boundary(offsets[c.segment], c.at)
     /\ i <= r.age /\ (i = r.age => r.at <= c.at)}

\* The reader goes on from its cursor, or from the last sequence it has;
\* it begins anew when its place is gone.
Pin ==
  /\ writer = "idle" /\ reader.pinned = {}
  /\ LET Pins(rows) == reader' = IF rows = {} THEN NewWalk ELSE [reader EXCEPT !.pinned = rows]
     IN  IF reader.last = 0 THEN Pins(Chain)
         ELSE Pins(FromCursor(reader.cursor)) \/ Pins({r \in Chain : r.seq < reader.last})
  /\ UNCHANGED <<disk, writer, store, state, poller, counts, history>>

\* read, without the lock: an event, and the cursor of the next one.  The
\* files of retired segments go with the leases.
Read ==
  /\ reader.pinned # {}
  /\ LET first == First(reader.pinned)
         rest  == reader.pinned \ {first}
         next  == First(rest)
     IN  reader' = IF rest = {} THEN NewWalk
                   ELSE [cursor |-> [segment |-> next.segment, at |-> next.at],
                         last |-> first.seq, pinned |-> {}]
  /\ files' = Without(files, retired) /\ index' = Without(index, retired) /\ retired' = {}
  /\ UNCHANGED <<torn, writer, active, archives, offsets, file, indexing, bytes, state, poller,
                 counts, history>>

-----------------------------------------------------------------------------
Init ==
  /\ files = [i \in {} |-> <<>>] /\ index = [i \in {} |-> {}] /\ torn = FALSE
  /\ writer = "down" /\ active = 0 /\ archives = <<>> /\ offsets = [i \in {} |-> {}]
  /\ file = FALSE /\ indexing = FALSE /\ bytes = 0 /\ retired = {}
  /\ sequence = 0 /\ live = <<>>
  /\ poller = [after |-> 0, from |-> 0, got |-> {}] /\ reader = NewWalk
  /\ taken = 0 /\ drawn = 0 /\ faults = 0 /\ crashes = 0
  /\ acked = [i \in {} |-> 0] /\ pruned = 0 /\ damage = {}

Next ==
  \/ Open \/ Take \/ FlushIndex \/ RenameData \/ RenameIndex \/ Switch \/ PersistIndex
  \/ OpenFile \/ AppendLine \/ CutAppend \/ Crash
  \/ Poll \/ Pin \/ Read

Spec == Init /\ [][Next]_vars

-----------------------------------------------------------------------------
FileOf(id)  == IF id = active /\ Active \in DOMAIN files THEN Active ELSE id
Reads(row)  == files[FileOf(row.segment)][row.at]
Readable(row) ==
  /\ FileOf(row.segment) \in DOMAIN files
  /\ row.at \in DOMAIN files[FileOf(row.segment)]
  /\ Reads(row).seq = row.seq

\* Whatever failed or crashed, an event that was given a sequence is in the
\* history under it, unless its segment was pruned (event_journal.rs append;
\* history.rs rotate, open_writer, load).  It is not so after a ghost, which
\* a rebuilt index finds first, or a stale sidecar, whose rows are another
\* file's.
HistoryHoldsEvents ==
  writer = "idle" /\ damage \subseteq {"hollow"} =>
    /\ \A r \in Chain : Readable(r)
    /\ \A n \in DOMAIN acked :
         n > pruned => \E r \in Chain : Reads(r) = [seq |-> n, event |-> acked[n]]

\* A query pins readable records without a hole, newest first, that go on
\* where the reader's last page ended, across rotations, pruning, failures
\* and restarts (history.rs snapshot, read, SegmentLease), with the same
\* exceptions and that of a hollow segment, which may cost a newer one its
\* place among those retained.
PagesContinue ==
  LET p == reader.pinned
  IN  damage = {} =>
        /\ \A r \in p : Readable(r)
        /\ \A r, q \in p : r # q => (Newer(r, q) <=> r.seq > q.seq)
        /\ \A r, q \in p : \A n \in q.seq .. r.seq : \E x \in p : x.seq = n
        /\ p # {} /\ reader.last # 0 => First(p).seq = reader.last - 1

\* A poller that was not told to reset has received every event between
\* where it began and where it is, also over a restart (event_journal.rs
\* query, open_with_limit).  After a restart with hollow segments only, or
\* with a stale sidecar, sequences are given anew.
PollerMissesNothing ==
  damage \subseteq {"ghost"} =>
    poller.got = {acked[n] : n \in {m \in DOMAIN acked : poller.from < m /\ m <= poller.after}}
=============================================================================
