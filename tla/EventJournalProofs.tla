------------------------- MODULE EventJournalProofs -------------------------
(***************************************************************************)
(* The safety properties of EventJournal, proved for any number of events, *)
(* segments, faults and crashes, any retention, any live limit and any     *)
(* interval of the index's flushes.                                        *)
(*                                                                         *)
(* On the invariant of EventJournalFiles rest three more, one for each     *)
(* property.  History: every event is a line of a file until its segment   *)
(* is pruned, and an index that is a digest leads to it.  Sequenced: a     *)
(* sequence is not given twice, since a crash leaves the last record in a  *)
(* file where the next start finds it.  Pages: the archives are in the     *)
(* order of their sequences without a hole, a start finds this order again *)
(* and prunes nothing younger than what had been pruned, and a cursor      *)
(* leads to the same event under each name its file has in turn.           *)
(***************************************************************************)
EXTENDS EventJournalFiles

-----------------------------------------------------------------------------
(* The history holds the events.                                           *)

\* An event that was given a sequence is in a file, unless it was pruned.
Holds(n) == \E f \in DOMAIN files : \E i \in DOMAIN files[f] : files[f][i] = [seq |-> n, event |-> acked[n]]
Holding == \A n \in DOMAIN acked : n > pruned => Holds(n)

\* A segment that only a query holds was pruned.
Retiring == \A f \in retired \cap DOMAIN files : \A i \in DOMAIN files[f] : files[f][i].seq <= pruned

\* With a ghost, or a stale sidecar, neither need be so.
History == damage \subseteq {"hollow"} => Holding /\ (Up => Retiring)

\* Every line that is not pruned is still in some file.
Kept ==
  \A f \in DOMAIN files : \A i \in DOMAIN files[f] :
     \/ files[f][i].seq <= pruned'
     \/ \E g \in DOMAIN files' : \E j \in DOMAIN files'[g] : files'[g][j] = files[f][i]

\* Nothing that is not pruned is lost if every line is kept.
LEMMA HoldingKept ==
  ASSUME TypeOK, Holding, Kept, UNCHANGED acked, pruned' \in Nat, pruned <= pruned'
  PROVE  Holding'
<1> SUFFICES ASSUME NEW n \in DOMAIN acked, n > pruned' PROVE Holds(n)'
  BY DEF Holding
<1>1. n \in Nat /\ pruned \in Nat
  BY DEF TypeOK, Clients, Counts
<1>2. n > pruned
  BY <1>1
<1>3. PICK f \in DOMAIN files : \E i \in DOMAIN files[f] : files[f][i] = [seq |-> n, event |-> acked[n]]
  BY <1>2 DEF Holding, Holds
<1>5. PICK i \in DOMAIN files[f] : files[f][i] = [seq |-> n, event |-> acked[n]]
  BY <1>3
<1>4. ~(files[f][i].seq <= pruned')
  BY <1>1, <1>5
<1> QED
  BY <1>4, <1>5 DEF Kept, Holds

\* Files that only grow keep every line.
LEMMA KeptGrows ==
  ASSUME TypeOK, \A f \in DOMAIN files : f \in DOMAIN files' /\
           \A i \in DOMAIN files[f] : i \in DOMAIN files'[f] /\ files'[f][i] = files[f][i]
  PROVE  Kept
BY DEF Kept

\* Steps that only add lines.
LEMMA HistoryGrows ==
  ASSUME TypeOK, History, UNCHANGED <<acked, pruned>>, damage \subseteq damage',
         \A f \in DOMAIN files : f \in DOMAIN files' /\
           \A i \in DOMAIN files[f] : i \in DOMAIN files'[f] /\ files'[f][i] = files[f][i],
         Up' => Up /\ retired' = retired,
         \A f \in retired : f \in DOMAIN files' => f \in DOMAIN files /\ files'[f] = files[f]
  PROVE  History'
<1> SUFFICES ASSUME damage' \subseteq {"hollow"} PROVE Holding' /\ (Up' => Retiring')
  BY DEF History
<1>1. Holding /\ (Up => Retiring) /\ pruned \in Nat
  BY DEF History, TypeOK, Counts
<1>2. Holding'
  BY <1>1, KeptGrows, HoldingKept
<1>3. Up' => Retiring'
  BY <1>1 DEF Retiring
<1> QED
  BY <1>2, <1>3

LEMMA HistoryTake == ASSUME TypeOK, History, Take PROVE History'
  BY HistoryGrows DEF Take, Up, disk, store, history
LEMMA HistoryFlushIndex == ASSUME TypeOK, History, FlushIndex PROVE History'
  BY HistoryGrows DEF FlushIndex, Up, history
LEMMA HistoryRenameIndex == ASSUME TypeOK, History, RenameIndex PROVE History'
  BY HistoryGrows DEF RenameIndex, Up, store, history
LEMMA HistoryPoll == ASSUME TypeOK, History, Poll PROVE History'
  BY HistoryGrows DEF Poll, Up, disk, store, history
LEMMA HistoryPin == ASSUME TypeOK, History, Pin PROVE History'
<1>1. UNCHANGED <<disk, writer, store, history>>
  BY DEF Pin
<1> QED
  BY <1>1, HistoryGrows DEF Up, disk, store, history
LEMMA HistoryPersistIndex == ASSUME TypeOK, History, PersistIndex PROVE History'
<1>1. UNCHANGED <<files, retired, acked, pruned>> /\ damage \subseteq damage' /\ Up
  BY DEF PersistIndex, Up
<1> QED
  BY <1>1, HistoryGrows
LEMMA HistoryOpenFile == ASSUME TypeOK, History, OpenFile PROVE History'
<1>1. UNCHANGED <<retired, acked, pruned, damage>> /\ Up /\ Active \notin retired
  BY DEF OpenFile, Up, history, TypeOK, InMemory, Active
<1>2. CASE OpenWriter
  <2>1. /\ DOMAIN files' = DOMAIN files \cup {Active}
        /\ \A f \in DOMAIN files : files'[f] = files[f]
    BY <1>2, Opens
  <2> QED
    BY <1>1, <2>1, HistoryGrows
<1>3. CASE UNCHANGED files
  BY <1>1, <1>3, HistoryGrows
<1> QED
  BY <1>2, <1>3 DEF OpenFile

LEMMA HistoryRenameData == ASSUME TypeOK, Shape, History, RenameData PROVE History'
<1>1. /\ writer = "rename" /\ UNCHANGED <<active, retired, acked, pruned>>
      /\ damage \subseteq damage' /\ Up
  BY DEF RenameData, store, Up
<1>2. Active \in DOMAIN files /\ active \notin DOMAIN files /\ active # Active
      /\ Active \notin retired /\ active \notin retired
  BY <1>1 DEF Shape, Phases, Moved, Segmented, TypeOK, Counts, InMemory, Active
<1>3. CASE files' = With(Without(files, {Active}), active, files[Active])
  <2>1. /\ DOMAIN files' = (DOMAIN files \ {Active}) \cup {active}
        /\ files'[active] = files[Active]
        /\ \A f \in DOMAIN files : f # Active => f \in DOMAIN files' /\ files'[f] = files[f]
    BY <1>2, <1>3 DEF With, Without
  <2> SUFFICES ASSUME damage' \subseteq {"hollow"} PROVE Holding' /\ Retiring'
    BY DEF History
  <2>2. Holding /\ Retiring /\ pruned \in Nat
    BY <1>1 DEF History, TypeOK, Counts
  <2>3. Kept
    BY <1>2, <2>1 DEF Kept
  <2>4. Holding'
    BY <1>1, <2>2, <2>3, HoldingKept
  <2>5. Retiring'
    BY <1>1, <1>2, <2>1, <2>2 DEF Retiring
  <2> QED
    BY <2>4, <2>5
<1>4. CASE UNCHANGED files
  BY <1>1, <1>4, HistoryGrows
<1> QED
  BY <1>3, <1>4 DEF RenameData

LEMMA HistoryCutAppend == ASSUME TypeOK, Shape, History, CutAppend PROVE History'
<1>1. /\ writer = "write" /\ file /\ UNCHANGED <<retired, acked, pruned>> /\ Up
      /\ damage \subseteq damage' /\ Active \notin retired
      /\ \E x \in {Garbage, Record} : Cut(x)
  BY DEF CutAppend, Up, TypeOK, InMemory, Active
<1>2. PICK x \in {Garbage, Record} : Cut(x)
  BY <1>1
<1>3. /\ Active \in DOMAIN files
      /\ files' = files \/ files' = [files EXCEPT ![Active] = Append(files[Active], x)]
  BY <1>1, <1>2, CutLine
<1>4. files[Active] \in Seq(Line)
  BY <1>3, LinesSeq
<1>5. \A f \in DOMAIN files : f \in DOMAIN files' /\
           \A i \in DOMAIN files[f] : i \in DOMAIN files'[f] /\ files'[f][i] = files[f][i]
  <2>1. /\ \A i \in DOMAIN files[Active] : i \in DOMAIN Append(files[Active], x)
                                          /\ Append(files[Active], x)[i] = files[Active][i]
    BY <1>4
  <2> QED
    BY <1>3, <2>1
<1>6. \A f \in retired : f \in DOMAIN files' => f \in DOMAIN files /\ files'[f] = files[f]
  BY <1>1, <1>3
<1> QED
  BY <1>1, <1>5, <1>6, HistoryGrows

\* What a crash does to the files.
LEMMA CrashFiles ==
  ASSUME TypeOK, Shape, Crash
  PROVE  \/ files' = files
         \/ Active \in DOMAIN files /\ \E x \in {Garbage, Record} : files' = [files EXCEPT ![Active] = Append(files[Active], x)]
<1>1. CASE writer = "write" /\ file
  <2>1. Active \in DOMAIN files /\ ~torn
    BY <1>1 DEF Shape, Phases, Up
  <2> QED
    BY <1>1, <2>1 DEF Crash, Cut, Lines
<1>2. CASE ~(writer = "write" /\ file)
  BY <1>2 DEF Crash
<1> QED
  BY <1>1, <1>2

\* A crash takes no line away.
LEMMA CrashKeeps ==
  ASSUME TypeOK, Shape, Crash
  PROVE  /\ DOMAIN files' = DOMAIN files
         /\ \A f \in DOMAIN files : \A i \in DOMAIN files[f] : i \in DOMAIN files'[f] /\ files'[f][i] = files[f][i]
<1>1. CASE files' = files
  BY <1>1
<1>2. ASSUME Active \in DOMAIN files, NEW x \in {Garbage, Record},
             files' = [files EXCEPT ![Active] = Append(files[Active], x)]
      PROVE  /\ DOMAIN files' = DOMAIN files
             /\ \A f \in DOMAIN files : \A i \in DOMAIN files[f] : i \in DOMAIN files'[f] /\ files'[f][i] = files[f][i]
  <2>1. files[Active] \in Seq(Line)
    BY <1>2, LinesSeq
  <2>2. \A i \in DOMAIN files[Active] : i \in DOMAIN Append(files[Active], x)
                                          /\ Append(files[Active], x)[i] = files[Active][i]
    BY <2>1
  <2> QED
    BY <1>2, <2>2
<1> QED
  BY <1>1, <1>2, CrashFiles

LEMMA HistoryCrash == ASSUME TypeOK, Shape, History, Crash PROVE History'
<1>1. UNCHANGED <<acked, pruned, damage>> /\ ~Up' /\ pruned \in Nat
  BY DEF Crash, history, Up, TypeOK, Counts
<1>2. Kept
  BY CrashKeeps, KeptGrows
<1>3. damage \subseteq {"hollow"} => Holding'
  BY <1>1, <1>2, HoldingKept DEF History
<1> QED
  BY <1>1, <1>3 DEF History

LEMMA HistoryAppendLine == ASSUME TypeOK, Shape, History, AppendLine PROVE History'
<1> SUFFICES ASSUME damage \subseteq {"hollow"} PROVE Holding' /\ Retiring'
  BY DEF History, AppendLine
<1>1. /\ writer = "write" /\ file /\ UNCHANGED <<retired, pruned, damage>> /\ Up
      /\ Active \notin retired /\ files' = Lines(Record)
      /\ acked' = With(acked, sequence + 1, taken)
  BY DEF AppendLine, Up, TypeOK, InMemory, Active
<1>2. Active \in DOMAIN files /\ ~torn /\ files[Active] \in Seq(Line)
  BY <1>1, LinesSeq DEF Shape, Phases
<1>3. /\ DOMAIN files' = DOMAIN files /\ files'[Active] = Append(files[Active], Record)
      /\ \A f \in DOMAIN files : f # Active => files'[f] = files[f]
  BY <1>1, <1>2 DEF Lines
<1>4. /\ \A i \in DOMAIN files[Active] : i \in DOMAIN files'[Active] /\ files'[Active][i] = files[Active][i]
      /\ Len(files[Active]) + 1 \in DOMAIN files'[Active]
      /\ files'[Active][Len(files[Active]) + 1] = Record
  BY <1>2, <1>3
<1>5. Holding /\ Retiring
  BY <1>1 DEF History
<1>6. ASSUME NEW n \in DOMAIN acked', n > pruned' PROVE Holds(n)'
  <2>1. CASE n = sequence + 1
    <3>1. acked'[n] = taken /\ Record = [seq |-> n, event |-> taken]
      BY <1>1, <2>1 DEF With, Record
    <3> QED
      BY <1>2, <1>3, <1>4, <3>1 DEF Holds
  <2>2. CASE n # sequence + 1
    <3>1. n \in DOMAIN acked /\ acked'[n] = acked[n]
      BY <1>1, <2>2, <1>6 DEF With
    <3>2. Holds(n)
      BY <1>1, <1>5, <1>6, <3>1 DEF Holding
    <3> QED
      BY <1>3, <1>4, <3>1, <3>2 DEF Holds
  <2> QED
    BY <2>1, <2>2
<1>7. Retiring'
  BY <1>1, <1>3, <1>5 DEF Retiring
<1> QED
  BY <1>6, <1>7 DEF Holding

LEMMA HistoryRead == ASSUME TypeOK, Shape, History, Read PROVE History'
<1> SUFFICES ASSUME damage \subseteq {"hollow"} PROVE Holding' /\ (Up' => Retiring')
  BY DEF History, Read, history
<1>1. /\ files' = Without(files, retired) /\ retired' = {} /\ UNCHANGED <<acked, pruned, damage, writer>>
      /\ pruned \in Nat
  BY DEF Read, history, TypeOK, Counts
<1>2. /\ DOMAIN files' = DOMAIN files \ retired /\ \A f \in DOMAIN files' : files'[f] = files[f]
  BY <1>1 DEF Without
<1>3. Holding /\ (Up => Retiring) /\ (~Up => retired = {})
  <2>1. retired # {} => Up
    BY DEF TypeOK, InMemory, Shape
  <2> QED
    BY <1>1, <2>1 DEF History
<1>4. Kept
  BY <1>1, <1>2, <1>3 DEF Kept, Retiring
<1>5. Holding'
  BY <1>1, <1>3, <1>4, HoldingKept
<1> QED
  BY <1>1, <1>5 DEF Retiring

\* What a pruned segment held is not above the last sequence of its rows.
LEMMA PrunedBelow ==
  ASSUME NEW lines \in Seq(Line), NEW rows, rows \in RowSets, Digest(rows, lines),
         \A i \in DOMAIN lines : Held(rows, lines[i]),
         NEW p \in Nat, p >= LastSequence(rows)
  PROVE  \A i \in DOMAIN lines : lines[i].seq <= p
<1> SUFFICES ASSUME NEW i \in DOMAIN lines PROVE lines[i].seq <= p
  OBVIOUS
<1>1. lines[i].seq <= LastSequence(rows)
  BY LastHeld
<1>2. LastSequence(rows) \in Nat
  BY LastFacts DEF RowSets
<1>3. lines[i] \in Line
  OBVIOUS
<1>4. lines[i].seq \in Nat
  BY <1>3 DEF Line
<1> QED
  BY <1>1, <1>2, <1>4

LEMMA HistorySwitch == ASSUME JournalAssumption, TypeOK, Shape, Fit, History, Switch PROVE History'
<1>1. PICK kept, gone, free : Switched(kept, gone, free)
  BY Switching
<1>2. /\ UNCHANGED <<damage, acked>> /\ Up /\ writer = "switch"
      /\ pruned' \in Nat /\ pruned' >= pruned
      /\ gone \subseteq ToSet(archives) /\ free = gone \ Leased
      /\ \A f \in gone : offsets[f] \in RowSets /\ pruned' >= LastSequence(offsets[f])
      /\ files' = Without(files, free)
      /\ retired' = retired \cup (gone \cap Leased)
  BY <1>1 DEF Switched, Up
<1> SUFFICES ASSUME damage \subseteq {"hollow"} PROVE Holding' /\ Retiring'
  BY <1>2 DEF History
<1>3. Holding /\ Retiring /\ pruned \in Nat /\ ~Ghost /\ \A id \in DOMAIN offsets : Fits(id)
  BY <1>2 DEF History, TypeOK, Counts, Fit, Ghost
<1>4. /\ DOMAIN files' = DOMAIN files \ free /\ \A f \in DOMAIN files' : files'[f] = files[f]
  BY <1>2 DEF Without
<1>5. ASSUME NEW f \in gone, NEW i \in DOMAIN files[f] PROVE files[f][i].seq <= pruned'
  <2>1. f \in DOMAIN offsets /\ f \in DOMAIN files /\ LinesOf(f) = files[f]
    BY <1>2, LinesFacts
  <2>2. files[f] \in Seq(Line)
    BY <2>1, LinesSeq
  <2>3. Digest(offsets[f], files[f]) /\ \A k \in DOMAIN files[f] : Held(offsets[f], files[f][k])
    BY <1>3, <2>1 DEF Fits
  <2> QED
    BY <1>2, <2>2, <2>3, PrunedBelow
<1>6. Kept
  BY <1>2, <1>4, <1>5 DEF Kept
<1>7. Holding'
  BY <1>2, <1>3, <1>6, HoldingKept
<1>8. Retiring'
  <2> SUFFICES ASSUME NEW f \in retired' \cap DOMAIN files', NEW i \in DOMAIN files'[f]
               PROVE  files'[f][i].seq <= pruned'
    BY DEF Retiring
  <2>1. f \in DOMAIN files /\ files'[f] = files[f]
    BY <1>4
  <2>2. CASE f \in retired
    <3>1. files[f][i].seq <= pruned /\ files[f][i].seq \in Nat
      BY <1>3, <2>1, <2>2, LinesSeq DEF Retiring
    <3> QED
      BY <1>2, <1>3, <2>1, <3>1
  <2>3. CASE f \in gone
    BY <1>5, <2>1, <2>3
  <2> QED
    BY <1>2, <2>2, <2>3
<1> QED
  BY <1>7, <1>8

LEMMA HistoryOpen == ASSUME JournalAssumption, TypeOK, Shape, Fit, History, Open PROVE History'
<1>1. PICK sealed, rows, id, lines, mine, order, kept, gone :
        Opened(sealed, rows, id, lines, mine, order, kept, gone)
  BY Opening
<1>2. /\ UNCHANGED <<damage, acked>> /\ retired' = {}
      /\ sealed = DOMAIN files \ {Active} /\ kept \cup gone = sealed
      /\ pruned' \in Nat /\ pruned' >= pruned /\ \A f \in gone : pruned' >= LastSequence(rows[f])
      /\ DOMAIN files' = kept \cup {Active} /\ files'[Active] = lines
      /\ \A f \in kept : files'[f] = files[f]
      /\ lines = (IF Active \in DOMAIN files THEN files[Active] ELSE <<>>)
      /\ \A f \in sealed : rows[f] = Loaded(f, f) /\ rows[f] \in RowSets
  BY <1>1 DEF Opened
<1> SUFFICES ASSUME damage \subseteq {"hollow"} PROVE Holding' /\ Retiring'
  BY <1>2 DEF History
<1>3. FileOrder /\ SidecarsFit /\ Holding /\ pruned \in Nat
  BY <1>2 DEF Fit, History, TypeOK, Counts
<1>4. ASSUME NEW f \in gone, NEW i \in DOMAIN files[f] PROVE files[f][i].seq <= pruned'
  <2>1. f \in DOMAIN files /\ files[f] \in Seq(Line) /\ rows[f] \in RowSets /\ rows[f] = Loaded(f, f)
    BY <1>2, LinesSeq
  <2>2. Digest(rows[f], files[f]) /\ \A k \in DOMAIN files[f] : Held(rows[f], files[f][k])
    BY <1>3, <2>1, LoadedFits
  <2> QED
    BY <1>2, <2>1, <2>2, PrunedBelow
<1>5. Kept
  BY <1>2, <1>4 DEF Kept
<1>6. Holding'
  BY <1>2, <1>3, <1>5, HoldingKept
<1> QED
  BY <1>2, <1>6 DEF Retiring

\* The rows of the store are readable.
LEMMA ChainReadable ==
  ASSUME TypeOK, Shape, Fit, Up, "stale" \notin damage, NEW r \in Chain
  PROVE  /\ Readable(r)
         /\ r.seq > 0 /\ r.segment \in DOMAIN offsets
         /\ [seq |-> r.seq, at |-> r.at] \in offsets[r.segment]
         /\ Reads(r) = LinesOf(r.segment)[r.at] /\ r.at \in DOMAIN LinesOf(r.segment)
<1>1. PICK i \in DOMAIN Ids : r \in {[segment |-> Ids[i], age |-> i, seq |-> x.seq, at |-> x.at] : x \in offsets[Ids[i]]}
  BY DEF Chain
<1>2. PICK x \in offsets[Ids[i]] : r = [segment |-> Ids[i], age |-> i, seq |-> x.seq, at |-> x.at]
  BY <1>1
<1>3. Ids[i] \in DOMAIN offsets
  BY IdsFacts DEF TypeOK, InMemory, ToSet
<1>4. Digest(offsets[Ids[i]], LinesOf(Ids[i])) /\ x = [seq |-> x.seq, at |-> x.at]
  <2>1. offsets[Ids[i]] \subseteq Row
    BY <1>3 DEF TypeOK, InMemory, RowSets
  <2> QED
    BY <2>1, <1>3 DEF Fit, Fits, Row
<1>5. x.at \in DOMAIN LinesOf(Ids[i]) /\ LinesOf(Ids[i])[x.at].seq = x.seq /\ x.seq > 0
  BY <1>4 DEF Digest, RowsAt
<1>6. FileOf(Ids[i]) \in DOMAIN files /\ LinesOf(Ids[i]) = files[FileOf(Ids[i])]
  BY <1>5 DEF LinesOf
<1> QED
  BY <1>2, <1>3, <1>4, <1>5, <1>6 DEF Readable, Reads

\* The file of a segment, and the segments of the rows.
LEMMA ChainHas ==
  ASSUME TypeOK, Up, NEW id \in DOMAIN offsets, NEW x \in offsets[id]
  PROVE  \E r \in Chain : r.segment = id /\ r.seq = x.seq /\ r.at = x.at
<1>1. PICK i \in DOMAIN Ids : Ids[i] = id
  BY DEF TypeOK, InMemory, ToSet
<1>2. [segment |-> Ids[i], age |-> i, seq |-> x.seq, at |-> x.at] \in Chain
  BY <1>1 DEF Chain
<1> QED
  BY <1>1, <1>2

\* What the history holds can be read through the rows of the store.
LEMMA HoldsEvents ==
  ASSUME TypeOK, Shape, Fit, History PROVE HistoryHoldsEvents
<1> SUFFICES ASSUME writer = "idle", damage \subseteq {"hollow"}
             PROVE  /\ \A r \in Chain : Readable(r)
                    /\ \A n \in DOMAIN acked :
                         n > pruned => \E r \in Chain : Reads(r) = [seq |-> n, event |-> acked[n]]
  BY DEF HistoryHoldsEvents
<1>1. Up /\ "stale" \notin damage /\ ~Ghost /\ ~Moved
  BY DEF Up, Ghost, Moved
<1>2. \A r \in Chain : Readable(r)
  BY <1>1, ChainReadable
<1>3. ASSUME NEW n \in DOMAIN acked, n > pruned
      PROVE  \E r \in Chain : Reads(r) = [seq |-> n, event |-> acked[n]]
  <2>12. PICK f \in DOMAIN files : \E i \in DOMAIN files[f] : files[f][i] = [seq |-> n, event |-> acked[n]]
    BY <1>3 DEF History, Holding, Holds
  <2>1. PICK i \in DOMAIN files[f] : files[f][i] = [seq |-> n, event |-> acked[n]]
    BY <2>12
  <2>2. n \in Nat /\ n > 0 /\ pruned \in Nat
    BY DEF TypeOK, Clients, Counts
  <2>3. f \notin retired
    BY <1>1, <1>3, <2>1, <2>2 DEF History, Retiring
  <2>4. \E id \in DOMAIN offsets : LinesOf(id) = files[f]
    <3>1. f = Active \/ f \in ToSet(archives)
      BY <1>1, <2>3 DEF Shape, Segmented
    <3> QED
      BY <1>1, <3>1, LinesFacts
  <2>5. PICK id \in DOMAIN offsets : LinesOf(id) = files[f]
    BY <2>4
  <2>6. Fits(id)
    BY <1>1 DEF Fit
  <2>7. PICK x \in offsets[id] : x.seq = n
    <3>1. Held(offsets[id], files[f][i])
      BY <1>1, <2>5, <2>6 DEF Fits
    <3> QED
      BY <2>1, <2>2, <3>1 DEF Held
  <2>8. PICK r \in Chain : r.segment = id /\ r.seq = n /\ r.at = x.at
    BY <1>1, <2>7, ChainHas
  <2>9. Reads(r) = files[f][r.at] /\ r.at \in DOMAIN files[f] /\ Readable(r)
    BY <1>1, <2>5, <2>8, ChainReadable
  <2>10. files[f][r.at].seq = n
    BY <2>8, <2>9 DEF Readable
  <2>11. r.at = i
    <3>1. Strict(files[f])
      BY <1>1 DEF Fit, FileOrder
    <3>2. r.at \in Nat /\ i \in Nat
      BY <2>9, LinesSeq
    <3>3. r.at < i => FALSE
      BY <2>1, <2>2, <2>9, <2>10, <3>1 DEF Strict
    <3>4. i < r.at => FALSE
      BY <2>1, <2>2, <2>9, <2>10, <3>1 DEF Strict
    <3> QED
      BY <3>2, <3>3, <3>4
  <2> QED
    BY <2>1, <2>9, <2>11
<1> QED
  BY <1>2, <1>3

-----------------------------------------------------------------------------
(* Sequences and the poller.                                               *)

\* The sequence is that of the newest row.
LastRow ==
  \/ sequence = 0
  \/ \E r \in offsets[active] : r.seq = sequence
  \/ offsets[active] = {} /\ archives # <<>> /\ \E r \in offsets[archives[1]] : r.seq = sequence

\* The live events are the last that were given a sequence.
LiveFits ==
  \A i \in DOMAIN live :
    LET n == sequence + i - Len(live)
    IN  n \in DOMAIN acked /\ live[i] = [seq |-> n, event |-> acked[n]]

\* A sequence that was given or seen is not given again: while the process is
\* down, the files have one that is as great.
Marked(n) ==
  IF Up THEN n <= sequence
  ELSE n = 0 \/ \E f \in DOMAIN files : \E i \in DOMAIN files[f] : files[f][i].seq >= n

\* What the poller has to have, and what it has.
Received(from, to) == {acked[n] : n \in {m \in DOMAIN acked : from < m /\ m <= to}}
Marks == Marked(poller.after) /\ \A n \in DOMAIN acked : Marked(n)
Polled == poller.from <= poller.after /\ poller.got = Received(poller.from, poller.after)

\* A segment that is sealed has a record (there is no hollow one).
Ending == LastRow /\ (Moved => offsets[active] # {})

\* The live events do not reach back before the first.
Fresh == LiveFits /\ Len(live) <= sequence

\* All that PollerMissesNothing needs.
Sequenced ==
  damage \subseteq {"ghost"} => Marks /\ Polled /\ (Up => Ending /\ Fresh)

-----------------------------------------------------------------------------
\* A row of the store is a line of a file.
LEMMA RowLine ==
  ASSUME TypeOK, Shape, Fit, Up, "stale" \notin damage, NEW id \in DOMAIN offsets, NEW r \in offsets[id]
  PROVE  \E f \in DOMAIN files : \E i \in DOMAIN files[f] : files[f][i].seq = r.seq
<1>1. Digest(offsets[id], LinesOf(id))
  BY DEF Fit, Fits
<1>2. r.at \in DOMAIN LinesOf(id) /\ LinesOf(id)[r.at].seq = r.seq
  BY <1>1 DEF Digest, RowsAt
<1> QED
  BY <1>2 DEF LinesOf

\* A crash leaves the last record in a file.
LEMMA MarkedCrash ==
  ASSUME TypeOK, Shape, Fit, "stale" \notin damage, LastRow, Crash, NEW n \in Nat, Marked(n)
  PROVE  Marked(n)'
<1>1. Up /\ ~Up' /\ n <= sequence /\ sequence \in Nat
  BY DEF Crash, Up, Marked, TypeOK, Counts
<1>2. sequence = 0 \/ \E f \in DOMAIN files : \E i \in DOMAIN files[f] : files[f][i].seq = sequence
  <2>1. \A id \in DOMAIN offsets : \A r \in offsets[id] :
          \E f \in DOMAIN files : \E i \in DOMAIN files[f] : files[f][i].seq = r.seq
    BY <1>1, RowLine
  <2>2. active \in DOMAIN offsets /\ (archives # <<>> => archives[1] \in DOMAIN offsets)
    <3>1. archives # <<>> => archives[1] \in ToSet(archives)
      BY DEF TypeOK, InMemory, ToSet
    <3> QED
      BY <1>1, <3>1, LinesFacts
  <2> QED
    BY <2>1, <2>2 DEF LastRow
<1>3. sequence = 0 \/ \E f \in DOMAIN files' : \E i \in DOMAIN files'[f] : files'[f][i].seq = sequence
  BY <1>2, CrashKeeps
<1> QED
  BY <1>1, <1>3 DEF Marked

\* The sequence after a start is that of the greatest line.
LEMMA OpenAbove ==
  ASSUME JournalAssumption, TypeOK, FileOrder, SidecarsFit,
         NEW sealed, NEW rows, NEW id, NEW lines, NEW mine, NEW order, NEW kept, NEW gone,
         Opened(sealed, rows, id, lines, mine, order, kept, gone),
         NEW f \in DOMAIN files, NEW i \in DOMAIN files[f]
  PROVE  files[f][i].seq <= sequence'
<1>1. files[f] \in Seq(Line) /\ files[f][i].seq \in Nat /\ sequence' \in Nat
  BY LinesSeq DEF Opened
<1>2. CASE f = Active
  <2>1. mine = Loaded(Active, 0) /\ mine \in RowSets /\ sequence' >= LastSequence(mine)
    BY <1>2 DEF Opened
  <2>2. Digest(mine, files[f]) /\ Held(mine, files[f][i])
    BY <1>2, <2>1, LoadedFits
  <2>3. files[f][i].seq <= LastSequence(mine) /\ LastSequence(mine) \in Nat
    BY <1>1, <2>1, <2>2, LastHeld, LastFacts DEF RowSets
  <2> QED
    BY <1>1, <2>1, <2>3
<1>3. CASE f # Active
  <2>1. f \in sealed /\ rows[f] = Loaded(f, f) /\ rows[f] \in RowSets
    BY <1>3 DEF Opened
  <2>2. Digest(rows[f], files[f]) /\ Held(rows[f], files[f][i])
    BY <2>1, LoadedFits
  <2>3. files[f][i].seq <= LastSequence(rows[f]) /\ LastSequence(rows[f]) \in Nat
    BY <1>1, <2>1, <2>2, LastHeld, LastFacts DEF RowSets
  <2>4. CASE f \in kept
    <3>1. sequence' >= LastSequence(rows[f])
      BY <2>4 DEF Opened
    <3> QED
      BY <1>1, <2>3, <3>1
  <2>5. CASE f \in gone
    <3>1. PICK k \in DOMAIN order : k > Len(archives') /\ f = order[k]
      BY <2>5 DEF Opened
    <3>2. /\ order \in Seq(sealed) /\ Len(archives') = (IF Len(order) > Retained THEN Retained ELSE Len(order))
          /\ archives' \in Seq(sealed) /\ kept = ToSet(archives')
          /\ \A m \in DOMAIN archives' : archives'[m] = order[m]
      BY DEF Opened
    <3>3. Retained \in Nat \ {0} /\ k \in 1 .. Len(order) /\ Len(order) \in Nat
      BY <3>1, <3>2 DEF JournalAssumption
    <3>4. Len(archives') = Retained /\ 1 < k /\ 1 \in DOMAIN order /\ 1 \in DOMAIN archives'
      BY <3>1, <3>2, <3>3
    <3>5. LastSequence(rows[order[1]]) >= LastSequence(rows[f])
      BY <3>1, <3>4 DEF Opened
    <3>6. order[1] \in kept /\ order[1] \in sealed
      BY <3>2, <3>4 DEF ToSet
    <3>7. sequence' >= LastSequence(rows[order[1]]) /\ rows[order[1]] \in RowSets
      BY <3>6 DEF Opened
    <3>8. LastSequence(rows[order[1]]) \in Nat
      BY <3>7, LastFacts DEF RowSets
    <3> QED
      BY <1>1, <2>3, <3>5, <3>7, <3>8
  <2> QED
    BY <2>1, <2>4, <2>5 DEF Opened
<1> QED
  BY <1>2, <1>3

\* A start finds it again.
LEMMA MarkedOpen ==
  ASSUME JournalAssumption, TypeOK, Fit, "stale" \notin damage, Open, NEW n \in Nat, Marked(n)
  PROVE  Marked(n)'
<1>1. PICK sealed, rows, id, lines, mine, order, kept, gone :
        Opened(sealed, rows, id, lines, mine, order, kept, gone)
  BY Opening
<1>2. ~Up /\ Up' /\ sequence' \in Nat
  BY <1>1 DEF Opened, Up
<1>3. FileOrder /\ SidecarsFit
  BY DEF Fit
<1>4. ASSUME NEW f \in DOMAIN files, NEW i \in DOMAIN files[f], files[f][i].seq >= n PROVE n <= sequence'
  <2>1. files[f][i].seq <= sequence'
    BY <1>1, <1>3, OpenAbove
  <2>2. files[f][i].seq \in Nat
    BY LinesSeq
  <2> QED
    BY <1>2, <1>4, <2>1, <2>2
<1> QED
  BY <1>2, <1>4 DEF Marked

\* A file that a query gives up is not that of the last record.
LEMMA MarkedRead ==
  ASSUME TypeOK, Shape, Read, NEW n \in Nat, Marked(n)
  PROVE  Marked(n)'
<1>1. (Up' <=> Up) /\ sequence' = sequence /\ files' = Without(files, retired)
  BY DEF Read, Up, state
<1>2. ~Up => files' = files
  <2>1. ~Up => retired = {}
    BY DEF Shape
  <2>2. files \in [DOMAIN files -> Seq(Line)]
    BY DEF TypeOK, OnDisk
  <2> QED
    BY <1>1, <2>1, <2>2 DEF Without
<1> QED
  BY <1>1, <1>2 DEF Marked

\* The other steps are the running program's.
LEMMA Running ==
  ASSUME TypeOK,
         Take \/ FlushIndex \/ RenameData \/ RenameIndex \/ Switch \/ PersistIndex \/ OpenFile
              \/ AppendLine \/ CutAppend \/ Poll \/ Pin
  PROVE  Up /\ Up' /\ sequence' \in {sequence, sequence + 1}
<1>1. ASSUME Take \/ FlushIndex \/ RenameData \/ RenameIndex PROVE Up /\ Up' /\ sequence' \in {sequence, sequence + 1}
  BY <1>1 DEF Take, FlushIndex, RenameData, RenameIndex, Up, state
<1>2. ASSUME PersistIndex \/ OpenFile \/ CutAppend \/ AppendLine PROVE Up /\ Up' /\ sequence' \in {sequence, sequence + 1}
  BY <1>2 DEF PersistIndex, OpenFile, CutAppend, AppendLine, Up, state
<1>3. ASSUME Poll PROVE Up /\ Up' /\ sequence' \in {sequence, sequence + 1}
  BY <1>3 DEF Poll, Up, state
<1>4. ASSUME Pin PROVE Up /\ Up' /\ sequence' \in {sequence, sequence + 1}
  <2>1. UNCHANGED <<writer, state>> /\ writer = "idle"
    BY <1>4 DEF Pin
  <2> QED
    BY <2>1 DEF Up, state
<1>5. ASSUME Switch PROVE Up /\ Up' /\ sequence' \in {sequence, sequence + 1}
  <2>1. UNCHANGED state /\ writer = "switch" /\ writer' = "persist"
    BY <1>5 DEF Switch
  <2> QED
    BY <2>1 DEF Up, state
<1> QED
  BY <1>1, <1>2, <1>3, <1>4, <1>5

\* Sequences are not given again.
LEMMA MarkStays ==
  ASSUME JournalAssumption, TypeOK, Shape, Fit, "stale" \notin damage, Up => LastRow, Next,
         NEW n \in Nat, Marked(n)
  PROVE  Marked(n)'
<1>1. CASE Open
  BY <1>1, MarkedOpen
<1>2. CASE Crash
  <2>1. Up
    BY <1>2 DEF Crash, Up
  <2> QED
    BY <1>2, <2>1, MarkedCrash
<1>3. CASE Read
  BY <1>3, MarkedRead
<1>4. CASE Take \/ FlushIndex \/ RenameData \/ RenameIndex \/ Switch \/ PersistIndex \/ OpenFile
              \/ AppendLine \/ CutAppend \/ Poll \/ Pin
  <2>1. Up /\ Up' /\ sequence' \in {sequence, sequence + 1} /\ sequence \in Nat
    BY <1>4, Running DEF TypeOK, Counts
  <2> QED
    BY <2>1 DEF Marked
<1> QED
  BY <1>1, <1>2, <1>3, <1>4 DEF Next

-----------------------------------------------------------------------------

\* The newest row through the steps.
LEMMA EndingKeeps ==
  ASSUME Ending, UNCHANGED <<sequence, offsets, active, archives>>, Moved' => Moved
  PROVE  Ending'
BY DEF Ending, LastRow

LEMMA EndingOpen ==
  ASSUME JournalAssumption, TypeOK, Fit, "stale" \notin damage, Open PROVE Ending'
<1>1. PICK sealed, rows, id, lines, mine, order, kept, gone :
        Opened(sealed, rows, id, lines, mine, order, kept, gone)
  BY Opening
<1>2. /\ mine \in RowSets /\ active' = id /\ offsets'[id] = mine
      /\ sequence' = LastSequence(mine) \/ \E f \in kept : sequence' = LastSequence(rows[f])
      /\ \A f \in kept : rows[f] \in RowSets /\ rows[f] = Loaded(f, f) /\ offsets'[f] = rows[f]
                         /\ f \in DOMAIN files /\ f # Active
      /\ sequence' \in Nat /\ sequence' >= LastSequence(mine)
      /\ \A f \in kept : sequence' >= LastSequence(rows[f])
      /\ writer' = "idle"
  BY <1>1 DEF Opened
<1>3. FileOrder /\ SidecarsFit
  BY DEF Fit
<1>4. CASE mine # {}
  <2>1. mine = Loaded(Active, 0) /\ Active \in DOMAIN files
    BY <1>1, <1>4 DEF Opened
  <2>2. Digest(mine, files[Active])
    BY <1>3, <2>1, LoadedFits
  <2>3. PICK r \in mine : TRUE
    BY <1>4
  <2>4. r.at \in DOMAIN files[Active] /\ files[Active][r.at].seq = r.seq /\ r.seq > 0 /\ r.seq \in Nat
    <3>1. r \in RowsAt(files[Active], DOMAIN files[Active]) /\ r \in Row
      BY <1>2, <2>2 DEF Digest, RowSets
    <3> QED
      BY <2>2, <3>1 DEF Digest, RowsAt, Row
  <2>5. ASSUME NEW f \in kept PROVE LastSequence(rows[f]) <= r.seq
    <3>1. Digest(rows[f], files[f])
      BY <1>2, <1>3, LoadedFits
    <3>2. LastSequence(rows[f]) = 0 \/ \E q \in rows[f] : q.seq = LastSequence(rows[f])
      BY <1>2, LastFacts DEF RowSets
    <3>3. ASSUME NEW q \in rows[f], q.seq = LastSequence(rows[f]) PROVE LastSequence(rows[f]) <= r.seq
      <4>1. q.at \in DOMAIN files[f] /\ files[f][q.at].seq = q.seq
        BY <3>1 DEF Digest, RowsAt
      <4> QED
        BY <1>2, <1>3, <2>1, <2>4, <3>3, <4>1 DEF FileOrder
    <3> QED
      BY <2>4, <3>2, <3>3
  <2>6. LastSequence(mine) \in Nat /\ r.seq <= LastSequence(mine)
        /\ (LastSequence(mine) = 0 \/ \E q \in mine : q.seq = LastSequence(mine))
    BY <1>2, LastFacts DEF RowSets
  <2>7. \A f \in kept : LastSequence(rows[f]) \in Nat
    BY <1>2, LastFacts DEF RowSets
  <2>8. sequence' = LastSequence(mine)
    BY <1>2, <2>4, <2>5, <2>6, <2>7
  <2> QED
    BY <1>2, <2>6, <2>8 DEF Ending, LastRow, Moved
<1>5. CASE mine = {}
  <2>1. LastSequence(mine) = 0
    BY <1>2, <1>5, LastFacts DEF RowSets
  <2>2. ASSUME NEW f \in kept, sequence' = LastSequence(rows[f])
        PROVE  archives' # <<>> /\ sequence' = LastSequence(rows[archives'[1]]) /\ archives'[1] \in kept
    <3>1. /\ archives' \in Seq(sealed) /\ kept = ToSet(archives')
          /\ \A m \in DOMAIN archives' : m \in DOMAIN order /\ archives'[m] = order[m]
          /\ order \in Seq(sealed)
      BY <1>1 DEF Opened
    <3>2. PICK k \in DOMAIN archives' : f = archives'[k]
      BY <3>1 DEF ToSet
    <3>3. 1 \in DOMAIN archives' /\ k \in Nat /\ 1 <= k
      BY <3>1, <3>2
    <3>4. archives'[1] \in kept
      BY <3>1, <3>3 DEF ToSet
    <3>5. LastSequence(rows[archives'[1]]) >= LastSequence(rows[f])
      <4>1. CASE k = 1
        <5>1. LastSequence(rows[f]) \in Nat
          BY <1>2, LastFacts DEF RowSets
        <5> QED
          BY <3>2, <4>1, <5>1
      <4>2. CASE 1 < k
        <5>1. 1 \in DOMAIN order /\ k \in DOMAIN order /\ archives'[1] = order[1] /\ f = order[k]
          BY <3>1, <3>2, <3>3
        <5>2. \A i, j \in DOMAIN order : i < j => LastSequence(rows[order[i]]) >= LastSequence(rows[order[j]])
          BY <1>1 DEF Opened
        <5> QED
          BY <4>2, <5>1, <5>2
      <4> QED
        BY <3>3, <4>1, <4>2
    <3>6. LastSequence(rows[archives'[1]]) \in Nat
      BY <1>2, <3>4, LastFacts DEF RowSets
    <3> QED
      BY <1>2, <2>2, <3>3, <3>4, <3>5, <3>6
  <2>3. ASSUME NEW f \in kept, sequence' = LastSequence(rows[f])
        PROVE  sequence' = 0 \/ \E r \in offsets'[archives'[1]] : r.seq = sequence'
    <3>1. archives'[1] \in kept /\ sequence' = LastSequence(rows[archives'[1]])
      BY <2>2, <2>3
    <3> QED
      BY <1>2, <3>1, LastFacts DEF RowSets
  <2> QED
    BY <1>2, <1>5, <2>1, <2>2, <2>3 DEF Ending, LastRow, Moved
<1> QED
  BY <1>4, <1>5

LEMMA EndingSwitch ==
  ASSUME JournalAssumption, TypeOK, Ending, Switch PROVE Ending'
<1>1. PICK kept, gone, free : Switched(kept, gone, free)
  BY Switching
<1>2. /\ writer = "switch" /\ writer' = "persist" /\ active' = drawn + 1 /\ archives' = kept
      /\ sequence' = sequence /\ kept # <<>> /\ kept[1] = active /\ active \in ToSet(kept)
      /\ gone = ({active} \cup ToSet(archives)) \ ToSet(kept)
      /\ offsets' = With(Without(offsets, gone), drawn + 1, {})
  <2>1. Len(kept) \in 1 .. Len(Ids) /\ Len(Ids) \in Nat
    BY <1>1, IdsFacts DEF Switched
  <2> QED
    BY <1>1, <2>1 DEF Switched, state
<1>3. active \in 1 .. drawn /\ drawn \in Nat /\ active \in DOMAIN offsets /\ Moved
  BY <1>2, ActiveOffsets DEF TypeOK, Counts, Up, Moved
<1>4. offsets'[drawn + 1] = {} /\ offsets'[active] = offsets[active]
  BY <1>2, <1>3 DEF With, Without
<1>5. sequence = 0 \/ \E r \in offsets[active] : r.seq = sequence
  BY <1>3 DEF Ending, LastRow
<1> QED
  BY <1>2, <1>4, <1>5 DEF Ending, LastRow, Moved

LEMMA EndingAppendLine ==
  ASSUME TypeOK, AppendLine PROVE Ending'
<1>1. /\ Up /\ sequence' = sequence + 1 /\ active' = active /\ writer' = "idle"
      /\ offsets' = [offsets EXCEPT ![active] = offsets[active] \cup {[seq |-> sequence + 1, at |-> bytes + 1]}]
  BY DEF AppendLine, Up
<1>2. active \in DOMAIN offsets
  BY <1>1, ActiveOffsets
<1>3. [seq |-> sequence + 1, at |-> bytes + 1] \in offsets'[active]
  BY <1>1, <1>2
<1> QED
  BY <1>1, <1>3 DEF Ending, LastRow, Moved

LEMMA EndingStays ==
  ASSUME JournalAssumption, TypeOK, Shape, Fit, damage' \subseteq {"ghost"}, damage \subseteq {"ghost"},
         Up => Ending, Next, Up'
  PROVE  Ending'
<1>1. CASE Open
  BY <1>1, EndingOpen
<1>2. CASE Switch
  <2>1. Up
    BY <1>2, Running
  <2> QED
    BY <1>2, <2>1, EndingSwitch
<1>3. CASE AppendLine
  BY <1>3, EndingAppendLine
<1>4. CASE RenameData
  <2>1. /\ UNCHANGED <<sequence, offsets, active, archives>> /\ Up /\ writer = "rename"
        /\ writer' = "idle" \/ offsets[active] # {}
    BY <1>4 DEF RenameData, store, state, Up
  <2> QED
    BY <2>1, EndingKeeps DEF Ending, LastRow, Moved
<1>5. CASE Crash
  BY <1>5 DEF Crash, Up
<1>6. CASE Pin
  <2>1. UNCHANGED <<writer, store, state>> /\ writer = "idle"
    BY <1>6 DEF Pin
  <2> QED
    BY <2>1, EndingKeeps DEF Up, Moved, store, state
<1>7. CASE Poll \/ Read
  BY <1>7, EndingKeeps DEF Poll, Read, Up, Moved, store, state
<1>8. CASE Take \/ FlushIndex \/ RenameIndex
  BY <1>8, EndingKeeps DEF Take, FlushIndex, RenameIndex, Up, Moved, store, state
<1>9. CASE PersistIndex \/ OpenFile \/ CutAppend
  BY <1>9, EndingKeeps DEF PersistIndex, OpenFile, CutAppend, Up, Moved, state
<1> QED
  BY <1>1, <1>2, <1>3, <1>4, <1>5, <1>6, <1>7, <1>8, <1>9 DEF Next

\* The live events through the steps.
LEMMA FreshAppendLine ==
  ASSUME JournalAssumption, TypeOK, Fresh, AppendLine PROVE Fresh'
<1> DEFINE all == Append(live, Record)
<1>1. /\ sequence' = sequence + 1 /\ acked' = With(acked, sequence + 1, taken)
      /\ live' = IF Len(all) > LiveCount THEN Tail(all) ELSE all
  BY DEF AppendLine
<1>2. live \in Seq(Line) /\ Record \in Line /\ sequence \in Nat /\ LiveCount \in Nat \ {0}
  BY RecordType DEF TypeOK, InMemory, Counts, JournalAssumption
<1>3. Record = [seq |-> sequence + 1, event |-> taken]
  BY DEF Record
<1>4. acked'[sequence + 1] = taken /\ sequence + 1 \in DOMAIN acked'
      /\ \A n \in DOMAIN acked : n \in DOMAIN acked' /\ (n # sequence + 1 => acked'[n] = acked[n])
  BY <1>1 DEF With
<1>5. all \in Seq(Line) /\ Len(all) = Len(live) + 1 /\ all[Len(live) + 1] = Record
      /\ (\A i \in DOMAIN live : all[i] = live[i]) /\ DOMAIN all = 1 .. Len(all) /\ DOMAIN live = 1 .. Len(live)
      /\ Len(live) \in Nat
  BY <1>2
<1> HIDE DEF all
<1>6. ASSUME NEW i \in DOMAIN all
      PROVE  LET n == sequence' + i - Len(all)
             IN  n \in DOMAIN acked' /\ all[i] = [seq |-> n, event |-> acked'[n]]
  <2>1. CASE i \in DOMAIN live
    <3> DEFINE n == sequence + i - Len(live)
    <3>1. n \in DOMAIN acked /\ live[i] = [seq |-> n, event |-> acked[n]]
      BY <2>1 DEF Fresh, LiveFits
    <3>2. n # sequence + 1 /\ sequence' + i - Len(all) = n
      BY <2>1, <1>1, <1>2, <1>5
    <3> HIDE DEF n
    <3>3. all[i] = [seq |-> n, event |-> acked'[n]] /\ n \in DOMAIN acked'
      BY <2>1, <3>1, <3>2, <1>4, <1>5
    <3> QED
      BY <3>2, <3>3
  <2>2. CASE i = Len(live) + 1
    <3>1. sequence' + i - Len(all) = sequence + 1
      BY <2>2, <1>1, <1>2, <1>5
    <3> QED
      BY <2>2, <3>1, <1>3, <1>4, <1>5
  <2> QED
    BY <2>1, <2>2, <1>5
<1>7. Len(all) <= sequence'
  BY <1>1, <1>2, <1>5 DEF Fresh
<1>8. CASE live' = all
  BY <1>6, <1>7, <1>8 DEF Fresh, LiveFits
<1>9. CASE live' = Tail(all) /\ Len(all) > LiveCount
  <2>1. Len(live') = Len(all) - 1 /\ Len(live') \in Nat /\ DOMAIN live' = 1 .. Len(live')
        /\ \A i \in DOMAIN live' : i + 1 \in DOMAIN all /\ live'[i] = all[i + 1]
    BY <1>2, <1>5, <1>9
  <2>2. ASSUME NEW i \in DOMAIN live'
        PROVE  LET n == sequence' + i - Len(live')
               IN  n \in DOMAIN acked' /\ live'[i] = [seq |-> n, event |-> acked'[n]]
    <3>1. sequence' + i - Len(live') = sequence' + (i + 1) - Len(all)
      <4>1. i \in Nat /\ sequence' \in Nat /\ Len(all) \in Nat /\ Len(live') = Len(all) - 1
        <5>1. i \in Nat /\ Len(live') = Len(all) - 1
          BY <2>1
        <5>2. sequence' \in Nat /\ Len(all) \in Nat
          BY <1>1, <1>2, <1>5
        <5> QED
          BY <5>1, <5>2
      <4> QED
        BY <4>1
    <3>2. i + 1 \in DOMAIN all /\ live'[i] = all[i + 1]
      BY <2>1
    <3> DEFINE n == sequence' + (i + 1) - Len(all)
    <3>3. n \in DOMAIN acked' /\ all[i + 1] = [seq |-> n, event |-> acked'[n]]
      BY <3>2, <1>6
    <3> HIDE DEF n
    <3> QED
      BY <3>1, <3>2, <3>3 DEF n
  <2>3. Len(live') <= sequence'
    <3>1. sequence' \in Nat /\ Len(all) \in Nat /\ Len(live') = Len(all) - 1
      <4>1. Len(live') = Len(all) - 1
        BY <2>1
      <4>2. sequence' \in Nat /\ Len(all) \in Nat
        BY <1>1, <1>2, <1>5
      <4> QED
        BY <4>1, <4>2
    <3> QED
      BY <3>1, <1>7
  <2> QED
    BY <2>2, <2>3 DEF Fresh, LiveFits
<1> QED
  BY <1>1, <1>8, <1>9

LEMMA FreshStays ==
  ASSUME JournalAssumption, TypeOK, Up => Fresh, Next, Up'
  PROVE  Fresh'
<1> DEFINE Same == UNCHANGED <<sequence, live, acked>> /\ Up
<1>0. ASSUME Same PROVE Fresh'
  BY <1>0 DEF Fresh, LiveFits
<1> HIDE DEF Same
<1>1. CASE Open
  <2>1. live' = <<>> /\ sequence' \in Nat
    <3>1. PICK sealed, rows, id, lines, mine, order, kept, gone :
            Opened(sealed, rows, id, lines, mine, order, kept, gone)
      BY <1>1, Opening
    <3> QED
      BY <3>1 DEF Opened
  <2> QED
    BY <2>1 DEF Fresh, LiveFits
<1>2. CASE Switch
  <2>1. UNCHANGED <<state, acked>> /\ writer = "switch"
    BY <1>2 DEF Switch
  <2> QED
    BY <2>1, <1>0 DEF Same, Up, state
<1>3. CASE AppendLine
  <2>1. Up
    BY <1>3 DEF AppendLine, Up
  <2> QED
    BY <1>3, <2>1, FreshAppendLine
<1>4. CASE Crash
  BY <1>4 DEF Crash, Up
<1>5. CASE Pin
  <2>1. UNCHANGED <<state, history>> /\ writer = "idle"
    BY <1>5 DEF Pin
  <2> QED
    BY <2>1, <1>0 DEF Same, Up, state, history
<1>6. CASE Poll \/ Read
  <2>1. UNCHANGED <<sequence, live, acked>> /\ (Up' => Up)
    BY <1>6 DEF Poll, Read, Up, state, history
  <2> QED
    BY <2>1, <1>0 DEF Same
<1>7. CASE Take \/ FlushIndex \/ RenameIndex \/ RenameData
  <2>1. UNCHANGED <<sequence, live, acked>> /\ Up
    BY <1>7 DEF Take, FlushIndex, RenameIndex, RenameData, Up, state, history
  <2> QED
    BY <2>1, <1>0 DEF Same
<1>8. CASE PersistIndex \/ OpenFile \/ CutAppend
  <2>1. UNCHANGED <<sequence, live, acked>> /\ Up
    BY <1>8 DEF PersistIndex, OpenFile, CutAppend, Up, state, history
  <2> QED
    BY <2>1, <1>0 DEF Same
<1> QED
  BY <1>1, <1>2, <1>3, <1>4, <1>5, <1>6, <1>7, <1>8 DEF Next

-----------------------------------------------------------------------------
\* What the poller gets next is the event after its last one.
LEMMA PollAdvances ==
  ASSUME TypeOK, Poll, Fresh, poller.after <= sequence
  PROVE  \/ poller' = [after |-> sequence, from |-> sequence, got |-> {}]
         \/ poller' = poller
         \/ /\ poller.after + 1 \in DOMAIN acked /\ poller.after + 1 <= sequence
            /\ poller' = [poller EXCEPT !.after = poller.after + 1,
                                        !.got = @ \cup {acked[poller.after + 1]}]
<1> DEFINE after == poller.after
           news  == {i \in DOMAIN live : live[i].seq > after}
           first == live[Min(news)]
<1>1. poller' = IF LiveExpired(after)
                THEN [after |-> sequence, from |-> sequence, got |-> {}]
                ELSE IF news = {} THEN [poller EXCEPT !.after = sequence]
                ELSE [poller EXCEPT !.after = IF Cardinality(news) = 1 THEN sequence ELSE first.seq,
                                    !.got = @ \cup {first.event}]
  BY Zenon DEF Poll
<1>2. /\ after \in Nat /\ sequence \in Nat /\ DOMAIN live = 1 .. Len(live) /\ Len(live) \in Nat
      /\ poller = [after |-> poller.after, from |-> poller.from, got |-> poller.got]
  BY DEF TypeOK, Clients, Counts, InMemory
<1>3. \A i \in DOMAIN live : /\ live[i].seq = sequence + i - Len(live)
                             /\ sequence + i - Len(live) \in DOMAIN acked
                             /\ live[i].event = acked[sequence + i - Len(live)]
  <2> SUFFICES ASSUME NEW i \in DOMAIN live
               PROVE  /\ live[i].seq = sequence + i - Len(live)
                      /\ sequence + i - Len(live) \in DOMAIN acked
                      /\ live[i].event = acked[sequence + i - Len(live)]
    OBVIOUS
  <2> DEFINE n == sequence + i - Len(live)
  <2>1. n \in DOMAIN acked /\ live[i] = [seq |-> n, event |-> acked[n]]
    BY DEF Fresh, LiveFits
  <2> HIDE DEF n
  <2>2. n \in DOMAIN acked /\ live[i].seq = n /\ live[i].event = acked[n]
    BY <2>1
  <2> QED
    BY <2>2 DEF n
<1>4. CASE LiveExpired(after)
  BY <1>1, <1>4
<1>5. CASE ~LiveExpired(after)
  <2>1. after = sequence \/ (live # <<>> /\ ~(after + 1 < live[1].seq) /\ after < sequence)
    BY <1>2, <1>5 DEF LiveExpired
  <2>2. live # <<>> => 1 \in DOMAIN live /\ Len(live) \in DOMAIN live
    BY <1>2 DEF TypeOK, InMemory
  <2>3. CASE news = {}
    <3>1. after = sequence
      <4>1. ASSUME live # <<>>, after < sequence PROVE FALSE
        <5>1. live[Len(live)].seq = sequence
          BY <1>2, <1>3, <2>2, <4>1
        <5> QED
          BY <2>2, <2>3, <4>1, <5>1
      <4> QED
        BY <2>1, <4>1
    <3> QED
      BY <1>1, <1>2, <1>5, <2>3, <3>1
  <2>4. CASE news # {}
    <3> DEFINE k == Min(news)
    <3>1. k \in news /\ k \in Nat /\ \A y \in news : k <= y
      <4>1. news \subseteq Nat
        BY <1>2
      <4> HIDE DEF news
      <4> QED
        BY <4>1, <2>4, MinOf
    <3>2. k \in DOMAIN live /\ live[k].seq > after
      BY <3>1
    <3>3. \A i \in DOMAIN live : i < k => ~(live[i].seq > after)
      <4> SUFFICES ASSUME NEW i \in DOMAIN live, i < k, live[i].seq > after PROVE FALSE
        OBVIOUS
      <4>1. i \in news
        OBVIOUS
      <4> HIDE DEF news, k
      <4>2. k <= i /\ i \in Nat
        BY <3>1, <4>1, <1>2
      <4> QED
        BY <3>1, <4>2
    <3>4. live[k].seq = sequence + k - Len(live)
      BY <3>2, <1>3
    <3>9. news = {i \in DOMAIN live : live[i].seq > after} /\ first = live[k]
      OBVIOUS
    <3> HIDE DEF k, news, first
    <3>5. live[k].seq = after + 1
      <4>1. CASE k = 1
        <5>1. live[1].seq > after /\ live # <<>> /\ live[1].seq <= sequence /\ live[1].seq \in Int
          BY <1>2, <3>2, <3>4, <4>1
        <5>2. ~(after + 1 < live[1].seq)
          BY <1>2, <2>1, <5>1
        <5> QED
          BY <1>2, <4>1, <5>1, <5>2
      <4>2. CASE k > 1
        <5>1. k - 1 \in DOMAIN live /\ k - 1 < k
          BY <1>2, <3>1, <3>2, <4>2
        <5>2. ~(live[k - 1].seq > after) /\ live[k - 1].seq = sequence + (k - 1) - Len(live)
          BY <5>1, <3>3, <1>3
        <5> QED
          BY <1>2, <3>1, <3>2, <3>4, <5>2
      <4> QED
        BY <1>2, <3>1, <3>2, <4>1, <4>2
    <3>6. after + 1 \in DOMAIN acked /\ live[k].event = acked[after + 1] /\ after + 1 <= sequence
      BY <1>2, <1>3, <3>2, <3>4, <3>5
    <3>7. Cardinality(news) = 1 => sequence = after + 1
      <4> SUFFICES ASSUME Cardinality(news) = 1 PROVE sequence = after + 1
        OBVIOUS
      <4>1. IsFiniteSet(news)
        <5>1. IsFiniteSet(1 .. Len(live)) /\ news \in SUBSET (1 .. Len(live))
          BY <1>2, <3>9, FS_Interval
        <5> QED
          BY <5>1, FS_Subset
      <4>2. PICK x : news = {x}
        BY <4>1, FS_Singleton
      <4>3. Len(live) \in DOMAIN live /\ live[Len(live)].seq = sequence
        BY <1>2, <1>3, <3>2
      <4>4. live[Len(live)].seq > after
        BY <1>2, <3>6, <4>3
      <4>5. Len(live) = k
        BY <3>1, <3>9, <4>2, <4>3, <4>4
      <4> QED
        BY <4>3, <4>5, <3>5
    <3>8. poller' = [poller EXCEPT !.after = after + 1, !.got = @ \cup {acked[after + 1]}]
      <4>1. poller' = [poller EXCEPT !.after = IF Cardinality(news) = 1 THEN sequence ELSE first.seq,
                                     !.got = @ \cup {first.event}]
        BY <1>1, <1>5, <2>4
      <4>2. (IF Cardinality(news) = 1 THEN sequence ELSE first.seq) = after + 1
            /\ first.event = acked[after + 1]
        BY <3>5, <3>6, <3>7, <3>9
      <4> QED
        BY <4>1, <4>2
    <3> QED
      BY <3>6, <3>8
  <2> QED
    BY <2>3, <2>4
<1> QED
  BY <1>4, <1>5

\* What happens to the poller's place and to the sequences given.
LEMMA OneMore ==
  ASSUME NEW a, NEW from \in Nat, NEW to \in Nat, DOMAIN a \subseteq Nat, from <= to, to + 1 \in DOMAIN a
  PROVE  {a[n] : n \in {m \in DOMAIN a : from < m /\ m <= to + 1}}
           = {a[n] : n \in {m \in DOMAIN a : from < m /\ m <= to}} \cup {a[to + 1]}
<1>1. {m \in DOMAIN a : from < m /\ m <= to + 1} = {m \in DOMAIN a : from < m /\ m <= to} \cup {to + 1}
  OBVIOUS
<1> QED
  BY <1>1

\* An event that the poller has not seen.
LEMMA AppendGives ==
  ASSUME TypeOK, AppendLine, Marks, Polled
  PROVE  /\ Up /\ DOMAIN acked' = DOMAIN acked \cup {sequence + 1}
         /\ poller' = poller
         /\ Received(poller.from, poller.after)' = Received(poller.from, poller.after)
<1>1. /\ acked' = With(acked, sequence + 1, taken) /\ poller' = poller /\ Up
  BY DEF AppendLine, clients, Up
<1>2. /\ DOMAIN acked' = DOMAIN acked \cup {sequence + 1}
      /\ \A n \in DOMAIN acked : n # sequence + 1 => acked'[n] = acked[n]
  BY <1>1 DEF With
<1>3. /\ poller.after <= sequence /\ poller.after \in Nat /\ sequence \in Nat /\ DOMAIN acked \subseteq Nat
      /\ poller.from \in Nat
  BY <1>1 DEF Marks, Marked, TypeOK, Clients, Counts
<1> DEFINE S == {m \in DOMAIN acked : poller.from < m /\ m <= poller.after}
<1>4. {m \in DOMAIN acked' : poller.from < m /\ m <= poller.after} = S
  BY <1>2, <1>3
<1>5. \A n \in S : acked'[n] = acked[n]
  BY <1>2, <1>3
<1>6. Received(poller.from, poller.after)' = {acked'[n] : n \in S}
  BY <1>1, <1>4 DEF Received
<1> QED
  BY <1>1, <1>2, <1>5, <1>6 DEF Received

\* Other steps leave both alone.
LEMMA Unpolled ==
  ASSUME JournalAssumption, TypeOK, Next, ~Poll, ~AppendLine
  PROVE  UNCHANGED <<poller, acked>>
<1>1. CASE Open
  <2>1. PICK sealed, rows, id, lines, mine, order, kept, gone :
          Opened(sealed, rows, id, lines, mine, order, kept, gone)
    BY <1>1, Opening
  <2> QED
    BY <2>1 DEF Opened, clients
<1>2. CASE Switch
  <2>1. PICK kept, gone, free : Switched(kept, gone, free)
    BY <1>2, Switching
  <2> QED
    BY <2>1 DEF Switched, clients
<1>3. CASE Pin
  <2>1. UNCHANGED <<poller, history>>
    BY <1>3 DEF Pin
  <2> QED
    BY <2>1 DEF history
<1>4. CASE Read \/ Crash
  BY <1>4 DEF Read, Crash, history
<1>5. CASE Take \/ FlushIndex \/ RenameIndex \/ RenameData
  BY <1>5 DEF Take, FlushIndex, RenameIndex, RenameData, history, clients
<1>6. CASE PersistIndex \/ OpenFile \/ CutAppend
  BY <1>6 DEF PersistIndex, OpenFile, CutAppend, history, clients
<1> QED
  BY <1>1, <1>2, <1>3, <1>4, <1>5, <1>6 DEF Next

\* Every step keeps it.
LEMMA SequencedStep ==
  ASSUME JournalAssumption, TypeOK, Shape, Fit, Sequenced, Next PROVE Sequenced'
<1> SUFFICES ASSUME damage' \subseteq {"ghost"} PROVE Marks' /\ Polled' /\ (Up' => Ending' /\ Fresh')
  BY DEF Sequenced
<1>1. damage \subseteq damage'
  <2>1. CASE Open
    <3>1. PICK sealed, rows, id, lines, mine, order, kept, gone :
            Opened(sealed, rows, id, lines, mine, order, kept, gone)
      BY <2>1, Opening
    <3> QED
      BY <3>1 DEF Opened
  <2>2. CASE Switch
    BY <2>2 DEF Switch
  <2>3. CASE Pin
    <3>1. UNCHANGED history
      BY <2>3 DEF Pin
    <3> QED
      BY <3>1 DEF history
  <2>4. CASE Read \/ Crash \/ Poll \/ AppendLine
    BY <2>4 DEF Read, Crash, Poll, AppendLine, history
  <2>5. CASE Take \/ FlushIndex \/ RenameIndex \/ RenameData
    BY <2>5 DEF Take, FlushIndex, RenameIndex, RenameData, history
  <2>6. CASE PersistIndex \/ OpenFile \/ CutAppend
    BY <2>6 DEF PersistIndex, OpenFile, CutAppend, history
  <2> QED
    BY <2>1, <2>2, <2>3, <2>4, <2>5, <2>6 DEF Next
<1>2. damage \subseteq {"ghost"} /\ "stale" \notin damage
  BY <1>1
<1>3. Marks /\ Polled /\ (Up => Ending /\ Fresh)
  BY <1>2 DEF Sequenced
<1>4. Up' => Ending' /\ Fresh'
  BY <1>2, <1>3, EndingStays, FreshStays
<1>5. \A n \in Nat : Marked(n) => Marked(n)'
  BY <1>2, <1>3, MarkStays DEF Ending
<1>6. poller \in [after : Nat, from : Nat, got : SUBSET Nat] /\ DOMAIN acked \subseteq Nat
      /\ sequence \in Nat
  BY DEF TypeOK, Clients, Counts
<1>7. CASE Poll
  <2>1. Up /\ Up' /\ UNCHANGED <<sequence, acked>>
    BY <1>7 DEF Poll, Up, state, history
  <2>2. poller.after <= sequence /\ poller.from <= poller.after
    BY <1>3, <2>1 DEF Marks, Marked, Polled
  <2>3. \A n \in DOMAIN acked' : Marked(n)'
    BY <1>3, <1>5, <1>6, <2>1 DEF Marks
  <2>4. CASE poller' = [after |-> sequence, from |-> sequence, got |-> {}]
    <3>1. Received(sequence, sequence)' = {}
      <4>1. {m \in DOMAIN acked' : sequence' < m /\ m <= sequence'} = {}
        BY <1>6, <2>1
      <4> QED
        BY <2>1, <4>1 DEF Received
    <3>2. poller'.from = sequence' /\ poller'.after = sequence' /\ poller'.got = {}
      BY <2>1, <2>4
    <3>3. Polled'
      <4>1. Received(poller.from, poller.after)' = {}
        BY <3>1, <3>2 DEF Received
      <4> QED
        BY <1>6, <2>1, <3>2, <4>1 DEF Polled
    <3>4. Marks'
      BY <1>6, <2>1, <2>3, <3>2 DEF Marks, Marked
    <3> QED
      BY <3>3, <3>4, <1>4
  <2>5. CASE poller' = poller
    <3>1. Polled'
      BY <1>3, <2>1, <2>5 DEF Polled, Received
    <3>2. Marks'
      BY <2>1, <2>2, <2>3, <2>5 DEF Marks, Marked
    <3> QED
      BY <3>1, <3>2, <1>4
  <2>6. CASE /\ poller.after + 1 \in DOMAIN acked /\ poller.after + 1 <= sequence
             /\ poller' = [poller EXCEPT !.after = poller.after + 1,
                                         !.got = @ \cup {acked[poller.after + 1]}]
    <3>1. /\ poller'.after = poller.after + 1 /\ poller'.from = poller.from
          /\ poller'.got = poller.got \cup {acked[poller.after + 1]}
      BY <1>6, <2>6
    <3>2. Received(poller.from, poller.after + 1) = Received(poller.from, poller.after) \cup {acked[poller.after + 1]}
      <4>1. poller.from \in Nat /\ poller.after \in Nat
        BY <1>6
      <4> QED
        BY <4>1, <1>6, <2>2, <2>6, OneMore DEF Received
    <3>3. Polled'
      <4>1. poller'.from <= poller'.after
        BY <1>6, <2>2, <3>1
      <4>2. poller'.got = Received(poller'.from, poller'.after)
        BY <1>3, <3>1, <3>2 DEF Polled
      <4> QED
        BY <2>1, <4>1, <4>2 DEF Polled, Received
    <3>4. Marks'
      BY <2>1, <2>3, <2>6, <3>1 DEF Marks, Marked
    <3> QED
      BY <3>3, <3>4, <1>4
  <2> QED
    BY <1>3, <1>4, <1>7, <2>1, <2>2, <2>4, <2>5, <2>6, PollAdvances
<1>8. CASE AppendLine
  <2>1. /\ Up /\ DOMAIN acked' = DOMAIN acked \cup {sequence + 1}
        /\ poller' = poller
        /\ Received(poller.from, poller.after)' = Received(poller.from, poller.after)
    BY <1>3, <1>8, AppendGives
  <2>2. Up' /\ sequence' = sequence + 1
    BY <1>8 DEF AppendLine, Up
  <2>3. Marks'
    BY <1>3, <1>5, <1>6, <2>1, <2>2 DEF Marks, Marked
  <2>4. Polled'
    BY <1>3, <2>1 DEF Polled
  <2> QED
    BY <1>4, <2>3, <2>4
<1>9. CASE ~Poll /\ ~AppendLine
  <2>1. UNCHANGED <<poller, acked>>
    BY <1>9, Unpolled
  <2>2. Marks'
    BY <1>3, <1>5, <1>6, <2>1 DEF Marks
  <2>3. Polled'
    BY <1>3, <2>1 DEF Polled, Received
  <2> QED
    BY <1>4, <2>2, <2>3
<1> QED
  BY <1>7, <1>8, <1>9

\* And it is what the property says.
LEMMA MissesNothing == ASSUME Sequenced PROVE PollerMissesNothing
  BY DEF Sequenced, Polled, Received, PollerMissesNothing

-----------------------------------------------------------------------------
(* The archives in order.                                                  *)

\* The sealed files, and what of them is above or below p, or above another.
Sealed == DOMAIN files \ {Active}
Inhabited(lines)   == \E i \in DOMAIN lines : lines[i].seq > 0
NewLines(lines, p) == \A i \in DOMAIN lines : lines[i].seq > 0 => lines[i].seq > p
OldLines(lines, p) == \A i \in DOMAIN lines : lines[i].seq <= p
Over(a, b) == \A i \in DOMAIN a : \A j \in DOMAIN b : a[i].seq > 0 => b[j].seq < a[i].seq

\* The history has no hole above what was pruned.
Has(n) == \E g \in DOMAIN files : \E j \in DOMAIN files[g] : files[g][j].seq = n
Filled == \A f \in DOMAIN files : \A i \in DOMAIN files[f] : \A n \in pruned + 1 .. files[f][i].seq : Has(n)

\* A sealed file has a record, and was pruned as a whole or not at all.
Classes ==
  /\ \A f \in Sealed : Inhabited(files[f]) /\ (NewLines(files[f], pruned) \/ OldLines(files[f], pruned))
  /\ Active \in DOMAIN files => NewLines(files[Active], pruned)

\* While the process is down, the files that were not pruned are in order, and
\* there are enough of them if a pruned one is left: a start keeps none of it.
Fresher == {f \in Sealed : NewLines(files[f], pruned)}
Ranks ==
  /\ \A f, g \in Fresher : f # g => Over(files[f], files[g]) \/ Over(files[g], files[f])
  /\ (\E f \in Sealed : OldLines(files[f], pruned)) => Cardinality(Fresher) >= Retained

\* While it runs, the archives are in order, above what was pruned.
Ordered ==
  /\ \A i, j \in DOMAIN archives : i < j => Over(files[archives[i]], files[archives[j]])
  /\ Moved => \A i \in DOMAIN archives : Over(files[active], files[archives[i]])
  /\ \A f \in ({active} \cup ToSet(archives)) \cap DOMAIN files : NewLines(files[f], pruned)
  /\ \A f \in retired \cap DOMAIN files : OldLines(files[f], pruned)
  /\ retired # {} => Len(archives) = Retained

\* A page is in the order of the sequences, without a hole.
Ranked(p) ==
  /\ \A r, q \in p : r # q => r.seq # q.seq /\ (Newer(r, q) <=> r.seq > q.seq)
  /\ \A r, q \in p : \A n \in q.seq .. r.seq : \E x \in p : x.seq = n

\* What a query pinned can be read, and goes on where the reader is.
Pinned ==
  LET p == reader.pinned
  IN  /\ \A r \in p : r.segment \in 1 .. drawn /\ r.seq > 0 /\ Readable(r)
      /\ Ranked(p)
      /\ p # {} /\ reader.last # 0 => \E r \in p : r.seq = reader.last - 1 /\ \A q \in p : q.seq <= r.seq
      /\ p # {} => Up

\* The event before the reader's place is where its cursor says, by the name
\* that the segment's file has now.
There(f) ==
  /\ f \in DOMAIN files /\ reader.cursor.at \in DOMAIN files[f]
  /\ files[f][reader.cursor.at].seq = reader.last - 1

\* While the file is events.jsonl, its index, or the store, names the segment.
Cursor ==
  LET s == reader.cursor.segment
  IN  reader.last # 0 =>
        /\ s \in 1 .. drawn
        /\ reader.last > 1
        /\ s \in DOMAIN files => There(s)
        /\ s \notin DOMAIN files /\ Active \in DOMAIN index /\ index[Active].id = s => There(Active)
        /\ s \notin DOMAIN files /\ Up /\ active = s => There(Active)

\* What was pruned and what was read had a sequence.
Bounds == Marked(pruned) /\ reader.last \in Nat /\ Marked(reader.last)

\* All that PagesContinue needs.
Pages ==
  damage = {} => Bounds /\ Filled /\ Classes /\ (IF Up THEN Ordered ELSE Ranks) /\ Pinned /\ Cursor

-----------------------------------------------------------------------------

\* A file above p is over one that is not.
LEMMA OverPruned ==
  ASSUME NEW a \in Seq(Line), NEW b \in Seq(Line), NEW p \in Nat, NewLines(a, p), OldLines(b, p)
  PROVE  Over(a, b)
<1>1. (\A i \in DOMAIN a : a[i] \in Line) /\ \A j \in DOMAIN b : b[j] \in Line
  OBVIOUS
<1>2. (\A i \in DOMAIN a : a[i].seq \in Nat) /\ \A j \in DOMAIN b : b[j].seq \in Nat
  BY <1>1 DEF Line
<1> QED
  BY <1>2 DEF NewLines, OldLines, Over

\* A file with a record is not both.
LEMMA NotBoth ==
  ASSUME NEW a \in Seq(Line), NEW p \in Nat, Inhabited(a), NewLines(a, p), OldLines(a, p)
  PROVE  FALSE
<1>1. \A i \in DOMAIN a : a[i] \in Line
  OBVIOUS
<1>2. \A i \in DOMAIN a : a[i].seq \in Nat
  BY <1>1 DEF Line
<1> QED
  BY <1>2 DEF NewLines, OldLines, Inhabited

\* What was pruned stays pruned.
LEMMA OldStays ==
  ASSUME NEW a \in Seq(Line), NEW p \in Nat, NEW q \in Nat, p <= q, OldLines(a, p)
  PROVE  OldLines(a, q)
<1>1. \A i \in DOMAIN a : a[i] \in Line
  OBVIOUS
<1>2. \A i \in DOMAIN a : a[i].seq \in Nat
  BY <1>1 DEF Line
<1> QED
  BY <1>2 DEF OldLines

\* The last sequence of the rows is that of the lines.
LEMMA RowsLast ==
  ASSUME NEW lines \in Seq(Line), NEW rows \in RowSets, Digest(rows, lines),
         \A i \in DOMAIN lines : Held(rows, lines[i])
  PROVE  /\ LastSequence(rows) \in Nat
         /\ \A i \in DOMAIN lines : lines[i].seq <= LastSequence(rows) /\ lines[i].seq \in Nat
         /\ LastSequence(rows) = 0 \/ \E i \in DOMAIN lines : lines[i].seq = LastSequence(rows)
         /\ Inhabited(lines) => LastSequence(rows) > 0
<1>1. LastSequence(rows) \in Nat
      /\ (LastSequence(rows) = 0 \/ \E r \in rows : r.seq = LastSequence(rows))
  BY LastFacts DEF RowSets
<1>2. \A i \in DOMAIN lines : lines[i] \in Line
  OBVIOUS
<1>3. \A i \in DOMAIN lines : lines[i].seq <= LastSequence(rows) /\ lines[i].seq \in Nat
  BY <1>2, LastHeld DEF Line
<1>4. \A r \in rows : r.at \in DOMAIN lines /\ lines[r.at].seq = r.seq
  BY DEF Digest, RowsAt
<1> QED
  BY <1>1, <1>3, <1>4 DEF Inhabited

\* Of two files in order, the one with the greater last sequence is over the
\* other.
LEMMA OverByLast ==
  ASSUME NEW a \in Seq(Line), NEW b \in Seq(Line), NEW m \in Nat, NEW n \in Nat, m >= n, n > 0,
         \A i \in DOMAIN a : a[i].seq <= m, \E i \in DOMAIN a : a[i].seq = m,
         \E i \in DOMAIN b : b[i].seq = n,
         Over(a, b) \/ Over(b, a)
  PROVE  Over(a, b)
<1>1. ASSUME Over(b, a) PROVE FALSE
  <2>1. PICK i \in DOMAIN a : a[i].seq = m
    OBVIOUS
  <2>2. PICK j \in DOMAIN b : b[j].seq = n
    OBVIOUS
  <2>3. m < n
    BY <1>1, <2>1, <2>2 DEF Over
  <2> QED
    BY <2>3
<1> QED
  BY <1>1

\* Lines of another file that is not above p.
LEMMA OverLast ==
  ASSUME NEW a \in Seq(Line), NEW b \in Seq(Line), NEW p \in Nat, Over(a, b),
         p = 0 \/ \E j \in DOMAIN b : b[j].seq = p
  PROVE  NewLines(a, p)
<1>1. \A i \in DOMAIN a : a[i] \in Line
  OBVIOUS
<1>2. \A i \in DOMAIN a : a[i].seq \in Nat
  BY <1>1 DEF Line
<1> QED
  BY <1>2 DEF NewLines, Over

-----------------------------------------------------------------------------

\* Accidents are not forgotten.
LEMMA DamageGrows == ASSUME JournalAssumption, TypeOK, Next PROVE damage \subseteq damage'
<1>1. CASE Open
  <2>1. PICK sealed, rows, id, lines, mine, order, kept, gone :
          Opened(sealed, rows, id, lines, mine, order, kept, gone)
    BY <1>1, Opening
  <2> QED
    BY <2>1 DEF Opened
<1>2. CASE Switch
  BY <1>2 DEF Switch
<1>3. CASE Pin
  <2>1. UNCHANGED history
    BY <1>3 DEF Pin
  <2> QED
    BY <2>1 DEF history
<1>4. CASE Read \/ Crash \/ Poll \/ AppendLine
  BY <1>4 DEF Read, Crash, Poll, AppendLine, history
<1>5. CASE Take \/ FlushIndex \/ RenameIndex \/ RenameData
  BY <1>5 DEF Take, FlushIndex, RenameIndex, RenameData, history
<1>6. CASE PersistIndex \/ OpenFile \/ CutAppend
  BY <1>6 DEF PersistIndex, OpenFile, CutAppend, history
<1> QED
  BY <1>1, <1>2, <1>3, <1>4, <1>5, <1>6 DEF Next

\* The last sequence has a line.
LEMMA SequenceLine ==
  ASSUME TypeOK, Shape, Fit, "stale" \notin damage, Up, LastRow
  PROVE  sequence = 0 \/ \E f \in DOMAIN files : \E i \in DOMAIN files[f] : files[f][i].seq = sequence
<1>1. \A id \in DOMAIN offsets : \A r \in offsets[id] :
        \E f \in DOMAIN files : \E i \in DOMAIN files[f] : files[f][i].seq = r.seq
  BY RowLine
<1>2. active \in DOMAIN offsets /\ (archives # <<>> => archives[1] \in DOMAIN offsets)
  <2>1. archives # <<>> => archives[1] \in ToSet(archives)
    BY DEF TypeOK, InMemory, ToSet
  <2> QED
    BY <2>1, LinesFacts
<1> QED
  BY <1>1, <1>2 DEF LastRow

\* Every sequence that is not pruned has a line.
LEMMA AllHas ==
  ASSUME TypeOK, Shape, Fit, "stale" \notin damage, Up, LastRow, Filled,
         NEW n \in Nat, pruned < n, n <= sequence
  PROVE  Has(n)
<1>1. pruned \in Nat /\ sequence \in Nat
  BY DEF TypeOK, Counts
<1>2. PICK f \in DOMAIN files : \E i \in DOMAIN files[f] : files[f][i].seq = sequence
  BY <1>1, SequenceLine
<1>3. n \in pruned + 1 .. sequence
  BY <1>1
<1> QED
  BY <1>2, <1>3 DEF Filled

LEMMA Narrower ==
  ASSUME NEW p \in Nat, NEW q \in Nat, p <= q, NEW s \in Nat, NEW n \in q + 1 .. s
  PROVE  n \in p + 1 .. s /\ n \in Nat /\ n > q
  OBVIOUS

\* No hole comes from lines that are kept.
LEMMA FilledKept ==
  ASSUME TypeOK, Filled, Kept, pruned' \in Nat, pruned <= pruned',
         \A f \in DOMAIN files' : \A i \in DOMAIN files'[f] :
           \E g \in DOMAIN files : \E j \in DOMAIN files[g] : files[g][j] = files'[f][i]
  PROVE  Filled'
<1> SUFFICES ASSUME NEW f \in DOMAIN files', NEW i \in DOMAIN files'[f], NEW n \in pruned' + 1 .. files'[f][i].seq
             PROVE  Has(n)'
  BY DEF Filled
<1>1. PICK g \in DOMAIN files : \E j \in DOMAIN files[g] : files[g][j] = files'[f][i]
  OBVIOUS
<1>2. PICK j \in DOMAIN files[g] : files[g][j] = files'[f][i]
  BY <1>1
<1>3. pruned \in Nat /\ files[g][j].seq \in Nat
  BY LinesSeq DEF TypeOK, Counts
<1> DEFINE s == files[g][j].seq
<1>10. n \in pruned' + 1 .. s /\ s \in Nat
  BY <1>2, <1>3
<1> HIDE DEF s
<1>11. n \in pruned + 1 .. s /\ n \in Nat /\ n > pruned'
  BY <1>3, <1>10, Narrower
<1>4. n \in pruned + 1 .. files[g][j].seq /\ n \in Nat /\ n > pruned'
  BY <1>11 DEF s
<1>5. Has(n)
  BY <1>4 DEF Filled
<1>6. PICK h \in DOMAIN files : \E k \in DOMAIN files[h] : files[h][k].seq = n
  BY <1>5 DEF Has
<1>7. PICK k \in DOMAIN files[h] : files[h][k].seq = n
  BY <1>6
<1>8. ~(files[h][k].seq <= pruned')
  BY <1>4, <1>7
<1>9. \E g2 \in DOMAIN files' : \E j2 \in DOMAIN files'[g2] : files'[g2][j2] = files[h][k]
  BY <1>8 DEF Kept
<1> QED
  BY <1>7, <1>9 DEF Has

\* The files with a line more at the end of events.jsonl.
LEMMA AppendFacts ==
  ASSUME TypeOK, Active \in DOMAIN files, NEW x, files' = [files EXCEPT ![Active] = Append(files[Active], x)]
  PROVE  /\ DOMAIN files' = DOMAIN files
         /\ \A f \in DOMAIN files : f # Active => files'[f] = files[f]
         /\ \A f \in DOMAIN files : \A i \in DOMAIN files[f] : i \in DOMAIN files'[f] /\ files'[f][i] = files[f][i]
         /\ \A f \in DOMAIN files' : \A i \in DOMAIN files'[f] :
              (i \in DOMAIN files[f] /\ files'[f][i] = files[f][i]) \/ (f = Active /\ files'[f][i] = x)
         /\ \E i \in DOMAIN files'[Active] : files'[Active][i] = x
<1>1. files[Active] \in Seq(Line)
  BY LinesSeq
<1> DEFINE more == Append(files[Active], x)
<1>2. /\ \A i \in DOMAIN files[Active] : i \in DOMAIN more /\ more[i] = files[Active][i]
      /\ \A i \in DOMAIN more : (i \in DOMAIN files[Active] /\ more[i] = files[Active][i]) \/ more[i] = x
      /\ Len(files[Active]) + 1 \in DOMAIN more /\ more[Len(files[Active]) + 1] = x
  BY <1>1
<1>3. /\ DOMAIN files' = DOMAIN files /\ files'[Active] = more
      /\ \A f \in DOMAIN files : f # Active => files'[f] = files[f]
  OBVIOUS
<1> HIDE DEF more
<1>4. ASSUME NEW f \in DOMAIN files, NEW i \in DOMAIN files[f] PROVE i \in DOMAIN files'[f] /\ files'[f][i] = files[f][i]
  BY <1>2, <1>3
<1>5. ASSUME NEW f \in DOMAIN files', NEW i \in DOMAIN files'[f]
      PROVE  (i \in DOMAIN files[f] /\ files'[f][i] = files[f][i]) \/ (f = Active /\ files'[f][i] = x)
  BY <1>2, <1>3
<1>6. \E i \in DOMAIN files'[Active] : files'[Active][i] = x
  BY <1>2, <1>3
<1> QED
  BY <1>3, <1>4, <1>5, <1>6

LEMMA FilledAppend ==
  ASSUME TypeOK, Shape, Fit, "stale" \notin damage, Up, LastRow, Filled, Active \in DOMAIN files,
         NEW x \in {Garbage, Record}, files' = [files EXCEPT ![Active] = Append(files[Active], x)],
         pruned' = pruned
  PROVE  Filled'
<1>1. /\ DOMAIN files' = DOMAIN files
      /\ \A f \in DOMAIN files : \A i \in DOMAIN files[f] : i \in DOMAIN files'[f] /\ files'[f][i] = files[f][i]
      /\ \A f \in DOMAIN files' : \A i \in DOMAIN files'[f] :
           (i \in DOMAIN files[f] /\ files'[f][i] = files[f][i]) \/ (f = Active /\ files'[f][i] = x)
      /\ \E i \in DOMAIN files'[Active] : files'[Active][i] = x
  BY AppendFacts
<1>2. \A n : Has(n) => Has(n)'
  BY <1>1 DEF Has
<1>3. pruned \in Nat /\ sequence \in Nat
  BY DEF TypeOK, Counts
<1> SUFFICES ASSUME NEW f \in DOMAIN files', NEW i \in DOMAIN files'[f], NEW n \in pruned' + 1 .. files'[f][i].seq
             PROVE  Has(n)'
  BY DEF Filled
<1>4. CASE i \in DOMAIN files[f] /\ files'[f][i] = files[f][i]
  BY <1>1, <1>2, <1>4 DEF Filled
<1>5. CASE f = Active /\ files'[f][i] = Garbage
  BY <1>3, <1>5 DEF Garbage
<1>6. CASE f = Active /\ files'[f][i] = Record
  <2>1. files'[f][i].seq = sequence + 1 /\ n \in pruned + 1 .. sequence + 1
    BY <1>6 DEF Record
  <2>2. CASE n = sequence + 1
    BY <2>1, <2>2 DEF Has
  <2>3. CASE n <= sequence
    <3>1. n \in Nat /\ pruned < n
      BY <1>3, <2>1
    <3> QED
      BY <2>3, <3>1, <1>2, AllHas
  <2> QED
    BY <1>3, <2>1, <2>2, <2>3
<1> QED
  BY <1>1, <1>4, <1>5, <1>6

LEMMA ClassesAppend ==
  ASSUME TypeOK, Classes, pruned <= sequence, Active \in DOMAIN files,
         NEW x \in {Garbage, Record}, files' = [files EXCEPT ![Active] = Append(files[Active], x)],
         pruned' = pruned
  PROVE  Classes'
<1>1. /\ DOMAIN files' = DOMAIN files
      /\ \A f \in DOMAIN files : f # Active => files'[f] = files[f]
      /\ \A f \in DOMAIN files' : \A i \in DOMAIN files'[f] :
           (i \in DOMAIN files[f] /\ files'[f][i] = files[f][i]) \/ (f = Active /\ files'[f][i] = x)
  BY AppendFacts
<1>2. pruned \in Nat /\ sequence \in Nat
  BY DEF TypeOK, Counts
<1>3. x.seq = 0 \/ x.seq > pruned
  BY <1>2 DEF Garbage, Record
<1>4. NewLines(files'[Active], pruned)
  BY <1>1, <1>2, <1>3 DEF NewLines, Classes
<1> QED
  BY <1>1, <1>4 DEF Classes, Sealed

\* What the store knows of its files suffices a start.
LEMMA OrderedRanks ==
  ASSUME JournalAssumption, TypeOK, Shape, Up, Classes, Ordered
  PROVE  Ranks
<1>1. Segmented /\ pruned \in Nat /\ Retained \in Nat \ {0} /\ archives \in Seq(1 .. drawn) /\ drawn \in Nat
      /\ DOMAIN files \subseteq 0 .. drawn
  BY DEF Shape, TypeOK, Counts, InMemory, OnDisk, JournalAssumption
<1>2. ASSUME NEW f \in Sealed, f \in retired, NewLines(files[f], pruned) PROVE FALSE
  <2>1. files[f] \in Seq(Line) /\ Inhabited(files[f]) /\ OldLines(files[f], pruned)
    BY <1>2, LinesSeq DEF Sealed, Classes, Ordered
  <2> QED
    BY <1>1, <1>2, <2>1, NotBoth
<1>3. ASSUME NEW f \in Sealed, f \notin retired PROVE NewLines(files[f], pruned) /\ (f \in ToSet(archives) \/ (f = active /\ Moved))
  <2>1. f \in {active} \cup ToSet(archives)
    BY <1>1, <1>3 DEF Segmented, Sealed
  <2> QED
    BY <1>1, <2>1 DEF Ordered, Sealed, Segmented
<1>4. ASSUME NEW f \in Fresher, NEW g \in Fresher, f # g
      PROVE  Over(files[f], files[g]) \/ Over(files[g], files[f])
  <2>1. (f \in ToSet(archives) \/ (f = active /\ Moved)) /\ (g \in ToSet(archives) \/ (g = active /\ Moved))
    BY <1>2, <1>3 DEF Fresher
  <2>2. CASE f \in ToSet(archives) /\ g \in ToSet(archives)
    <3>1. PICK i \in DOMAIN archives : f = archives[i]
      BY <2>2 DEF ToSet
    <3>2. PICK j \in DOMAIN archives : g = archives[j]
      BY <2>2 DEF ToSet
    <3>3. i # j /\ i \in Nat /\ j \in Nat
      BY <1>1, <1>4, <3>1, <3>2
    <3>4. i < j \/ j < i
      BY <3>3
    <3> QED
      BY <3>1, <3>2, <3>4 DEF Ordered
  <2>3. CASE f = active /\ g \in ToSet(archives)
    BY <2>1, <2>3, <1>1 DEF Ordered, ToSet, Segmented
  <2>4. CASE g = active /\ f \in ToSet(archives)
    BY <2>1, <2>4, <1>1 DEF Ordered, ToSet, Segmented
  <2> QED
    BY <1>4, <2>1, <2>2, <2>3, <2>4
<1>5. ASSUME NEW f \in Sealed, OldLines(files[f], pruned) PROVE Cardinality(Fresher) >= Retained
  <2>1. files[f] \in Seq(Line) /\ Inhabited(files[f])
    BY LinesSeq DEF Sealed, Classes
  <2>2. f \in retired
    BY <1>1, <1>3, <1>5, <2>1, NotBoth
  <2>3. Len(archives) = Retained
    BY <2>2 DEF Ordered
  <2>4. ToSet(archives) \subseteq Fresher
    <3> SUFFICES ASSUME NEW g \in ToSet(archives) PROVE g \in Fresher
      OBVIOUS
    <3>1. g \in DOMAIN files /\ g # Active
      BY <1>1, IdsFacts DEF Segmented, Active
    <3>2. NewLines(files[g], pruned)
      BY <3>1 DEF Ordered
    <3> QED
      BY <3>1, <3>2 DEF Fresher, Sealed
  <2>5. IsFiniteSet(Fresher)
    <3>1. IsFiniteSet(0 .. drawn) /\ Fresher \in SUBSET (0 .. drawn)
      BY <1>1, FS_Interval DEF Fresher, Sealed
    <3> QED
      BY <3>1, FS_Subset
  <2>6. archives \in Injection(1 .. Retained, Fresher)
    <3>1. archives \in [1 .. Retained -> Fresher]
      <4>1. archives \in [1 .. Len(archives) -> 1 .. drawn] /\ \A i \in DOMAIN archives : archives[i] \in ToSet(archives)
        BY <1>1 DEF ToSet
      <4> QED
        BY <2>3, <2>4, <4>1
    <3> QED
      BY <1>1, <3>1 DEF Injection, IsInjective, Segmented
  <2>7. Cardinality(1 .. Retained) <= Cardinality(Fresher)
    BY <2>5, <2>6, FS_Injection
  <2>8. Cardinality(1 .. Retained) = Retained
    <3>1. 1 \in Int /\ Retained \in Int /\ ~(1 > Retained) /\ Retained - 1 + 1 = Retained
      BY <1>1
    <3> QED
      BY <3>1, FS_Interval
  <2>9. Cardinality(Fresher) \in Nat
    BY <2>5, FS_CardinalityType
  <2> QED
    BY <1>1, <2>7, <2>8, <2>9
<1> QED
  BY <1>4, <1>5 DEF Ranks

\* What Pages says of the files.
Archived == Filled /\ Classes /\ (IF Up THEN Ordered ELSE Ranks)

\* Steps that leave the files and the archives alone.
LEMMA ArchivedKeeps ==
  ASSUME Archived, UNCHANGED <<files, active, archives, retired, pruned>>, Up, Up', Moved' <=> Moved
  PROVE  Archived'
BY DEF Archived, Filled, Has, Classes, Sealed, Ordered

LEMMA ArchivedRenameData ==
  ASSUME TypeOK, Shape, Fit, Archived, damage = {}, damage' = {}, RenameData
  PROVE  Archived'
<1>1. /\ writer = "rename" /\ UNCHANGED <<active, archives, retired, pruned>> /\ Up /\ Up'
  BY DEF RenameData, store, Up
<1>2. /\ Active \in DOMAIN files /\ active \notin DOMAIN files /\ active # Active
      /\ ToSet(archives) \subseteq DOMAIN files /\ Active \notin ToSet(archives)
      /\ Active \notin retired /\ active \notin retired /\ pruned \in Nat
  BY <1>1, IdsFacts DEF Shape, Phases, Moved, Segmented, TypeOK, Counts, InMemory, Active
<1>3. Filled /\ Classes /\ Ordered
  BY <1>1 DEF Archived
<1>4. CASE UNCHANGED files /\ writer' = "idle"
  BY <1>1, <1>4, ArchivedKeeps DEF Moved
<1>5. CASE files' = With(Without(files, {Active}), active, files[Active]) /\ offsets[active] # {}
  <2>1. /\ DOMAIN files' = (DOMAIN files \ {Active}) \cup {active}
        /\ files'[active] = files[Active]
        /\ \A f \in DOMAIN files' : f # active => f \in DOMAIN files /\ f # Active /\ files'[f] = files[f]
    BY <1>2, <1>5 DEF With, Without
  <2>2. Filled'
    <3>1. Kept
      BY <2>1, <1>2 DEF Kept
    <3>2. \A f \in DOMAIN files' : \A i \in DOMAIN files'[f] :
            \E g \in DOMAIN files : \E j \in DOMAIN files[g] : files[g][j] = files'[f][i]
      BY <2>1, <1>2
    <3> QED
      BY <1>1, <1>2, <1>3, <3>1, <3>2, FilledKept
  <2>3. Inhabited(files[Active])
    <3>1. active \in DOMAIN offsets /\ LinesOf(active) = files[Active]
      BY <1>1, <1>2, LinesFacts
    <3>2. Digest(offsets[active], files[Active])
      BY <1>1, <3>1 DEF Fit, Fits
    <3> QED
      BY <1>5, <3>2 DEF Digest, RowsAt, Inhabited
  <2>4. Classes'
    BY <1>1, <1>2, <1>3, <2>1, <2>3 DEF Classes, Sealed
  <2>5. Ordered'
    <3>1. \A i \in DOMAIN archives : archives[i] \in DOMAIN files /\ archives[i] # Active /\ archives[i] # active
                                     /\ files'[archives[i]] = files[archives[i]]
      <4>1. \A i \in DOMAIN archives : archives[i] \in ToSet(archives)
        BY DEF ToSet
      <4> QED
        BY <4>1, <1>2, <2>1
    <3>2. ASSUME NEW i \in DOMAIN archives PROVE Over(files'[active], files'[archives[i]])
      <4>1. FileOrder /\ ~Ghost
        BY DEF Fit, Ghost
      <4> QED
        BY <1>2, <2>1, <3>1, <4>1 DEF FileOrder, Over
    <3> QED
      BY <1>1, <1>2, <1>3, <2>1, <3>1, <3>2 DEF Ordered, Classes
  <2> QED
    BY <1>1, <2>2, <2>4, <2>5 DEF Archived
<1> QED
  BY <1>4, <1>5 DEF RenameData

\* The sealed segment, once it is renamed, is the newest archive.
LEMMA IdsOrder ==
  ASSUME TypeOK, Shape, Up, Moved, Ordered
  PROVE  /\ \A i, j \in DOMAIN Ids : i < j => Over(files[Ids[i]], files[Ids[j]])
         /\ \A i \in DOMAIN Ids : Ids[i] \in DOMAIN files /\ Ids[i] # Active /\ NewLines(files[Ids[i]], pruned)
<1>1. /\ Ids \in Seq(0 .. drawn) /\ Len(Ids) = Len(archives) + 1
      /\ Ids[1] = active
      /\ \A i \in DOMAIN Ids : i = 1 \/ (i - 1 \in DOMAIN archives /\ Ids[i] = archives[i - 1])
      /\ ToSet(Ids) = {active} \cup ToSet(archives) /\ ToSet(archives) \subseteq 1 .. drawn
  BY IdsFacts
<1>2. DOMAIN Ids \subseteq Nat \ {0}
  BY <1>1
<1>3. ASSUME NEW i \in DOMAIN Ids, NEW j \in DOMAIN Ids, i < j PROVE Over(files[Ids[i]], files[Ids[j]])
  <2>1. i \in Nat \ {0} /\ j \in Nat \ {0}
    BY <1>2
  <2>2. j - 1 \in DOMAIN archives /\ Ids[j] = archives[j - 1]
    BY <1>1, <1>3, <2>1
  <2>3. CASE i = 1
    BY <1>1, <2>2, <2>3 DEF Ordered
  <2>4. CASE i # 1
    <3>1. i - 1 \in DOMAIN archives /\ Ids[i] = archives[i - 1] /\ i - 1 < j - 1
      BY <1>1, <1>3, <2>1, <2>4
    <3> QED
      BY <2>2, <3>1 DEF Ordered
  <2> QED
    BY <2>3, <2>4
<1>4. \A i \in DOMAIN Ids : Ids[i] \in {active} \cup ToSet(archives)
  BY <1>1 DEF ToSet
<1>5. active \in DOMAIN files /\ ToSet(archives) \subseteq DOMAIN files /\ Active \notin DOMAIN files
  BY DEF Shape, Segmented, Phases
<1> QED
  BY <1>3, <1>4, <1>5 DEF Ordered

\* Pruning takes the oldest archive, whole.
LEMMA ArchivedSwitch ==
  ASSUME JournalAssumption, TypeOK, Shape, Fit, Archived, damage = {}, Switch
  PROVE  Archived'
<1>1. PICK kept, gone, free : Switched(kept, gone, free)
  BY Switching
<1>2. /\ writer = "switch" /\ writer' = "persist" /\ active' = drawn + 1 /\ archives' = kept
      /\ kept \in Seq(1 .. drawn)
      /\ Len(kept) = IF Len(Ids) > Retained THEN Retained ELSE Len(Ids)
      /\ Len(kept) \in 1 .. Len(Ids) /\ DOMAIN kept = 1 .. Len(kept)
      /\ \A i \in DOMAIN kept : i \in DOMAIN Ids /\ kept[i] = Ids[i]
      /\ gone = ({active} \cup ToSet(archives)) \ ToSet(kept) /\ gone \subseteq ToSet(archives)
      /\ free = gone \ Leased /\ files' = Without(files, free)
      /\ retired' = retired \cup (gone \cap Leased)
      /\ pruned' \in Nat /\ pruned' >= pruned
      /\ \A f \in gone : offsets[f] \in RowSets /\ pruned' >= LastSequence(offsets[f])
      /\ pruned' = pruned \/ \E f \in gone : pruned' = LastSequence(offsets[f])
  BY <1>1 DEF Switched
<1>3. Up /\ Up' /\ Moved /\ ~Moved' /\ Filled /\ Classes /\ Ordered /\ pruned \in Nat /\ drawn \in Nat
      /\ DOMAIN files \subseteq 0 .. drawn
      /\ (\A id \in DOMAIN offsets : Fits(id)) /\ ~Ghost /\ Segmented /\ Phases /\ Active \notin DOMAIN files
  BY <1>2 DEF Archived, Up, Moved, TypeOK, Counts, OnDisk, Fit, Ghost, Shape, Phases
<1>4. DOMAIN files' = DOMAIN files \ free /\ \A f \in DOMAIN files' : files'[f] = files[f]
  BY <1>2 DEF Without
<1>5. /\ \A i, j \in DOMAIN Ids : i < j => Over(files[Ids[i]], files[Ids[j]])
      /\ \A i \in DOMAIN Ids : Ids[i] \in DOMAIN files /\ Ids[i] # Active /\ NewLines(files[Ids[i]], pruned)
  BY <1>3, IdsOrder
<1>6. ASSUME NEW g \in gone
      PROVE  \E m \in DOMAIN Ids : g = Ids[m] /\ \A i \in DOMAIN kept : i < m
  <2>1. PICK m \in DOMAIN Ids : g = Ids[m]
    <3>1. g \in ToSet(Ids)
      BY <1>2, IdsFacts
    <3> QED
      BY <3>1 DEF ToSet
  <2>2. m \notin DOMAIN kept
    BY <1>2, <2>1 DEF ToSet
  <2>3. m \in Nat \ {0}
    BY <2>1, IdsFacts
  <2>4. Len(kept) \in Nat
    BY <1>2
  <2> QED
    BY <1>2, <2>1, <2>2, <2>3, <2>4
<1>7. ASSUME NEW g \in gone
      PROVE  /\ g \in DOMAIN files /\ g # Active /\ OldLines(files[g], pruned')
             /\ LastSequence(offsets[g]) = 0 \/ \E i \in DOMAIN files[g] : files[g][i].seq = LastSequence(offsets[g])
  <2>1. g \in DOMAIN offsets /\ g \in DOMAIN files /\ LinesOf(g) = files[g] /\ g # Active
    BY <1>2, <1>3, LinesFacts
  <2>2. files[g] \in Seq(Line) /\ offsets[g] \in RowSets
    BY <1>2, <2>1, LinesSeq
  <2>3. Digest(offsets[g], files[g]) /\ \A k \in DOMAIN files[g] : Held(offsets[g], files[g][k])
    BY <1>3, <2>1 DEF Fits
  <2>4. /\ LastSequence(offsets[g]) \in Nat
        /\ \A i \in DOMAIN files[g] : files[g][i].seq <= LastSequence(offsets[g]) /\ files[g][i].seq \in Nat
        /\ LastSequence(offsets[g]) = 0 \/ \E i \in DOMAIN files[g] : files[g][i].seq = LastSequence(offsets[g])
    BY <2>2, <2>3, RowsLast
  <2> QED
    BY <1>2, <2>1, <2>4 DEF OldLines
<1>8. ASSUME NEW i \in DOMAIN kept PROVE kept[i] \in DOMAIN files' /\ NewLines(files[kept[i]], pruned')
  <2>1. i \in DOMAIN Ids /\ kept[i] = Ids[i] /\ kept[i] \notin gone
    BY <1>2 DEF ToSet
  <2>2. kept[i] \in DOMAIN files' /\ kept[i] \in DOMAIN files /\ files[kept[i]] \in Seq(Line)
    BY <1>2, <1>4, <1>5, <2>1, LinesSeq
  <2>3. CASE pruned' = pruned
    BY <1>5, <2>1, <2>2, <2>3
  <2>4. ASSUME NEW g \in gone, pruned' = LastSequence(offsets[g]) PROVE NewLines(files[kept[i]], pruned')
    <3>1. PICK m \in DOMAIN Ids : g = Ids[m] /\ i < m
      BY <1>6
    <3>2. Over(files[kept[i]], files[g])
      BY <1>5, <2>1, <3>1
    <3>3. files[g] \in Seq(Line)
      BY <1>7, LinesSeq
    <3> QED
      BY <1>2, <1>7, <2>2, <2>4, <3>2, <3>3, OverLast
  <2> QED
    BY <1>2, <2>2, <2>3, <2>4
<1>9. Filled'
  <2>1. Kept
    BY <1>2, <1>4, <1>7 DEF Kept, OldLines
  <2> QED
    BY <1>2, <1>3, <1>4, <2>1, FilledKept
<1>10. ASSUME NEW f \in DOMAIN files', f \notin ToSet(kept) PROVE OldLines(files'[f], pruned') /\ f \in retired'
  <2>1. f \in retired \/ f \in gone \cap Leased
    BY <1>2, <1>3, <1>4, <1>10 DEF Segmented
  <2>2. f \in retired => OldLines(files[f], pruned')
    BY <1>2, <1>3, <1>4, LinesSeq, OldStays DEF Ordered
  <2> QED
    BY <1>2, <1>4, <1>7, <2>1, <2>2
<1>11. Classes'
  <2>1. \A f \in Sealed' : f \in Sealed /\ files'[f] = files[f] /\ Inhabited(files'[f])
    BY <1>3, <1>4 DEF Classes, Sealed
  <2>2. \A f \in DOMAIN files' : f \in ToSet(kept) => NewLines(files'[f], pruned')
    BY <1>4, <1>8 DEF ToSet
  <2> QED
    BY <1>3, <1>4, <1>10, <2>1, <2>2 DEF Classes, Sealed
<1>12. Ordered'
  <2>1. \A i, j \in DOMAIN archives' : i < j => Over(files'[archives'[i]], files'[archives'[j]])
    <3> SUFFICES ASSUME NEW i \in DOMAIN kept, NEW j \in DOMAIN kept, i < j
                 PROVE  Over(files'[kept[i]], files'[kept[j]])
      BY <1>2
    <3>1. /\ i \in DOMAIN Ids /\ j \in DOMAIN Ids /\ kept[i] = Ids[i] /\ kept[j] = Ids[j]
          /\ kept[i] \in DOMAIN files' /\ kept[j] \in DOMAIN files'
      BY <1>2, <1>8
    <3>2. Over(files[kept[i]], files[kept[j]])
      BY <1>5, <3>1
    <3> QED
      BY <1>4, <3>1, <3>2
  <2>2. active' \notin DOMAIN files'
    BY <1>2, <1>3, <1>4
  <2>3. \A f \in ({active'} \cup ToSet(archives')) \cap DOMAIN files' : NewLines(files'[f], pruned')
    <3> SUFFICES ASSUME NEW f \in ToSet(kept) PROVE f \in DOMAIN files' /\ NewLines(files'[f], pruned')
      BY <1>2, <2>2
    <3>1. PICK i \in DOMAIN kept : f = kept[i]
      BY DEF ToSet
    <3> QED
      BY <1>4, <1>8, <3>1
  <2>4. ASSUME NEW f \in retired' \cap DOMAIN files' PROVE OldLines(files'[f], pruned')
    <3>1. f \notin ToSet(kept)
      <4>1. ToSet(kept) \subseteq {active} \cup ToSet(archives)
        BY <1>1 DEF Switched
      <4> QED
        BY <1>2, <1>3, <4>1 DEF Segmented
    <3> QED
      BY <1>10, <3>1
  <2>5. ASSUME retired' # {} PROVE Len(archives') = Retained
    <3>1. Len(Ids) > Retained
      <4>1. CASE retired # {}
        <5>1. Len(archives) = Retained /\ Len(Ids) = Len(archives) + 1 /\ Retained \in Nat
          BY <1>3, <4>1, IdsFacts DEF Ordered, JournalAssumption
        <5> QED
          BY <5>1
      <4>2. CASE gone # {}
        <5>1. PICK g \in gone : TRUE
          BY <4>2
        <5>2. PICK m \in DOMAIN Ids : \A i \in DOMAIN kept : i < m
          BY <5>1, <1>6
        <5>3. Len(kept) \in DOMAIN kept /\ Len(Ids) \in Nat /\ DOMAIN Ids = 1 .. Len(Ids)
          BY <1>2, IdsFacts
        <5>4. Len(kept) < Len(Ids)
          BY <5>2, <5>3, <1>2
        <5> QED
          BY <1>2, <5>3, <5>4
      <4> QED
        BY <1>2, <2>5, <4>1, <4>2
    <3> QED
      BY <1>2, <3>1
  <2> QED
    BY <1>3, <2>1, <2>3, <2>4, <2>5 DEF Ordered
<1> QED
  BY <1>3, <1>9, <1>11, <1>12 DEF Archived

LEMMA ArchivedOpenFile ==
  ASSUME TypeOK, Shape, Archived, OpenFile
  PROVE  Archived'
<1>1. /\ writer \in {"open", "write"} /\ writer' \in {"write", "idle"}
      /\ UNCHANGED <<active, archives, retired, pruned>> /\ Up /\ Up' /\ ~Moved /\ ~Moved'
      /\ pruned \in Nat
  BY DEF OpenFile, history, Up, Moved, TypeOK, Counts
<1>2. CASE UNCHANGED files
  BY <1>1, <1>2, ArchivedKeeps
<1>3. CASE OpenWriter
  <2>1. /\ DOMAIN files' = DOMAIN files \cup {Active}
        /\ \A f \in DOMAIN files : files'[f] = files[f]
        /\ Active \notin DOMAIN files => files'[Active] = <<>>
    BY <1>3, Opens
  <2>2. Filled /\ Classes /\ Ordered /\ Segmented
    BY <1>1 DEF Archived, Shape
  <2>3. Filled'
    <3>1. Kept
      BY <2>1 DEF Kept
    <3>2. \A f \in DOMAIN files' : \A i \in DOMAIN files'[f] :
            \E g \in DOMAIN files : \E j \in DOMAIN files[g] : files[g][j] = files'[f][i]
      <4>1. DOMAIN <<>> = {}
        OBVIOUS
      <4> QED
        BY <2>1, <4>1
    <3> QED
      BY <1>1, <2>2, <3>1, <3>2, FilledKept
  <2>4. Classes'
    <3>1. NewLines(<<>>, pruned)
      BY DEF NewLines
    <3> QED
      BY <1>1, <2>1, <2>2, <3>1 DEF Classes, Sealed
  <2>5. Ordered'
    <3>1. \A i \in DOMAIN archives : archives[i] \in DOMAIN files
      BY <2>2 DEF Segmented, ToSet
    <3>2. Active \notin {active} \cup ToSet(archives) \cup retired
      BY <1>1, IdsFacts DEF TypeOK, Counts, InMemory, Active
    <3> QED
      BY <1>1, <2>1, <2>2, <3>1, <3>2 DEF Ordered
  <2> QED
    BY <1>1, <2>3, <2>4, <2>5 DEF Archived
<1> QED
  BY <1>2, <1>3 DEF OpenFile

LEMMA ArchivedAppend ==
  ASSUME TypeOK, Shape, Fit, Archived, "stale" \notin damage, Up, LastRow, pruned <= sequence,
         Active \in DOMAIN files,
         NEW x \in {Garbage, Record}, files' = [files EXCEPT ![Active] = Append(files[Active], x)],
         pruned' = pruned
  PROVE  /\ Filled' /\ Classes'
         /\ Up' /\ ~Moved /\ ~Moved' /\ UNCHANGED <<active, archives, retired>> => Ordered'
<1>1. Filled /\ Classes /\ Ordered
  BY DEF Archived
<1>2. Filled' /\ Classes'
  BY <1>1, FilledAppend, ClassesAppend
<1>3. DOMAIN files' = DOMAIN files /\ \A f \in DOMAIN files : f # Active => files'[f] = files[f]
  OBVIOUS
<1>4. \A i \in DOMAIN archives : archives[i] \in DOMAIN files /\ archives[i] # Active
  BY IdsFacts DEF Shape, Segmented, ToSet, Active
<1>5. Active \notin {active} \cup ToSet(archives) \cup retired
  BY IdsFacts DEF TypeOK, Counts, InMemory, Active
<1>6. ASSUME ~Moved, ~Moved', UNCHANGED <<active, archives, retired>> PROVE Ordered'
  BY <1>1, <1>3, <1>4, <1>5, <1>6 DEF Ordered
<1> QED
  BY <1>2, <1>6

LEMMA ArchivedAppendLine ==
  ASSUME TypeOK, Shape, Fit, Archived, damage = {}, LastRow, pruned <= sequence, AppendLine
  PROVE  Archived'
<1>1. /\ writer = "write" /\ file /\ writer' = "idle" /\ UNCHANGED <<active, archives, retired, pruned>>
      /\ files' = Lines(Record)
  BY DEF AppendLine
<1>2. Up /\ Up' /\ ~Moved /\ ~Moved'
  BY <1>1 DEF Up, Moved
<1>3. Active \in DOMAIN files /\ files' = [files EXCEPT ![Active] = Append(files[Active], Record)]
  BY <1>1, <1>2 DEF Shape, Phases, Lines
<1> QED
  BY <1>1, <1>2, <1>3, ArchivedAppend DEF Archived

LEMMA ArchivedCutAppend ==
  ASSUME TypeOK, Shape, Fit, Archived, damage = {}, damage' = {}, LastRow, pruned <= sequence, CutAppend
  PROVE  Archived'
<1>1. /\ writer = "write" /\ file /\ writer' = "idle" /\ UNCHANGED <<active, archives, retired, pruned>>
      /\ Cut(Garbage)
  BY DEF CutAppend
<1>2. Up /\ Up' /\ ~Moved /\ ~Moved'
  BY <1>1 DEF Up, Moved
<1>3. Active \in DOMAIN files
      /\ (files' = files \/ files' = [files EXCEPT ![Active] = Append(files[Active], Garbage)])
  BY <1>1, <1>2, CutLine
<1>4. CASE files' = files
  BY <1>1, <1>2, <1>4, ArchivedKeeps
<1>5. CASE files' = [files EXCEPT ![Active] = Append(files[Active], Garbage)]
  BY <1>1, <1>2, <1>3, <1>5, ArchivedAppend DEF Archived
<1> QED
  BY <1>3, <1>4, <1>5

\* A crash leaves the archives to be found by the next start.
LEMMA ArchivedCrash ==
  ASSUME JournalAssumption, TypeOK, Shape, Fit, Archived, damage = {}, LastRow, pruned <= sequence, Crash
  PROVE  Archived'
<1>1. Up /\ ~Up' /\ pruned' = pruned
  BY DEF Crash, Up, history
<1>2. Ranks /\ Filled /\ Classes
  BY <1>1, OrderedRanks DEF Archived
<1>3. /\ Filled' /\ Classes' /\ DOMAIN files' = DOMAIN files
      /\ \A f \in DOMAIN files : f # Active => files'[f] = files[f]
  <2>1. CASE files' = files
    BY <2>1, <1>1, <1>2 DEF Filled, Has, Classes, Sealed
  <2>2. ASSUME Active \in DOMAIN files, NEW x \in {Garbage, Record},
               files' = [files EXCEPT ![Active] = Append(files[Active], x)]
        PROVE  /\ Filled' /\ Classes' /\ DOMAIN files' = DOMAIN files
               /\ \A f \in DOMAIN files : f # Active => files'[f] = files[f]
    <3>1. Filled' /\ Classes'
      BY <1>1, <2>2, ArchivedAppend
    <3> QED
      BY <2>2, <3>1
  <2> QED
    BY <2>1, <2>2, CrashFiles
<1>4. Sealed' = Sealed /\ \A f \in Sealed : files'[f] = files[f]
  BY <1>3 DEF Sealed
<1>5. Fresher' = Fresher /\ \A f \in Fresher : files'[f] = files[f]
  BY <1>1, <1>4 DEF Fresher
<1>6. Ranks'
  BY <1>1, <1>2, <1>4, <1>5 DEF Ranks
<1> QED
  BY <1>1, <1>3, <1>6 DEF Archived

\* The files of pruned segments go with the last lease.
LEMMA ArchivedRead ==
  ASSUME TypeOK, Shape, Archived, Read
  PROVE  Archived'
<1>1. /\ UNCHANGED <<writer, active, archives, pruned>> /\ retired' = {}
      /\ (Up' <=> Up) /\ (Moved' <=> Moved)
      /\ files' = Without(files, retired) /\ pruned \in Nat
  BY DEF Read, history, Up, Moved, TypeOK, Counts
<1>2. Filled /\ Classes
  BY DEF Archived
<1>3. CASE Up
  <2>1. /\ DOMAIN files' = DOMAIN files \ retired /\ \A f \in DOMAIN files' : files'[f] = files[f]
        /\ Active \notin retired
    BY <1>1 DEF Without, TypeOK, InMemory, Active
  <2>2. Ordered /\ Segmented
    BY <1>3 DEF Archived, Shape
  <2>3. Filled'
    <3>1. Kept
      BY <1>1, <2>1, <2>2 DEF Kept, Ordered, OldLines
    <3>2. \A f \in DOMAIN files' : \A i \in DOMAIN files'[f] :
            \E g \in DOMAIN files : \E j \in DOMAIN files[g] : files[g][j] = files'[f][i]
      BY <2>1
    <3> QED
      BY <1>1, <1>2, <3>1, <3>2, FilledKept
  <2>4. Classes'
    BY <1>1, <1>2, <2>1 DEF Classes, Sealed
  <2>5. Ordered'
    <3>1. \A i \in DOMAIN archives : archives[i] \in DOMAIN files'
      BY <2>1, <2>2 DEF Segmented, ToSet
    <3>2. Moved => active \in DOMAIN files'
      BY <2>1, <2>2 DEF Segmented
    <3> QED
      BY <1>1, <2>1, <2>2, <3>1, <3>2 DEF Ordered
  <2> QED
    BY <1>1, <1>3, <2>3, <2>4, <2>5 DEF Archived
<1>4. CASE ~Up
  <2>1. retired = {} /\ files \in [DOMAIN files -> Seq(Line)]
    BY <1>4 DEF Shape, TypeOK, OnDisk
  <2>2. files' = files
    BY <1>1, <2>1 DEF Without
  <2> QED
    BY <1>1, <1>4, <2>2 DEF Archived, Filled, Has, Classes, Sealed, Ranks, Fresher
<1> QED
  BY <1>3, <1>4

-----------------------------------------------------------------------------
\* A start keeps the newest archives.
LEMMA ArchivedOpen ==
  ASSUME JournalAssumption, TypeOK, Fit, Archived, damage = {}, Open
  PROVE  Archived'
<1>1. PICK sealed, rows, id, lines, mine, order, kept, gone :
        Opened(sealed, rows, id, lines, mine, order, kept, gone)
  BY Opening
<1>2. /\ writer = "down" /\ writer' = "idle" /\ retired' = {} /\ active' = id /\ id \notin sealed
      /\ sealed = Sealed /\ IsFiniteSet(sealed) /\ sealed \subseteq DOMAIN files
      /\ order \in Seq(sealed) /\ archives' \in Seq(sealed) /\ kept = ToSet(archives')
      /\ Len(archives') = (IF Len(order) > Retained THEN Retained ELSE Len(order))
      /\ \A i \in DOMAIN archives' : i \in DOMAIN order /\ archives'[i] = order[i]
      /\ \A f \in sealed : \E i \in DOMAIN order : f = order[i]
      /\ kept \cup gone = sealed /\ kept \cap gone = {}
      /\ DOMAIN files' = kept \cup {Active} /\ files'[Active] = lines /\ \A f \in kept : files'[f] = files[f]
      /\ lines = (IF Active \in DOMAIN files THEN files[Active] ELSE <<>>)
      /\ pruned' \in Nat /\ pruned' >= pruned
      /\ \A f \in gone : pruned' >= LastSequence(rows[f])
      /\ pruned' = pruned \/ \E f \in gone : pruned' = LastSequence(rows[f])
      /\ \A f \in sealed : rows[f] = Loaded(f, f) /\ rows[f] \in RowSets
  BY <1>1 DEF Opened, Sealed
<1>3. \A i, j \in DOMAIN order : i < j =>
        order[i] # order[j] /\ LastSequence(rows[order[i]]) >= LastSequence(rows[order[j]])
  BY <1>1 DEF Opened
<1>4. \A f \in gone : \E i \in DOMAIN order : i > Len(archives') /\ f = order[i]
  BY <1>1 DEF Opened
<1>5. Filled /\ Classes /\ Ranks /\ ~Up /\ Up' /\ ~Moved' /\ pruned \in Nat /\ Retained \in Nat \ {0}
      /\ FileOrder /\ SidecarsFit /\ ~Ghost
  BY <1>2 DEF Archived, Up, Moved, TypeOK, Counts, JournalAssumption, Fit, Ghost
<1>6. ASSUME NEW f \in sealed
      PROVE  /\ files[f] \in Seq(Line) /\ Inhabited(files[f])
             /\ LastSequence(rows[f]) \in Nat /\ LastSequence(rows[f]) > 0
             /\ \A i \in DOMAIN files[f] : files[f][i].seq <= LastSequence(rows[f]) /\ files[f][i].seq \in Nat
             /\ \E i \in DOMAIN files[f] : files[f][i].seq = LastSequence(rows[f])
  <2>1. files[f] \in Seq(Line) /\ f \in DOMAIN files /\ rows[f] \in RowSets /\ rows[f] = Loaded(f, f)
    BY <1>2, LinesSeq
  <2>2. Digest(rows[f], files[f]) /\ \A k \in DOMAIN files[f] : Held(rows[f], files[f][k])
    BY <1>5, <2>1, LoadedFits
  <2>3. Inhabited(files[f])
    BY <1>2, <1>5 DEF Classes
  <2>4. /\ LastSequence(rows[f]) \in Nat
        /\ \A i \in DOMAIN files[f] : files[f][i].seq <= LastSequence(rows[f]) /\ files[f][i].seq \in Nat
        /\ LastSequence(rows[f]) = 0 \/ \E i \in DOMAIN files[f] : files[f][i].seq = LastSequence(rows[f])
        /\ Inhabited(files[f]) => LastSequence(rows[f]) > 0
    BY <2>1, <2>2, RowsLast
  <2> QED
    BY <2>1, <2>3, <2>4
<1>7. DOMAIN order = 1 .. Len(order) /\ Len(order) \in Nat /\ \A i \in DOMAIN order : order[i] \in sealed
  BY <1>2
<1>8. DOMAIN archives' = 1 .. Len(archives') /\ Len(archives') \in Nat /\ Len(archives') <= Retained
  BY <1>2, <1>5, <1>7
\* The pigeons: the fresher files come before an old one.
<1>9. ASSUME NEW k \in DOMAIN archives', OldLines(files[order[k]], pruned) PROVE FALSE
  <2>1. k \in DOMAIN order /\ order[k] \in sealed /\ k \in 1 .. Retained
    BY <1>2, <1>5, <1>7, <1>8
  <2>2. Cardinality(Fresher) >= Retained
    BY <1>2, <1>5, <1>9, <2>1 DEF Ranks
  <2> DEFINE before == [m \in 1 .. k - 1 |-> order[m]]
             T == {order[m] : m \in 1 .. k - 1}
  <2>3. Fresher \subseteq T
    <3> SUFFICES ASSUME NEW g \in Fresher PROVE g \in T
      OBVIOUS
    <3>1. g \in sealed /\ NewLines(files[g], pruned)
      BY <1>2 DEF Fresher
    <3>2. PICK m \in DOMAIN order : g = order[m]
      BY <1>2, <3>1
    <3>3. LastSequence(rows[g]) > pruned
      BY <1>6, <3>1 DEF NewLines
    <3>4. LastSequence(rows[order[k]]) <= pruned
      BY <1>6, <1>9, <2>1 DEF OldLines
    <3>5. /\ LastSequence(rows[g]) \in Nat /\ LastSequence(rows[order[k]]) \in Nat
          /\ m \in Nat \ {0} /\ k \in Nat \ {0}
      BY <1>6, <1>7, <2>1, <3>1, <3>2
    <3>6. ~(k < m)
      BY <1>3, <1>5, <2>1, <3>2, <3>3, <3>4, <3>5
    <3>7. m # k
      BY <1>5, <3>2, <3>3, <3>4, <3>5
    <3>8. m \in 1 .. k - 1
      BY <3>5, <3>6, <3>7
    <3> QED
      BY <3>2, <3>8
  <2>4. before \in Surjection(1 .. k - 1, T)
    BY DEF Surjection
  <2>5. IsFiniteSet(1 .. k - 1) /\ Cardinality(1 .. k - 1) = k - 1
    <3>1. 1 \in Int /\ k - 1 \in Int /\ (IF 1 > k - 1 THEN 0 ELSE (k - 1) - 1 + 1) = k - 1
      BY <2>1
    <3> QED
      BY <3>1, FS_Interval
  <2>6. IsFiniteSet(T) /\ Cardinality(T) <= k - 1
    <3> HIDE DEF before, T
    <3> QED
      BY <2>4, <2>5, FS_Surjection
  <2>7. Cardinality(Fresher) <= Cardinality(T) /\ Cardinality(Fresher) \in Nat /\ Cardinality(T) \in Nat
    <3> HIDE DEF T
    <3>1. Fresher \in SUBSET T
      BY <2>3
    <3> QED
      BY <2>6, <3>1, FS_Subset, FS_CardinalityType
  <2> QED
    BY <1>5, <2>1, <2>2, <2>6, <2>7
<1>10. ASSUME NEW f \in kept PROVE f \in sealed /\ NewLines(files[f], pruned) /\ f \in Fresher
  <2>1. PICK k \in DOMAIN archives' : f = archives'[k]
    BY <1>2 DEF ToSet
  <2>2. f = order[k] /\ f \in sealed
    BY <1>2, <2>1
  <2>3. NewLines(files[f], pruned)
    BY <1>2, <1>5, <1>9, <2>1, <2>2 DEF Classes
  <2> QED
    BY <1>2, <2>2, <2>3 DEF Fresher
<1>11. ASSUME NEW f \in kept, NEW g \in sealed, f # g, LastSequence(rows[f]) >= LastSequence(rows[g])
       PROVE  Over(files[f], files[g])
  <2>1. f \in sealed /\ f \in Fresher
    BY <1>10
  <2>2. CASE g \in Fresher
    <3>1. Over(files[f], files[g]) \/ Over(files[g], files[f])
      BY <1>5, <1>11, <2>1, <2>2 DEF Ranks
    <3> QED
      BY <1>6, <1>11, <2>1, <3>1, OverByLast
  <2>3. CASE g \notin Fresher
    <3>1. OldLines(files[g], pruned)
      BY <1>2, <1>5, <2>3 DEF Classes, Fresher
    <3> QED
      BY <1>5, <1>6, <1>10, <2>1, <3>1, OverPruned
  <2> QED
    BY <2>2, <2>3
<1>12. ASSUME NEW f \in kept, NEW g \in gone PROVE Over(files[f], files[g])
  <2>1. PICK k \in DOMAIN archives' : f = archives'[k]
    BY <1>2 DEF ToSet
  <2>2. PICK m \in DOMAIN order : m > Len(archives') /\ g = order[m]
    BY <1>4
  <2>3. k \in DOMAIN order /\ f = order[k] /\ k < m
    BY <1>2, <1>7, <1>8, <2>1, <2>2
  <2>4. f # g /\ LastSequence(rows[f]) >= LastSequence(rows[g]) /\ g \in sealed
    BY <1>2, <1>3, <2>2, <2>3
  <2> QED
    BY <1>11, <2>4
<1>13. ASSUME NEW f \in kept PROVE NewLines(files[f], pruned')
  <2>1. CASE pruned' = pruned
    BY <1>10, <2>1
  <2>2. ASSUME NEW g \in gone, pruned' = LastSequence(rows[g]) PROVE NewLines(files[f], pruned')
    <3>1. Over(files[f], files[g]) /\ f \in sealed /\ g \in sealed
      BY <1>2, <1>12
    <3> QED
      BY <1>2, <1>6, <2>2, <3>1, OverLast
  <2> QED
    BY <1>2, <2>1, <2>2
<1>14. Active \in DOMAIN files => files[Active] \in Seq(Line) /\ NewLines(files[Active], pruned')
  <2> SUFFICES ASSUME Active \in DOMAIN files PROVE files[Active] \in Seq(Line) /\ NewLines(files[Active], pruned')
    OBVIOUS
  <2>1. files[Active] \in Seq(Line) /\ NewLines(files[Active], pruned)
    BY <1>5, LinesSeq DEF Classes
  <2>2. ASSUME NEW g \in gone, pruned' = LastSequence(rows[g]) PROVE NewLines(files[Active], pruned')
    <3>1. g \in sealed /\ g \in DOMAIN files \ {Active}
      BY <1>2 DEF Sealed
    <3>2. Over(files[Active], files[g])
      BY <1>5, <3>1 DEF FileOrder, Over
    <3> QED
      BY <1>2, <1>6, <2>1, <2>2, <3>1, <3>2, OverLast
  <2>3. CASE pruned' = pruned
    BY <2>1, <2>3
  <2> QED
    BY <1>2, <2>1, <2>2, <2>3
<1>15. ASSUME NEW g \in gone, NEW i \in DOMAIN files[g] PROVE files[g][i].seq <= pruned'
  <2>1. /\ files[g][i].seq <= LastSequence(rows[g]) /\ files[g][i].seq \in Nat
        /\ LastSequence(rows[g]) \in Nat /\ pruned' >= LastSequence(rows[g])
    BY <1>2, <1>6
  <2> QED
    BY <1>2, <2>1
<1>16. \A f \in DOMAIN files : f = Active \/ f \in kept \/ f \in gone
  BY <1>2 DEF Sealed
<1>17. Filled'
  <2>1. Kept
    BY <1>2, <1>15, <1>16 DEF Kept
  <2>2. \A f \in DOMAIN files' : \A i \in DOMAIN files'[f] :
          \E g \in DOMAIN files : \E j \in DOMAIN files[g] : files[g][j] = files'[f][i]
    <3>1. DOMAIN <<>> = {}
      OBVIOUS
    <3> QED
      BY <1>2, <3>1
  <2> QED
    BY <1>2, <1>5, <2>1, <2>2, FilledKept
<1>18. Classes'
  <2>1. ASSUME NEW f \in Sealed' PROVE Inhabited(files'[f]) /\ NewLines(files'[f], pruned')
    <3>1. f \in kept
      BY <1>2 DEF Sealed
    <3> QED
      BY <1>2, <1>6, <1>10, <1>13, <3>1
  <2>2. NewLines(files'[Active], pruned')
    <3>1. NewLines(<<>>, pruned')
      BY DEF NewLines
    <3> QED
      BY <1>2, <1>14, <3>1
  <2> QED
    BY <2>1, <2>2 DEF Classes
<1>19. Ordered'
  <2>1. ASSUME NEW i \in DOMAIN archives', NEW j \in DOMAIN archives', i < j
        PROVE  Over(files'[archives'[i]], files'[archives'[j]])
    <3>1. archives'[i] = order[i] /\ archives'[j] = order[j] /\ i \in DOMAIN order /\ j \in DOMAIN order
          /\ archives'[i] \in kept /\ archives'[j] \in kept
      BY <1>2 DEF ToSet
    <3>2. archives'[j] \in sealed
      BY <1>10, <3>1
    <3> QED
      BY <1>2, <1>3, <1>11, <2>1, <3>1, <3>2
  <2>2. active' \in DOMAIN files' => active' = Active
    BY <1>2
  <2>3. active' # Active
    BY <1>1 DEF Opened, Active
  <2> QED
    BY <1>2, <1>5, <1>13, <2>1, <2>2, <2>3 DEF Ordered
<1> QED
  BY <1>5, <1>17, <1>18, <1>19 DEF Archived

-----------------------------------------------------------------------------
(* The first row of a page.                                                *)

\* The rows of p are at most n.
LEMMA FirstOf ==
  ASSUME NEW p, p \subseteq Place, NEW n \in Nat, \A r \in p : r.seq <= n, p # {},
         \A r, q \in p : r # q => r.seq # q.seq /\ (Newer(r, q) <=> r.seq > q.seq)
  PROVE  First(p) \in p /\ \A q \in p : q.seq <= First(p).seq
<1>1. \A r \in p : r.seq \in Nat
  BY DEF Place
<1> DEFINE S == {r.seq : r \in p}
<1>2. S \subseteq 0 .. n /\ S # {} /\ S \subseteq Nat
  BY <1>1
<1>3. IsFiniteSet(S)
  <2>1. IsFiniteSet(0 .. n)
    BY FS_Interval
  <2> HIDE DEF S
  <2>2. S \in SUBSET (0 .. n)
    BY <1>2
  <2> QED
    BY <2>1, <2>2, FS_Subset
<1>4. PICK m \in S : \A y \in S : m >= y
  <2> HIDE DEF S
  <2> QED
    BY <1>2, <1>3, Greatest
<1>5. PICK g \in p : g.seq = m
  BY <1>4
<1>6. \A q \in p : q.seq <= g.seq
  BY <1>1, <1>4, <1>5
<1>7. \A q \in p \ {g} : Newer(g, q)
  <2> SUFFICES ASSUME NEW q \in p, q # g PROVE Newer(g, q)
    OBVIOUS
  <2>1. q.seq # g.seq /\ q.seq <= g.seq /\ q.seq \in Nat /\ g.seq \in Nat
    BY <1>1, <1>6
  <2>2. g.seq > q.seq
    BY <2>1
  <2> QED
    BY <2>2
<1>8. First(p) \in p /\ \A q \in p \ {First(p)} : Newer(First(p), q)
  BY <1>7 DEF First
<1>9. First(p) = g
  <2> SUFFICES ASSUME First(p) # g PROVE FALSE
    OBVIOUS
  <2>1. First(p).seq > g.seq
    BY <1>8
  <2>2. First(p).seq <= g.seq /\ First(p).seq \in Nat /\ g.seq \in Nat
    BY <1>1, <1>6, <1>8
  <2> QED
    BY <2>1, <2>2
<1> QED
  BY <1>6, <1>9

-----------------------------------------------------------------------------
(* What a query pins.                                                      *)

\* The rows of all segments, by their ages.
LEMMA ChainAge ==
  ASSUME TypeOK, NEW r \in Chain
  PROVE  r.age \in DOMAIN Ids /\ r.segment = Ids[r.age] /\ r.age \in Nat
<1>1. PICK i \in DOMAIN Ids : r \in {[segment |-> Ids[i], age |-> i, seq |-> x.seq, at |-> x.at] : x \in offsets[Ids[i]]}
  BY DEF Chain
<1>2. r.age = i /\ r.segment = Ids[i]
  BY <1>1
<1>3. DOMAIN Ids \subseteq Nat
  BY IdsFacts
<1> QED
  BY <1>2, <1>3

LEMMA ChainLines ==
  ASSUME TypeOK, Shape, Fit, Up, ~Moved, damage = {}, NEW r \in Chain
  PROVE  /\ r.segment \in 1 .. drawn
         /\ r.seq \in Nat /\ r.at \in Nat
         /\ r.at \in DOMAIN LinesOf(r.segment) /\ LinesOf(r.segment)[r.at].seq = r.seq
         /\ IF r.segment = active THEN Active \in DOMAIN files /\ LinesOf(r.segment) = files[Active]
            ELSE r.segment \in ToSet(archives) /\ r.segment \in DOMAIN files /\ LinesOf(r.segment) = files[r.segment]
<1>1. /\ Readable(r) /\ r.seq > 0 /\ r.segment \in DOMAIN offsets
      /\ Reads(r) = LinesOf(r.segment)[r.at] /\ r.at \in DOMAIN LinesOf(r.segment)
  BY ChainReadable
<1>2. r.seq \in Nat /\ r.at \in Nat
  BY ChainType DEF Place
<1>3. LinesOf(r.segment)[r.at].seq = r.seq
  BY <1>1 DEF Readable
<1>4. r.segment = active \/ r.segment \in ToSet(archives)
  BY <1>1, LinesFacts
<1>5. active \in 1 .. drawn /\ ToSet(archives) \subseteq 1 .. drawn
  BY IdsFacts DEF TypeOK, Counts
<1>6. r.segment = active => Active \in DOMAIN files /\ LinesOf(r.segment) = files[Active]
  <2>1. DOMAIN <<>> = {}
    OBVIOUS
  <2> QED
    BY <1>1, <2>1, LinesFacts
<1>7. r.segment # active => r.segment \in ToSet(archives) /\ r.segment \in DOMAIN files /\ LinesOf(r.segment) = files[r.segment]
  BY <1>4, LinesFacts
<1> QED
  BY <1>1, <1>2, <1>3, <1>4, <1>5, <1>6, <1>7

LEMMA ChainOlder ==
  ASSUME TypeOK, Shape, Fit, Up, ~Moved, damage = {}, Ordered,
         NEW r \in Chain, NEW q \in Chain, r.age < q.age
  PROVE  r.seq > q.seq
<1>1. /\ r.age \in DOMAIN Ids /\ r.segment = Ids[r.age] /\ r.age \in Nat \ {0}
      /\ q.age \in DOMAIN Ids /\ q.segment = Ids[q.age] /\ q.age \in Nat \ {0}
  BY ChainAge, IdsFacts
<1>2. /\ Ids[1] = active
      /\ \A i \in DOMAIN Ids : i = 1 \/ (i - 1 \in DOMAIN archives /\ Ids[i] = archives[i - 1])
  BY IdsFacts
<1>3. q.age # 1 /\ q.age - 1 \in DOMAIN archives /\ q.segment = archives[q.age - 1]
  BY <1>1, <1>2
<1>4. active \notin ToSet(archives) /\ \A i \in DOMAIN archives : archives[i] \in ToSet(archives)
  BY DEF Shape, Segmented, ToSet
<1>5. q.segment \in DOMAIN files /\ q.at \in DOMAIN files[q.segment] /\ files[q.segment][q.at].seq = q.seq
      /\ q.segment # Active
  <2>1. q.segment # active
    BY <1>3, <1>4
  <2> QED
    BY <2>1, ChainLines, LinesFacts DEF Active
<1>6. r.seq > 0
  BY ChainReadable
<1>7. CASE r.age = 1
  <2>1. r.segment = active
    BY <1>1, <1>2, <1>7
  <2>2. Active \in DOMAIN files /\ r.at \in DOMAIN files[Active] /\ files[Active][r.at].seq = r.seq
    BY <2>1, ChainLines
  <2>3. FileOrder /\ ~Ghost
    BY DEF Fit, Ghost
  <2> QED
    BY <1>5, <1>6, <2>2, <2>3 DEF FileOrder
<1>8. CASE r.age # 1
  <2>1. r.age - 1 \in DOMAIN archives /\ r.segment = archives[r.age - 1] /\ r.age - 1 < q.age - 1
    BY <1>1, <1>2, <1>8
  <2>2. r.segment # active
    BY <1>4, <2>1
  <2>3. r.segment \in DOMAIN files /\ r.at \in DOMAIN files[r.segment] /\ files[r.segment][r.at].seq = r.seq
    BY <2>2, ChainLines
  <2>4. Over(files[r.segment], files[q.segment])
    BY <1>3, <2>1 DEF Ordered
  <2> QED
    BY <1>5, <1>6, <2>3, <2>4 DEF Over
<1> QED
  BY <1>7, <1>8

\* They are in the order of their sequences,
LEMMA ChainRanked ==
  ASSUME TypeOK, Shape, Fit, Up, ~Moved, damage = {}, Ordered, NEW r \in Chain, NEW q \in Chain, r # q
  PROVE  r.seq # q.seq /\ (Newer(r, q) <=> r.seq > q.seq)
<1>1. /\ r.segment = Ids[r.age] /\ r.age \in Nat /\ r.seq \in Nat /\ r.at \in Nat
      /\ q.segment = Ids[q.age] /\ q.age \in Nat /\ q.seq \in Nat /\ q.at \in Nat
  BY ChainAge, ChainLines
<1>2. r.age < q.age => r.seq > q.seq
  BY ChainOlder
<1>3. q.age < r.age => q.seq > r.seq
  BY ChainOlder
<1>4. ASSUME r.age = q.age PROVE (r.at > q.at => r.seq > q.seq) /\ (q.at > r.at => q.seq > r.seq) /\ r.at # q.at
  <2>1. r.segment = q.segment /\ r.segment \in DOMAIN offsets
    BY <1>1, <1>4, ChainReadable
  <2>2. Growing(offsets[r.segment])
    BY <2>1 DEF Fit, Fits, Digest
  <2> DEFINE x == [seq |-> r.seq, at |-> r.at]
             y == [seq |-> q.seq, at |-> q.at]
  <2>3. x \in offsets[r.segment] /\ y \in offsets[r.segment]
    BY <2>1, ChainReadable
  <2>4. r.at > q.at => r.seq > q.seq
    <3>1. y.at < x.at => y.seq < x.seq
      <4> HIDE DEF x, y
      <4> QED
        BY <2>2, <2>3 DEF Growing
    <3> QED
      BY <1>1, <3>1
  <2>5. q.at > r.at => q.seq > r.seq
    <3>1. x.at < y.at => x.seq < y.seq
      <4> HIDE DEF x, y
      <4> QED
        BY <2>2, <2>3 DEF Growing
    <3> QED
      BY <1>1, <3>1
  <2>6. r.at # q.at
    <3> SUFFICES ASSUME r.at = q.at PROVE FALSE
      OBVIOUS
    <3>1. r.seq = q.seq
      BY <2>1, ChainLines
    <3>2. r = [segment |-> r.segment, age |-> r.age, seq |-> r.seq, at |-> r.at]
          /\ q = [segment |-> q.segment, age |-> q.age, seq |-> q.seq, at |-> q.at]
      BY ChainType DEF Place
    <3> QED
      BY <1>4, <2>1, <3>1, <3>2
  <2> QED
    BY <2>4, <2>5, <2>6
<1> QED
  BY <1>1, <1>2, <1>3, <1>4 DEF Newer

\* between what was pruned and the last sequence,
LEMMA ChainBounds ==
  ASSUME TypeOK, Shape, Fit, Up, ~Moved, damage = {}, Classes, Ordered, NEW r \in Chain
  PROVE  r.seq > pruned /\ r.seq <= sequence
<1>1. /\ r.at \in DOMAIN LinesOf(r.segment) /\ LinesOf(r.segment)[r.at].seq = r.seq
      /\ IF r.segment = active THEN Active \in DOMAIN files /\ LinesOf(r.segment) = files[Active]
         ELSE r.segment \in ToSet(archives) /\ r.segment \in DOMAIN files /\ LinesOf(r.segment) = files[r.segment]
  BY ChainLines
<1>2. r.seq > 0 /\ r.segment \in DOMAIN offsets /\ [seq |-> r.seq, at |-> r.at] \in offsets[r.segment]
  BY ChainReadable
<1>3. NewLines(LinesOf(r.segment), pruned)
  BY <1>1 DEF Classes, Ordered
<1>4. r.seq > pruned
  BY <1>1, <1>2, <1>3 DEF NewLines
<1>5. \A x \in offsets[r.segment] : x.seq <= sequence
  BY <1>2 DEF Fit, Fits
<1> QED
  BY <1>2, <1>4, <1>5

\* without a hole.
LEMMA ChainFilled ==
  ASSUME TypeOK, Shape, Fit, Up, ~Moved, damage = {}, LastRow, Archived,
         NEW n \in Nat, pruned < n, n <= sequence
  PROVE  \E r \in Chain : r.seq = n
<1>1. Filled /\ Ordered /\ ~Ghost /\ pruned \in Nat
  BY DEF Archived, Ghost, TypeOK, Counts
<1>2. PICK f \in DOMAIN files : \E i \in DOMAIN files[f] : files[f][i].seq = n
  <2>1. Has(n)
    BY <1>1, AllHas
  <2> QED
    BY <2>1 DEF Has
<1>3. PICK i \in DOMAIN files[f] : files[f][i].seq = n
  BY <1>2
<1>4. f \notin retired
  BY <1>1, <1>3 DEF Ordered, OldLines
<1>5. \E id \in DOMAIN offsets : LinesOf(id) = files[f]
  <2>1. f = Active \/ f \in ToSet(archives)
    BY <1>4 DEF Shape, Segmented
  <2> QED
    BY <2>1, LinesFacts
<1>6. PICK id \in DOMAIN offsets : LinesOf(id) = files[f]
  BY <1>5
<1>7. Held(offsets[id], files[f][i])
  BY <1>1, <1>3, <1>6 DEF Fit, Fits
<1>8. PICK x \in offsets[id] : x.seq = n
  BY <1>1, <1>3, <1>7 DEF Held
<1> QED
  BY <1>8, ChainHas

\* All rows below a sequence.
LEMMA ChainPart ==
  ASSUME TypeOK, Shape, Fit, Up, ~Moved, damage = {}, LastRow, Archived, NEW m \in Nat,
         NEW p, p = {r \in Chain : r.seq < m}
  PROVE  /\ Ranked(p)
         /\ p # {} /\ m <= sequence => \E r \in p : r.seq = m - 1 /\ \A q \in p : q.seq <= r.seq
<1>1. Classes /\ Ordered /\ pruned \in Nat /\ sequence \in Nat
  BY DEF Archived, TypeOK, Counts
<1>2. \A r \in p : r \in Chain /\ r.seq \in Nat /\ r.seq > pruned /\ r.seq <= sequence /\ r.seq < m
  BY <1>1, ChainBounds, ChainLines
<1>3. \A r, q \in p : r # q => r.seq # q.seq /\ (Newer(r, q) <=> r.seq > q.seq)
  BY <1>1, <1>2, ChainRanked
<1>4. ASSUME NEW n \in Nat, n > pruned, n <= sequence, n < m PROVE \E x \in p : x.seq = n
  BY <1>4, ChainFilled
<1>5. ASSUME NEW r \in p, NEW q \in p, NEW n \in q.seq .. r.seq PROVE \E x \in p : x.seq = n
  <2>1. n \in Nat /\ n > pruned /\ n <= sequence /\ n < m
    BY <1>1, <1>2
  <2> QED
    BY <2>1, <1>4
<1>6. ASSUME p # {}, m <= sequence PROVE \E r \in p : r.seq = m - 1 /\ \A q \in p : q.seq <= r.seq
  <2>1. PICK z \in p : TRUE
    BY <1>6
  <2>2. m - 1 \in Nat /\ m - 1 > pruned /\ m - 1 <= sequence /\ m - 1 < m
    BY <1>1, <1>2, <1>6, <2>1
  <2>3. PICK r \in p : r.seq = m - 1
    BY <1>4, <2>2
  <2>4. \A q \in p : q.seq <= r.seq
    BY <1>2, <2>3
  <2> QED
    BY <2>3, <2>4
<1> QED
  BY <1>3, <1>5, <1>6 DEF Ranked

\* The rows from the cursor on are those below the last sequence.
LEMMA FromCursorIs ==
  ASSUME TypeOK, Shape, Fit, Up, ~Moved, damage = {}, Archived, Cursor, reader.last \in Nat \ {0},
         FromCursor(reader.cursor) # {}
  PROVE  FromCursor(reader.cursor) = {r \in Chain : r.seq < reader.last}
<1> DEFINE s == reader.cursor.segment
           c == reader.cursor.at
           n == reader.last - 1
<1>1. Ordered /\ ~Ghost /\ Segmented /\ FileOrder
  BY DEF Archived, Ghost, Shape, Fit
<1>2. PICK i \in DOMAIN Ids : Ids[i] = s
  BY DEF FromCursor
<1>3. s \in DOMAIN offsets /\ (s = active \/ s \in ToSet(archives)) /\ n \in Nat /\ n > 0 /\ s \in 1 .. drawn
  <2>1. s \in ToSet(Ids)
    BY <1>2 DEF ToSet
  <2>2. s \in 1 .. drawn /\ reader.last > 1
    BY DEF Cursor
  <2> QED
    BY <2>1, <2>2, IdsFacts, LinesFacts
<1>4. c \in DOMAIN LinesOf(s) /\ LinesOf(s)[c].seq = n /\ FileOf(s) \in DOMAIN files /\ LinesOf(s) = files[FileOf(s)]
  <2>1. CASE s = active
    <3>1. s \notin DOMAIN files
      BY <1>1, <2>1 DEF Segmented
    <3>2. There(Active)
      BY <3>1, <2>1 DEF Cursor
    <3> QED
      BY <3>2, <2>1 DEF There, LinesOf, FileOf
  <2>2. CASE s \in ToSet(archives)
    <3>1. s \in DOMAIN files /\ LinesOf(s) = files[s] /\ s # active
      BY <2>2, LinesFacts
    <3>2. There(s)
      BY <3>1 DEF Cursor
    <3> QED
      BY <3>1, <3>2 DEF There, FileOf
  <2> QED
    BY <1>3, <2>1, <2>2
<1>5. PICK x \in offsets[s] : x.seq = n
  <2>1. Held(offsets[s], LinesOf(s)[c])
    BY <1>1, <1>3, <1>4 DEF Fit, Fits
  <2> QED
    BY <1>3, <1>4, <2>1 DEF Held
<1>6. PICK b \in Chain : b.segment = s /\ b.seq = n /\ b.at = x.at
  BY <1>3, <1>5, ChainHas
<1>7. b.at = c
  <2>1. Strict(LinesOf(s)) /\ DOMAIN LinesOf(s) \subseteq Nat
    BY <1>1, <1>4, LinesSeq DEF FileOrder
  <2>2. b.at \in DOMAIN LinesOf(s) /\ LinesOf(s)[b.at].seq = n
    BY <1>6, ChainLines
  <2>3. c \in Nat /\ b.at \in Nat
    BY <1>4, <2>1, <2>2
  <2>4. ~(b.at < c)
    BY <1>3, <1>4, <2>1, <2>2 DEF Strict
  <2>5. ~(c < b.at)
    BY <1>3, <1>4, <2>1, <2>2 DEF Strict
  <2> QED
    BY <2>3, <2>4, <2>5
<1>8. \A j \in DOMAIN Ids : Ids[j] = s => j = b.age
  <2> SUFFICES ASSUME NEW j \in DOMAIN Ids, Ids[j] = s PROVE j = b.age
    OBVIOUS
  <2>1. b.age \in DOMAIN Ids /\ Ids[b.age] = s
    BY <1>6, ChainAge
  <2>2. /\ \A k \in DOMAIN Ids : k = 1 \/ (k - 1 \in DOMAIN archives /\ Ids[k] = archives[k - 1])
        /\ Ids[1] = active /\ DOMAIN Ids \subseteq Nat
    BY IdsFacts
  <2>3. \A k \in DOMAIN archives : archives[k] # active
    BY <1>1 DEF Segmented, ToSet
  <2>4. \A k, l \in DOMAIN archives : archives[k] = archives[l] => k = l
    BY <1>1 DEF Segmented
  <2>5. CASE j = 1
    BY <2>1, <2>2, <2>3, <2>5
  <2>6. CASE j # 1
    <3>1. j - 1 \in DOMAIN archives /\ s = archives[j - 1]
      BY <2>2, <2>6
    <3>2. b.age # 1
      BY <2>1, <2>2, <2>3, <3>1
    <3>3. b.age - 1 \in DOMAIN archives /\ s = archives[b.age - 1]
      BY <2>1, <2>2, <3>2
    <3>4. j - 1 = b.age - 1
      BY <2>4, <3>1, <3>3
    <3> QED
      BY <2>1, <2>2, <3>4
  <2> QED
    BY <2>5, <2>6
<1>9. Boundary(offsets[s], c)
  BY <1>5, <1>6, <1>7 DEF Boundary
<1>10. b.age \in DOMAIN Ids /\ Ids[b.age] = s
  BY <1>6, ChainAge
<1>11. ASSUME NEW r \in Chain
       PROVE  r \in FromCursor(reader.cursor) <=> b.age <= r.age /\ (b.age = r.age => r.at <= c)
  BY <1>8, <1>9, <1>10 DEF FromCursor
<1>12. ASSUME NEW r \in Chain
       PROVE  (b.age <= r.age /\ (b.age = r.age => r.at <= c)) <=> r.seq < reader.last
  <2>1. b.age \in Nat /\ r.age \in Nat /\ b.at \in Nat /\ r.at \in Nat /\ r.seq \in Nat
    BY ChainAge, ChainLines
  <2>2. CASE r = b
    BY <1>6, <1>7, <2>1, <2>2
  <2>3. CASE r # b
    <3>1. r.seq # b.seq /\ (Newer(r, b) <=> r.seq > b.seq) /\ (Newer(b, r) <=> b.seq > r.seq)
      BY <1>1, <2>3, ChainRanked
    <3>2. (b.age <= r.age /\ (b.age = r.age => r.at <= c)) <=> ~Newer(r, b)
      BY <1>7, <2>1 DEF Newer
    <3> QED
      BY <1>3, <1>6, <2>1, <3>1, <3>2
  <2> QED
    BY <2>2, <2>3
<1>13. FromCursor(reader.cursor) \subseteq Chain
  BY DEF FromCursor
<1> QED
  BY <1>11, <1>12, <1>13

-----------------------------------------------------------------------------
(* The steps keep what is pinned.                                          *)

\* Steps after which the rows are as readable as before.
LEMMA PinnedKeeps ==
  ASSUME TypeOK, Pinned, UNCHANGED reader, drawn' \in Nat, drawn <= drawn', Up => Up',
         \A r \in reader.pinned : Readable(r) => Readable(r)'
  PROVE  Pinned'
<1>1. drawn \in Nat
  BY DEF TypeOK, Counts
<1>2. \A k \in 1 .. drawn : k \in 1 .. drawn'
  BY <1>1
<1> QED
  BY <1>2 DEF Pinned

LEMMA PinnedNone ==
  ASSUME reader'.pinned = {}
  PROVE  Pinned'
BY DEF Pinned, Ranked

\* A row stays readable in files that grow.
LEMMA ReadableGrows ==
  ASSUME TypeOK, Shape, Up, UNCHANGED active,
         active \in DOMAIN files => Active \notin DOMAIN files',
         Active \notin DOMAIN files /\ Active \in DOMAIN files' => active \notin DOMAIN files,
         \A f \in DOMAIN files : f \in DOMAIN files' /\
           \A i \in DOMAIN files[f] : i \in DOMAIN files'[f] /\ files'[f][i] = files[f][i],
         NEW r, Readable(r)
  PROVE  Readable(r)'
<1>1. FileOf(r.segment)' = FileOf(r.segment)
  BY DEF FileOf, Readable
<1> QED
  BY <1>1 DEF Readable, Reads

LEMMA PinnedGrows ==
  ASSUME TypeOK, Shape, Pinned, Up, Up', UNCHANGED <<active, reader, drawn>>,
         DOMAIN files' \subseteq DOMAIN files \cup {Active},
         Active \notin DOMAIN files /\ Active \in DOMAIN files' => ~Moved,
         \A f \in DOMAIN files : f \in DOMAIN files' /\
           \A i \in DOMAIN files[f] : i \in DOMAIN files'[f] /\ files'[f][i] = files[f][i]
  PROVE  Pinned'
<1>1. active # Active /\ drawn \in Nat
  BY DEF TypeOK, Counts, Active
<1>2. active \in DOMAIN files <=> Moved
  BY DEF Shape, Segmented
<1>3. Moved => Active \notin DOMAIN files
  BY DEF Shape, Phases
<1>4. \A r : Readable(r) => Readable(r)'
  BY <1>1, <1>2, <1>3, ReadableGrows
<1> QED
  BY <1>1, <1>4, PinnedKeeps

LEMMA PinnedSame ==
  ASSUME TypeOK, Pinned, Up, Up', UNCHANGED <<active, reader, drawn, files>>
  PROVE  Pinned'
<1>1. \A r : Readable(r) => Readable(r)'
  BY DEF Readable, Reads, FileOf
<1>2. drawn \in Nat
  BY DEF TypeOK, Counts
<1> QED
  BY <1>1, <1>2, PinnedKeeps

LEMMA PinnedOpenFile == ASSUME TypeOK, Shape, Pinned, OpenFile PROVE Pinned'
<1>1. Up /\ Up' /\ ~Moved /\ UNCHANGED <<active, reader, drawn>>
  BY DEF OpenFile, clients, Up, Moved
<1>2. CASE UNCHANGED files
  BY <1>1, <1>2, PinnedSame
<1>3. CASE OpenWriter
  <2>1. DOMAIN files' = DOMAIN files \cup {Active} /\ \A f \in DOMAIN files : files'[f] = files[f]
    BY <1>3, Opens
  <2> QED
    BY <1>1, <2>1, PinnedGrows
<1> QED
  BY <1>2, <1>3 DEF OpenFile

LEMMA PinnedAppend ==
  ASSUME TypeOK, Shape, Pinned, Up, Up', UNCHANGED <<active, reader, drawn>>, Active \in DOMAIN files,
         NEW x, files' = [files EXCEPT ![Active] = Append(files[Active], x)]
  PROVE  Pinned'
<1>1. /\ DOMAIN files' = DOMAIN files
      /\ \A f \in DOMAIN files : \A i \in DOMAIN files[f] : i \in DOMAIN files'[f] /\ files'[f][i] = files[f][i]
  BY AppendFacts
<1> QED
  BY <1>1, PinnedGrows

LEMMA PinnedAppendLine == ASSUME TypeOK, Shape, Pinned, AppendLine PROVE Pinned'
<1>1. /\ writer = "write" /\ file /\ Up /\ Up' /\ UNCHANGED <<active, reader, drawn>>
      /\ files' = Lines(Record)
  BY DEF AppendLine, clients, Up
<1>2. Active \in DOMAIN files /\ files' = [files EXCEPT ![Active] = Append(files[Active], Record)]
  BY <1>1 DEF Shape, Phases, Lines
<1> QED
  BY <1>1, <1>2, PinnedAppend

LEMMA PinnedCutAppend == ASSUME TypeOK, Shape, Pinned, CutAppend PROVE Pinned'
<1>1. /\ writer = "write" /\ file /\ Up /\ Up' /\ UNCHANGED <<active, reader, drawn>>
      /\ Cut(Garbage) \/ Cut(Record)
  BY DEF CutAppend, clients, Up
<1>2. ASSUME NEW line, Cut(line) PROVE Pinned'
  <2>1. /\ Active \in DOMAIN files
        /\ files' = files \/ files' = [files EXCEPT ![Active] = Append(files[Active], line)]
    BY <1>1, <1>2, CutLine
  <2> QED
    BY <1>1, <2>1, PinnedSame, PinnedAppend
<1> QED
  BY <1>1, <1>2

\* The file of the active segment is renamed under a query.
LEMMA PinnedRenameData == ASSUME TypeOK, Shape, Pinned, RenameData PROVE Pinned'
<1>1. Up /\ Up' /\ UNCHANGED <<active, reader, drawn>> /\ drawn \in Nat
  BY DEF RenameData, clients, store, Up, TypeOK, Counts
<1>2. CASE UNCHANGED files
  BY <1>1, <1>2, PinnedSame
<1>3. CASE files' = With(Without(files, {Active}), active, files[Active])
  <2>1. active # Active /\ Active \in DOMAIN files /\ active \notin DOMAIN files
    BY <1>1 DEF RenameData, Shape, Phases, Segmented, Moved, TypeOK, Counts, Active
  <2>2. /\ DOMAIN files' = (DOMAIN files \ {Active}) \cup {active}
        /\ files'[active] = files[Active]
        /\ \A f \in DOMAIN files' : f # active => files'[f] = files[f]
    BY <2>1, <1>3 DEF With, Without
  <2>3. ASSUME NEW r \in reader.pinned, Readable(r) PROVE Readable(r)'
    <3>1. r.segment \in 1 .. drawn
      BY DEF Pinned
    <3>2. r.segment # Active
      BY <3>1 DEF Active
    <3>3. CASE r.segment = active
      <4>1. FileOf(r.segment) = Active /\ FileOf(r.segment)' = active
        BY <1>1, <2>1, <2>2, <3>3 DEF FileOf
      <4> QED
        BY <2>1, <2>2, <2>3, <4>1 DEF Readable, Reads
    <3>4. CASE r.segment # active
      <4>1. FileOf(r.segment) = r.segment /\ FileOf(r.segment)' = r.segment
        BY <1>1, <3>4 DEF FileOf
      <4> QED
        BY <2>1, <2>2, <2>3, <3>2, <3>4, <4>1 DEF Readable, Reads
    <3> QED
      BY <3>3, <3>4
  <2> QED
    BY <1>1, <2>3, PinnedKeeps
<1> QED
  BY <1>2, <1>3 DEF RenameData

\* The files of leased segments stay.
LEMMA PinnedSwitch == ASSUME JournalAssumption, TypeOK, Shape, Pinned, Switch PROVE Pinned'
<1>1. PICK kept, gone, free : Switched(kept, gone, free)
  BY Switching
<1>2. /\ writer = "switch" /\ writer' = "persist" /\ active' = drawn + 1 /\ drawn' = drawn + 1
      /\ free = gone \ Leased /\ files' = Without(files, free) /\ UNCHANGED reader
  BY <1>1 DEF Switched, clients
<1>3. Up /\ Up' /\ Moved /\ Active \notin DOMAIN files /\ drawn \in Nat /\ drawn' \in Nat /\ drawn <= drawn'
  <2>1. Up /\ Up' /\ Moved /\ drawn \in Nat
    BY <1>2 DEF Up, Moved, TypeOK, Counts
  <2> QED
    BY <1>2, <2>1 DEF Shape, Phases
<1>4. DOMAIN files' = DOMAIN files \ free /\ \A f \in DOMAIN files' : files'[f] = files[f]
  BY <1>2 DEF Without
<1>5. ASSUME NEW r \in reader.pinned, Readable(r) PROVE Readable(r)'
  <2>1. FileOf(r.segment) = r.segment /\ FileOf(r.segment)' = r.segment
    BY <1>3, <1>4 DEF FileOf
  <2>2. r.segment \notin free
    BY <1>2 DEF Leased
  <2> QED
    BY <1>4, <1>5, <2>1, <2>2 DEF Readable, Reads
<1> QED
  BY <1>2, <1>3, <1>5, PinnedKeeps

\* A query goes on from the cursor or from the last sequence.
LEMMA PinnedPin ==
  ASSUME TypeOK, Shape, Fit, damage = {}, Up => LastRow, Archived, Cursor, Bounds, Pin
  PROVE  Pinned'
<1>1. /\ writer = "idle" /\ reader.pinned = {}
      /\ UNCHANGED <<writer, active, files, drawn>> /\ Up /\ Up' /\ ~Moved
  BY DEF Pin, disk, store, counts, Up, Moved
<1>2. reader.last \in Nat /\ reader.last <= sequence /\ sequence \in Nat
  BY <1>1 DEF Bounds, Marked, TypeOK, Counts
<1>3. PICK p : /\ reader' = IF p = {} THEN NewWalk ELSE [reader EXCEPT !.pinned = p]
               /\ IF reader.last = 0 THEN p = Chain
                  ELSE p = FromCursor(reader.cursor) \/ p = {r \in Chain : r.seq < reader.last}
  BY DEF Pin
<1>4. CASE p = {}
  BY <1>3, <1>4, PinnedNone DEF NewWalk
<1>5. CASE p # {}
  <2> DEFINE m == IF reader.last = 0 THEN sequence + 1 ELSE reader.last
  <2>1. m \in Nat
    BY <1>2
  <2>2. p = {r \in Chain : r.seq < m}
    <3>1. CASE reader.last = 0
      <4>1. Classes /\ Ordered
        BY <1>1 DEF Archived
      <4>2. \A r \in Chain : r.seq \in Nat /\ r.seq <= sequence
        BY <1>1, <4>1, ChainBounds, ChainLines
      <4>3. \A r \in Chain : r.seq < sequence + 1
        BY <1>2, <4>2
      <4> QED
        BY <1>3, <3>1, <4>3
    <3>2. CASE reader.last # 0
      <4>1. reader.last \in Nat \ {0}
        BY <1>2, <3>2
      <4> QED
        BY <1>1, <1>3, <1>5, <3>2, <4>1, FromCursorIs
    <3> QED
      BY <3>1, <3>2
  <2>3. Ranked(p) /\ (m <= sequence => \E r \in p : r.seq = m - 1 /\ \A q \in p : q.seq <= r.seq)
    <3> HIDE DEF m
    <3> QED
      BY <1>1, <1>5, <2>1, <2>2, ChainPart
  <2>4. reader'.pinned = p /\ reader'.last = reader.last
    BY <1>3, <1>5 DEF TypeOK, Clients
  <2>5. ASSUME NEW r \in p PROVE r.segment \in 1 .. drawn /\ r.seq > 0 /\ Readable(r)'
    <3>1. r \in Chain
      BY <2>2
    <3>2. r.segment \in 1 .. drawn /\ r.seq > 0 /\ Readable(r)
      BY <1>1, <3>1, ChainLines, ChainReadable
    <3> QED
      BY <1>1, <3>2 DEF Readable, Reads, FileOf
  <2>6. reader.last # 0 => m = reader.last
    OBVIOUS
  <2> HIDE DEF m
  <2> QED
    BY <1>1, <1>2, <2>3, <2>4, <2>5, <2>6 DEF Pinned
<1> QED
  BY <1>4, <1>5

LEMMA PinnedStays ==
  ASSUME JournalAssumption, TypeOK, Shape, Fit, damage = {}, Up => LastRow, Archived, Cursor, Bounds,
         Pinned, Next
  PROVE  Pinned'
<1>1. CASE Open
  <2>1. PICK sealed, rows, id, lines, mine, order, kept, gone :
          Opened(sealed, rows, id, lines, mine, order, kept, gone)
    BY <1>1, Opening
  <2>2. ~Up /\ UNCHANGED reader
    BY <2>1 DEF Opened, Up, clients
  <2>3. reader'.pinned = {}
    BY <2>2 DEF Pinned
  <2> QED
    BY <2>3, PinnedNone
<1>2. CASE Take \/ FlushIndex \/ RenameIndex \/ PersistIndex \/ Poll
  <2>1. Up /\ Up'
    BY <1>2, Running
  <2>2. UNCHANGED <<active, reader, drawn, files>>
    BY <1>2 DEF Take, FlushIndex, RenameIndex, PersistIndex, Poll, disk, store, clients, counts
  <2> QED
    BY <2>1, <2>2, PinnedSame
<1>3. CASE Crash
  <2>1. reader'.pinned = {}
    BY <1>3 DEF Crash, TypeOK, Clients
  <2> QED
    BY <2>1, PinnedNone
<1>4. CASE Read
  <2>1. reader'.pinned = {}
    BY <1>4 DEF Read, NewWalk
  <2> QED
    BY <2>1, PinnedNone
<1>5. CASE RenameData
  BY <1>5, PinnedRenameData
<1>6. CASE Switch
  BY <1>6, PinnedSwitch
<1>7. CASE OpenFile
  BY <1>7, PinnedOpenFile
<1>8. CASE AppendLine
  BY <1>8, PinnedAppendLine
<1>9. CASE CutAppend
  BY <1>9, PinnedCutAppend
<1>10. CASE Pin
  BY <1>10, PinnedPin
<1> QED
  BY <1>1, <1>2, <1>3, <1>4, <1>5, <1>6, <1>7, <1>8, <1>9, <1>10 DEF Next

-----------------------------------------------------------------------------
(* The steps keep the cursor.                                              *)

\* Steps that keep the files' names and the id of the index of events.jsonl.
LEMMA CursorKeeps ==
  ASSUME TypeOK, Cursor, reader'.cursor = reader.cursor, reader'.last = reader.last,
         drawn' \in Nat, drawn <= drawn',
         DOMAIN files' \subseteq DOMAIN files \cup {Active},
         \A f \in DOMAIN files : f \in DOMAIN files' /\
           \A i \in DOMAIN files[f] : i \in DOMAIN files'[f] /\ files'[f][i] = files[f][i],
         Active \in DOMAIN index' => Active \in DOMAIN index /\ index'[Active].id = index[Active].id,
         Up' => Up /\ active' = active
  PROVE  Cursor'
<1> SUFFICES ASSUME reader.last # 0 PROVE Cursor'
  BY DEF Cursor
<1>0. PICK s : s = reader.cursor.segment
  OBVIOUS
<1>1. /\ s \in 1 .. drawn /\ reader.last > 1
      /\ s \in DOMAIN files => There(s)
      /\ s \notin DOMAIN files /\ Active \in DOMAIN index /\ index[Active].id = s => There(Active)
      /\ s \notin DOMAIN files /\ Up /\ active = s => There(Active)
  BY <1>0 DEF Cursor
<1>2. \A f : There(f) => There(f)'
  BY DEF There
<1>3. s \in 1 .. drawn' /\ s # Active
  BY <1>1 DEF TypeOK, Counts, Active
<1>4. s \in DOMAIN files' <=> s \in DOMAIN files
  BY <1>3
<1>5. s = reader'.cursor.segment /\ reader'.last > 1
  BY <1>0, <1>1
<1>6. s \in DOMAIN files' => There(s)'
  BY <1>1, <1>2, <1>4
<1>9. There(Active) => There(Active)'
  BY DEF There
<1>7. s \notin DOMAIN files' /\ Active \in DOMAIN index' /\ index'[Active].id = s => There(Active)'
  BY <1>1, <1>4, <1>9
<1>8. s \notin DOMAIN files' /\ Up' /\ active' = s => There(Active)'
  BY <1>1, <1>4, <1>9
<1> QED
  BY <1>3, <1>5, <1>6, <1>7, <1>8 DEF Cursor

\* An index keeps its id when its rows or its end change.
LEMMA SameId ==
  ASSUME TypeOK, NEW x,
         index' = index \/ index' = [index EXCEPT ![Active].rows = x] \/ index' = [index EXCEPT ![Active].whole = x]
  PROVE  Active \in DOMAIN index' => Active \in DOMAIN index /\ index'[Active].id = index[Active].id
<1> SUFFICES ASSUME Active \in DOMAIN index PROVE index'[Active].id = index[Active].id
  OBVIOUS
<1>1. index[Active] = [id |-> index[Active].id, whole |-> index[Active].whole, rows |-> index[Active].rows]
  BY DEF TypeOK, OnDisk, Sidecar
<1> QED
  BY <1>1

LEMMA CursorSame ==
  ASSUME TypeOK, Cursor, UNCHANGED <<reader, drawn, files, active>>, Up' => Up,
         Active \in DOMAIN index' => Active \in DOMAIN index /\ index'[Active].id = index[Active].id
  PROVE  Cursor'
<1>1. drawn \in Nat
  BY DEF TypeOK, Counts
<1> QED
  BY <1>1, CursorKeeps

LEMMA CursorFlushIndex == ASSUME TypeOK, Cursor, FlushIndex PROVE Cursor'
<1>1. Up /\ UNCHANGED <<reader, drawn, files, active>> /\ (index' = index \/ index' = Flushed(Active))
  BY DEF FlushIndex, clients, Up
<1>2. Active \in DOMAIN index' => Active \in DOMAIN index /\ index'[Active].id = index[Active].id
  BY <1>1, SameId DEF Flushed
<1> QED
  BY <1>1, <1>2, CursorSame

LEMMA CursorRenameData == ASSUME TypeOK, Shape, Fit, damage = {}, Cursor, RenameData PROVE Cursor'
<1>1. /\ writer = "rename" /\ Up /\ Up' /\ UNCHANGED <<active, reader, drawn, index>>
      /\ drawn \in Nat
  BY DEF RenameData, clients, store, Up, TypeOK, Counts
<1>2. CASE UNCHANGED files
  BY <1>1, <1>2, CursorSame
<1>3. CASE files' = With(Without(files, {Active}), active, files[Active])
  <2>1. active # Active /\ Active \in DOMAIN files /\ active \notin DOMAIN files
    BY <1>1 DEF Shape, Phases, Segmented, Moved, TypeOK, Counts, Active
  <2>2. /\ DOMAIN files' = (DOMAIN files \ {Active}) \cup {active}
        /\ files'[active] = files[Active]
        /\ \A f \in DOMAIN files' : f # active => files'[f] = files[f]
    BY <2>1, <1>3 DEF With, Without
  <2>3. Active \in DOMAIN index => index[Active].id = active
    BY <1>1 DEF Fit, SidecarOfActive
  <2> SUFFICES ASSUME reader.last # 0 PROVE Cursor'
    BY <1>1 DEF Cursor
  <2> DEFINE s == reader.cursor.segment
  <2>4. /\ s \in 1 .. drawn /\ reader.last > 1
        /\ s \in DOMAIN files => There(s)
        /\ s \notin DOMAIN files /\ Up /\ active = s => There(Active)
    BY DEF Cursor
  <2>5. s # Active
    BY <2>4 DEF Active
  <2>6. s \in DOMAIN files' => There(s)'
    <3>1. CASE s = active
      BY <1>1, <2>1, <2>2, <2>4, <3>1 DEF There
    <3>2. CASE s # active
      BY <1>1, <2>2, <2>4, <3>2 DEF There
    <3> QED
      BY <3>1, <3>2
  <2>7. s \notin DOMAIN files' => s # active
    BY <2>2
  <2> QED
    BY <1>1, <2>3, <2>4, <2>6, <2>7 DEF Cursor
<1> QED
  BY <1>2, <1>3 DEF RenameData

LEMMA CursorRenameIndex == ASSUME TypeOK, Cursor, RenameIndex PROVE Cursor'
<1>1. Up /\ Up' /\ UNCHANGED <<active, reader, drawn, files>> /\ active # Active
  BY DEF RenameIndex, clients, store, Up, TypeOK, Counts, Active
<1>2. Active \in DOMAIN index' => Active \in DOMAIN index /\ index'[Active].id = index[Active].id
  BY <1>1 DEF RenameIndex, With, Without
<1> QED
  BY <1>1, <1>2, CursorSame

LEMMA CursorSwitch ==
  ASSUME JournalAssumption, TypeOK, Shape, Fit, damage = {}, Cursor, Switch PROVE Cursor'
<1>1. PICK kept, gone, free : Switched(kept, gone, free)
  BY Switching
<1>2. /\ writer = "switch" /\ writer' = "persist" /\ active' = drawn + 1 /\ drawn' = drawn + 1
      /\ gone \subseteq ToSet(archives)
      /\ free = gone \ Leased /\ files' = Without(files, free) /\ index' = Without(index, free) /\ UNCHANGED reader
  BY <1>1 DEF Switched, clients
<1>3. Up /\ Moved /\ drawn \in Nat
  BY <1>2 DEF Up, Moved, TypeOK, Counts
<1>4. active \in DOMAIN files /\ active \notin free /\ Active \notin free
  BY <1>2, <1>3, LinesFacts DEF Shape, Segmented
<1>5. DOMAIN files' = DOMAIN files \ free /\ \A f \in DOMAIN files' : files'[f] = files[f]
  BY <1>2 DEF Without
<1>6. Active \in DOMAIN index' => index'[Active].id = active
  <2>1. Active \in DOMAIN index => index[Active].id = active
    BY <1>2, <1>3 DEF Fit, SidecarOfActive
  <2> QED
    BY <1>2, <1>4, <2>1 DEF Without
<1> SUFFICES ASSUME reader.last # 0 PROVE Cursor'
  BY <1>2 DEF Cursor
<1> DEFINE s == reader.cursor.segment
<1>7. s \in 1 .. drawn /\ reader.last > 1 /\ (s \in DOMAIN files => There(s))
  BY DEF Cursor
<1>8. s \in 1 .. drawn' /\ s # active'
  BY <1>2, <1>3, <1>7
<1>9. s \in DOMAIN files' => There(s)'
  BY <1>2, <1>5, <1>7 DEF There
<1>10. s \notin DOMAIN files' => s # active
  BY <1>4, <1>5
<1> QED
  BY <1>2, <1>6, <1>7, <1>8, <1>9, <1>10 DEF Cursor

LEMMA CursorPersistIndex == ASSUME TypeOK, Cursor, PersistIndex PROVE Cursor'
<1>1. Up /\ Up' /\ UNCHANGED <<active, reader, drawn, files>>
  BY DEF PersistIndex, clients, Up
<1>2. CASE UNCHANGED index
  BY <1>1, <1>2, CursorSame
<1>3. CASE index' = With(index, Active, [id |-> active, whole |-> TRUE, rows |-> offsets[active]])
  <2>1. index'[Active].id = active
    BY <1>3 DEF With
  <2>2. \A f : There(f)' <=> There(f)
    BY <1>1 DEF There
  <2> QED
    BY <1>1, <2>1, <2>2 DEF Cursor
<1> QED
  BY <1>2, <1>3 DEF PersistIndex

LEMMA CursorOpenFile == ASSUME TypeOK, Cursor, OpenFile PROVE Cursor'
<1>1. Up /\ UNCHANGED <<active, reader, drawn, index>> /\ drawn \in Nat
  BY DEF OpenFile, clients, Up, TypeOK, Counts
<1>2. CASE UNCHANGED files
  BY <1>1, <1>2, CursorSame
<1>3. CASE OpenWriter
  <2>1. DOMAIN files' = DOMAIN files \cup {Active} /\ \A f \in DOMAIN files : files'[f] = files[f]
    BY <1>3, Opens
  <2> QED
    BY <1>1, <2>1, CursorKeeps
<1> QED
  BY <1>2, <1>3 DEF OpenFile

LEMMA CursorAppendLine == ASSUME TypeOK, Shape, Cursor, AppendLine PROVE Cursor'
<1>1. /\ writer = "write" /\ file /\ Up /\ UNCHANGED <<active, reader, drawn>> /\ drawn \in Nat
      /\ files' = Lines(Record)
      /\ \E rows : index' \in {index, [index EXCEPT ![Active].rows = rows]}
  BY DEF AppendLine, clients, Up, TypeOK, Counts
<1>2. Active \in DOMAIN files /\ files' = [files EXCEPT ![Active] = Append(files[Active], Record)]
  BY <1>1 DEF Shape, Phases, Lines
<1>3. /\ DOMAIN files' = DOMAIN files
      /\ \A f \in DOMAIN files : \A i \in DOMAIN files[f] : i \in DOMAIN files'[f] /\ files'[f][i] = files[f][i]
  BY <1>2, AppendFacts
<1>4. Active \in DOMAIN index' => Active \in DOMAIN index /\ index'[Active].id = index[Active].id
  BY <1>1, SameId
<1> QED
  BY <1>1, <1>3, <1>4, CursorKeeps

LEMMA CursorCutAppend == ASSUME TypeOK, Shape, Cursor, CutAppend PROVE Cursor'
<1>1. /\ writer = "write" /\ file /\ Up /\ UNCHANGED <<active, reader, drawn, index>> /\ drawn \in Nat
      /\ Cut(Garbage) \/ Cut(Record)
  BY DEF CutAppend, clients, Up, TypeOK, Counts
<1>2. ASSUME NEW line, Cut(line) PROVE Cursor'
  <2>1. /\ Active \in DOMAIN files
        /\ files' = files \/ files' = [files EXCEPT ![Active] = Append(files[Active], line)]
    BY <1>1, <1>2, CutLine
  <2>2. CASE files' = files
    BY <1>1, <2>2, CursorSame
  <2>3. CASE files' = [files EXCEPT ![Active] = Append(files[Active], line)]
    <3>1. /\ DOMAIN files' = DOMAIN files
          /\ \A f \in DOMAIN files : \A i \in DOMAIN files[f] : i \in DOMAIN files'[f] /\ files'[f][i] = files[f][i]
      BY <2>1, <2>3, AppendFacts
    <3> QED
      BY <1>1, <3>1, CursorKeeps
  <2> QED
    BY <2>1, <2>2, <2>3
<1> QED
  BY <1>1, <1>2

LEMMA CursorCrash == ASSUME TypeOK, Shape, Cursor, Crash PROVE Cursor'
<1>1. /\ ~Up' /\ reader' = [reader EXCEPT !.pinned = {}] /\ UNCHANGED drawn /\ drawn \in Nat
      /\ index' \in {index, [index EXCEPT ![Active].whole = FALSE]}
  BY DEF Crash, Up, TypeOK, Counts
<1>2. reader'.cursor = reader.cursor /\ reader'.last = reader.last
  BY <1>1 DEF TypeOK, Clients
<1>3. Active \in DOMAIN index' => Active \in DOMAIN index /\ index'[Active].id = index[Active].id
  BY <1>1, SameId
<1> QED
  BY <1>1, <1>2, <1>3, CrashKeeps, CursorKeeps

LEMMA CursorPin == ASSUME TypeOK, Cursor, Pin PROVE Cursor'
<1>1. /\ UNCHANGED <<writer, active, files, index, drawn>> /\ drawn \in Nat
      /\ reader' = NewWalk \/ \E p : reader' = [reader EXCEPT !.pinned = p]
  BY DEF Pin, disk, store, counts, TypeOK, Counts
<1>2. CASE reader' = NewWalk
  BY <1>2 DEF NewWalk, Cursor
<1>3. ASSUME NEW p, reader' = [reader EXCEPT !.pinned = p] PROVE Cursor'
  <2>1. reader'.cursor = reader.cursor /\ reader'.last = reader.last
    BY <1>3 DEF TypeOK, Clients
  <2> QED
    BY <1>1, <2>1, CursorKeeps DEF Up
<1> QED
  BY <1>1, <1>2, <1>3

\* A start gives events.jsonl the id of its index, so that the cursor's place
\* is found again.
LEMMA CursorOpen == ASSUME JournalAssumption, TypeOK, Cursor, Open PROVE Cursor'
<1>1. PICK sealed, rows, id, lines, mine, order, kept, gone :
        Opened(sealed, rows, id, lines, mine, order, kept, gone)
  BY Opening
<1>2. /\ UNCHANGED reader /\ drawn \in Nat /\ drawn' \in Nat /\ drawn <= drawn' /\ active' = id
      /\ id = Identity(sealed) /\ id \notin sealed /\ sealed = DOMAIN files \ {Active}
      /\ DOMAIN files' = kept \cup {Active} /\ kept \subseteq sealed
      /\ \A f \in kept : files'[f] = files[f]
      /\ files'[Active] = (IF Active \in DOMAIN files THEN files[Active] ELSE <<>>)
      /\ index'[Active].id = id
  BY <1>1 DEF Opened, clients, TypeOK, Counts
<1> SUFFICES ASSUME reader.last # 0 PROVE Cursor'
  BY <1>2 DEF Cursor
<1> DEFINE s == reader.cursor.segment
<1>3. /\ s \in 1 .. drawn /\ reader.last > 1
      /\ s \in DOMAIN files => There(s)
      /\ s \notin DOMAIN files /\ Active \in DOMAIN index /\ index[Active].id = s => There(Active)
  BY DEF Cursor
<1>4. s \in 1 .. drawn' /\ s # Active /\ s # drawn + 1
  BY <1>2, <1>3 DEF Active
<1>5. s \in DOMAIN files' => There(s)'
  BY <1>2, <1>3, <1>4 DEF There
<1>6. ASSUME s = id PROVE There(Active)'
  <2>1. Active \in DOMAIN index /\ index[Active].id = s
    BY <1>2, <1>4, <1>6 DEF Identity
  <2>2. s \notin DOMAIN files
    BY <1>2, <1>4, <1>6
  <2>3. There(Active)
    BY <1>3, <2>1, <2>2
  <2> QED
    BY <1>2, <2>3 DEF There
<1> QED
  BY <1>2, <1>3, <1>4, <1>5, <1>6 DEF Cursor

\* The cursor that a page leaves behind.
LEMMA ReadFacts ==
  ASSUME TypeOK, Shape, Fit, damage = {}, Pinned, Read
  PROVE  /\ Up
         /\ \/ reader' = NewWalk
            \/ \E first, next \in reader.pinned :
                 /\ reader' = [cursor |-> [segment |-> next.segment, at |-> next.at],
                               last |-> first.seq, pinned |-> {}]
                 /\ next.seq = first.seq - 1 /\ first.seq \in Nat /\ first.seq > 1 /\ first.seq <= sequence
<1> DEFINE p     == reader.pinned
           first == First(p)
           rest  == p \ {first}
           next  == First(rest)
<1>1. /\ p # {} /\ p \subseteq Place /\ Up /\ Ranked(p) /\ \A r \in p : r.seq > 0 /\ Readable(r)
      /\ reader' = IF rest = {} THEN NewWalk
                   ELSE [cursor |-> [segment |-> next.segment, at |-> next.at], last |-> first.seq, pinned |-> {}]
  BY DEF Read, Pinned, TypeOK, Clients
<1>2. sequence \in Nat /\ \A r \in p : r.seq <= sequence
  <2>1. Numbered /\ ~Ghost
    BY <1>1 DEF Fit, Ghost
  <2> QED
    BY <1>1, <2>1 DEF Readable, Reads, Numbered, TypeOK, Counts
<1>3. first \in p /\ \A q \in p : q.seq <= first.seq
  <2> HIDE DEF p
  <2> QED
    BY <1>1, <1>2, FirstOf DEF Ranked
<1> HIDE DEF first
<1>4. ASSUME rest # {}
      PROVE  next \in p /\ next.seq = first.seq - 1 /\ first.seq \in Nat /\ first.seq > 1
  <2>1. rest \subseteq Place /\ (\A r \in rest : r.seq <= sequence)
        /\ \A r, q \in rest : r # q => r.seq # q.seq /\ (Newer(r, q) <=> r.seq > q.seq)
    BY <1>1, <1>2 DEF Ranked
  <2>2. next \in rest /\ \A q \in rest : q.seq <= next.seq
    <3> HIDE DEF rest
    <3> QED
      BY <1>2, <1>4, <2>1, FirstOf
  <2>3. next \in p /\ next # first
    BY <2>2
  <2>4. next.seq \in Nat /\ first.seq \in Nat /\ next.seq > 0
    BY <1>1, <1>3, <2>3 DEF Place
  <2>5. next.seq < first.seq
    <3>1. next.seq # first.seq /\ next.seq <= first.seq
      BY <1>1, <1>3, <2>3 DEF Ranked
    <3> QED
      BY <2>4, <3>1
  <2>6. PICK x \in p : x.seq = first.seq - 1
    <3>1. first.seq - 1 \in next.seq .. first.seq
      BY <2>4, <2>5
    <3> QED
      BY <1>1, <1>3, <2>3, <3>1 DEF Ranked
  <2>7. x \in rest
    BY <2>4, <2>6
  <2>8. first.seq - 1 <= next.seq
    BY <2>2, <2>6, <2>7
  <2> QED
    BY <2>3, <2>4, <2>5, <2>8
<1>5. CASE rest = {}
  BY <1>1, <1>5
<1>6. CASE rest # {}
  BY <1>1, <1>2, <1>3, <1>4, <1>6
<1> QED
  BY <1>1, <1>5, <1>6

\* The cursor of the next page.
LEMMA CursorRead == ASSUME TypeOK, Shape, Fit, damage = {}, Pinned, Read PROVE Cursor'
<1>1. Up
  BY ReadFacts
<1>2. CASE reader' = NewWalk
  BY <1>2 DEF NewWalk, Cursor
<1>3. ASSUME NEW first \in reader.pinned, NEW next \in reader.pinned,
             reader' = [cursor |-> [segment |-> next.segment, at |-> next.at], last |-> first.seq, pinned |-> {}],
             next.seq = first.seq - 1, first.seq \in Nat, first.seq > 1
      PROVE  Cursor'
  <2> DEFINE s == next.segment
  <2>1. /\ reader'.cursor.segment = s /\ reader'.cursor.at = next.at /\ reader'.last = first.seq
        /\ s \in 1 .. drawn /\ Readable(next)
    BY <1>3 DEF Pinned
  <2>2. /\ UNCHANGED <<writer, active, archives, drawn>> /\ (Up' <=> Up)
        /\ files' = Without(files, retired) /\ index' = Without(index, retired)
    BY DEF Read, counts, Up
  <2>3. /\ DOMAIN files' = DOMAIN files \ retired /\ \A f \in DOMAIN files' : files'[f] = files[f]
        /\ Active \in DOMAIN index' => Active \in DOMAIN index /\ index'[Active] = index[Active]
        /\ Active \notin retired /\ s # Active
    BY <2>1, <2>2 DEF Without, TypeOK, InMemory, Active
  <2>4. FileOf(s) \in DOMAIN files /\ next.at \in DOMAIN files[FileOf(s)] /\ files[FileOf(s)][next.at].seq = first.seq - 1
    BY <1>3, <2>1 DEF Readable, Reads
  <2>5. Segmented /\ Phases
    BY <1>1 DEF Shape
  <2>6. s \in DOMAIN files' => There(s)'
    <3> SUFFICES ASSUME s \in DOMAIN files' PROVE There(s)'
      OBVIOUS
    <3>1. FileOf(s) = s
      BY <2>3, <2>5 DEF FileOf, Segmented, Phases
    <3> QED
      BY <2>1, <2>3, <2>4, <3>1 DEF There
  <2>7. ASSUME s \notin DOMAIN files', s = active PROVE There(Active)'
    <3>1. active \notin DOMAIN files
      BY <2>3, <2>5, <2>7 DEF Segmented
    <3>2. FileOf(s) = Active
      BY <2>4, <2>7, <3>1 DEF FileOf
    <3> QED
      BY <2>1, <2>3, <2>4, <3>2 DEF There
  <2>8. ASSUME s \notin DOMAIN files', Active \in DOMAIN index', index'[Active].id = s PROVE s = active
    <3>1. IF writer = "persist" THEN archives # <<>> /\ s = archives[1] ELSE s = active
      BY <1>1, <2>3, <2>8 DEF Fit, SidecarOfActive
    <3>2. ASSUME archives # <<>>, s = archives[1] PROVE FALSE
      <4>1. s \in ToSet(archives)
        BY <3>2 DEF ToSet, TypeOK, InMemory
      <4> QED
        BY <2>3, <2>5, <2>8, <4>1 DEF Segmented
    <3> QED
      BY <3>1, <3>2
  <2> QED
    BY <1>3, <2>1, <2>2, <2>6, <2>7, <2>8 DEF Cursor
<1> QED
  BY <1>2, <1>3, ReadFacts

LEMMA CursorStays ==
  ASSUME JournalAssumption, TypeOK, Shape, Fit, damage = {}, Pinned, Cursor, Next PROVE Cursor'
<1>1. CASE Take \/ Poll
  <2>1. UNCHANGED <<reader, drawn, files, active, index>> /\ (Up' => Up)
    BY <1>1, Running DEF Take, Poll, disk, store, clients, counts
  <2> QED
    BY <2>1, CursorSame
<1> QED
  BY <1>1, CursorFlushIndex, CursorRenameData, CursorRenameIndex, CursorSwitch, CursorPersistIndex,
     CursorOpenFile, CursorAppendLine, CursorCutAppend, CursorCrash, CursorPin, CursorOpen, CursorRead
  DEF Next

-----------------------------------------------------------------------------

\* Every step keeps the parts of Pages.
LEMMA BoundsStay ==
  ASSUME JournalAssumption, TypeOK, Shape, Fit, damage = {}, Up => LastRow, Bounds, Pinned, Next
  PROVE  Bounds'
<1>1. pruned \in Nat /\ sequence \in Nat
  BY DEF TypeOK, Counts
<1>2. Marked(pruned)'
  <2>1. CASE UNCHANGED pruned
    <3>1. \A n \in Nat : Marked(n) => Marked(n)'
      BY MarkStays
    <3> QED
      BY <1>1, <2>1, <3>1 DEF Bounds, Marked
  <2>2. CASE Open
    <3>1. PICK sealed, rows, id, lines, mine, order, kept, gone :
            Opened(sealed, rows, id, lines, mine, order, kept, gone)
      BY <2>2, Opening
    <3>2. FileOrder /\ SidecarsFit
      BY DEF Fit
    <3>3. Marked(pruned)' <=> pruned' <= sequence'
      BY <3>1 DEF Opened, Marked, Up
    <3>4. CASE pruned' = pruned
      BY <2>1, <3>4
    <3>5. ASSUME NEW f \in gone, pruned' = LastSequence(rows[f]) PROVE pruned' <= sequence'
      <4>1. f \in DOMAIN files /\ rows[f] = Loaded(f, f) /\ rows[f] \in RowSets /\ sequence' \in Nat
        BY <3>1 DEF Opened
      <4>2. Digest(rows[f], files[f])
        BY <3>2, <4>1, LoadedFits
      <4>3. LastSequence(rows[f]) = 0 \/ \E r \in rows[f] : r.seq = LastSequence(rows[f])
        BY <4>1, LastFacts DEF RowSets
      <4>4. ASSUME NEW r \in rows[f], r.seq = LastSequence(rows[f]) PROVE pruned' <= sequence'
        <5>1. r.at \in DOMAIN files[f] /\ files[f][r.at].seq = r.seq
          BY <4>2 DEF Digest, RowsAt
        <5>2. files[f][r.at].seq <= sequence'
          BY <3>1, <3>2, <4>1, <5>1, OpenAbove
        <5> QED
          BY <3>5, <4>4, <5>1, <5>2
      <4> QED
        BY <3>5, <4>1, <4>3, <4>4
    <3>6. pruned' = pruned \/ \E f \in gone : pruned' = LastSequence(rows[f])
      BY <3>1 DEF Opened
    <3> QED
      BY <3>3, <3>4, <3>5, <3>6
  <2>3. CASE Switch
    <3>1. PICK kept, gone, free : Switched(kept, gone, free)
      BY <2>3, Switching
    <3>2. /\ Up /\ Up' /\ UNCHANGED sequence /\ gone \subseteq ToSet(archives)
          /\ \A f \in gone : offsets[f] \in RowSets
          /\ pruned' = pruned \/ \E f \in gone : pruned' = LastSequence(offsets[f])
      BY <3>1 DEF Switched, Up, state
    <3>3. pruned <= sequence
      BY <3>2 DEF Bounds, Marked
    <3>4. ASSUME NEW f \in gone PROVE LastSequence(offsets[f]) <= sequence
      <4>1. \A r \in offsets[f] : r.seq <= sequence
        BY <3>2, LinesFacts DEF Fit, Fits
      <4>2. LastSequence(offsets[f]) = 0 \/ \E r \in offsets[f] : r.seq = LastSequence(offsets[f])
        BY <3>2, LastFacts DEF RowSets
      <4> QED
        BY <1>1, <4>1, <4>2
    <3> QED
      BY <3>2, <3>3, <3>4 DEF Marked
  <2>4. Open \/ Switch \/ UNCHANGED pruned
    <3>1. Take \/ FlushIndex \/ RenameIndex \/ RenameData \/ PersistIndex \/ OpenFile => UNCHANGED pruned
      BY DEF Take, FlushIndex, RenameIndex, RenameData, PersistIndex, OpenFile, history
    <3>2. AppendLine \/ CutAppend \/ Crash \/ Poll \/ Read => UNCHANGED pruned
      BY DEF AppendLine, CutAppend, Crash, Poll, Read, history
    <3>3. ASSUME Pin PROVE UNCHANGED pruned
      <4>1. UNCHANGED history
        BY <3>3 DEF Pin
      <4> QED
        BY <4>1 DEF history
    <3> QED
      BY <3>1, <3>2, <3>3 DEF Next
  <2> QED
    BY <2>1, <2>2, <2>3, <2>4
<1>3. reader'.last \in Nat /\ Marked(reader.last)'
  <2>1. reader.last \in Nat /\ Marked(reader.last)
    BY DEF Bounds
  <2>2. CASE reader'.last = reader.last
    <3>1. \A n \in Nat : Marked(n) => Marked(n)'
      BY MarkStays
    <3> QED
      BY <2>1, <2>2, <3>1 DEF Marked
  <2>3. CASE reader' = NewWalk
    <3>1. reader'.last = 0 /\ sequence' \in {sequence, sequence + 1} \cup {sequence'}
      BY <2>3 DEF NewWalk
    <3>2. Pin \/ Read => UNCHANGED sequence
      BY DEF Pin, Read, state
    <3>3. \A n \in Nat : Marked(n) => Marked(n)'
      BY MarkStays
    <3>4. Marked(0)
      BY <1>1 DEF Marked
    <3> QED
      BY <3>1, <3>3, <3>4 DEF Marked
  <2>4. CASE Read
    <3>1. Up /\ Up' /\ UNCHANGED sequence
      BY <2>4, ReadFacts DEF Read, state, Up
    <3>2. ASSUME NEW first, NEW next,
                 reader' = [cursor |-> [segment |-> next.segment, at |-> next.at], last |-> first.seq, pinned |-> {}],
                 first.seq \in Nat, first.seq <= sequence
          PROVE  reader'.last \in Nat /\ Marked(reader.last)'
      BY <3>1, <3>2 DEF Marked
    <3> QED
      BY <2>3, <2>4, <3>2, ReadFacts
  <2>5. CASE Pin
    <3>1. reader' = NewWalk \/ \E p : reader' = [reader EXCEPT !.pinned = p]
      BY <2>5 DEF Pin
    <3>2. \A p : reader' = [reader EXCEPT !.pinned = p] => reader'.last = reader.last
      BY DEF TypeOK, Clients
    <3> QED
      BY <2>2, <2>3, <3>1, <3>2
  <2>6. CASE Crash
    <3>1. reader'.last = reader.last
      BY <2>6 DEF Crash, TypeOK, Clients
    <3> QED
      BY <2>2, <3>1
  <2>7. CASE Open
    <3>1. PICK sealed, rows, id, lines, mine, order, kept, gone :
            Opened(sealed, rows, id, lines, mine, order, kept, gone)
      BY <2>7, Opening
    <3>2. UNCHANGED reader
      BY <3>1 DEF Opened, clients
    <3> QED
      BY <2>2, <3>2
  <2>8. CASE Take \/ FlushIndex \/ RenameIndex \/ RenameData \/ PersistIndex \/ OpenFile
    <3>1. UNCHANGED reader
      BY <2>8 DEF Take, FlushIndex, RenameIndex, RenameData, PersistIndex, OpenFile, clients
    <3> QED
      BY <2>2, <3>1
  <2>9. CASE AppendLine \/ CutAppend \/ Poll \/ Switch
    <3>1. UNCHANGED reader
      BY <2>9 DEF AppendLine, CutAppend, Poll, Switch, clients
    <3> QED
      BY <2>2, <3>1
  <2> QED
    BY <2>4, <2>5, <2>6, <2>7, <2>8, <2>9 DEF Next
<1> QED
  BY <1>2, <1>3 DEF Bounds

LEMMA ArchivedStays ==
  ASSUME JournalAssumption, TypeOK, Shape, Fit, damage = {}, damage' = {}, Up => LastRow, Marked(pruned),
         Archived, Next
  PROVE  Archived'
<1>1. Up => LastRow /\ pruned <= sequence
  BY DEF Marked
<1>2. CASE Take \/ FlushIndex \/ RenameIndex \/ PersistIndex \/ Poll \/ Pin
  <2>1. Up /\ Up'
    BY <1>2, Running
  <2>2. CASE Take \/ FlushIndex
    BY <2>1, <2>2, ArchivedKeeps DEF Take, FlushIndex, disk, store, history, Moved
  <2>3. CASE RenameIndex \/ PersistIndex
    BY <2>1, <2>3, ArchivedKeeps DEF RenameIndex, PersistIndex, store, history, Moved
  <2>4. CASE Poll
    BY <2>1, <2>4, ArchivedKeeps DEF Poll, disk, store, history, Moved
  <2>5. CASE Pin
    <3>1. UNCHANGED <<disk, store, history, writer>>
      BY <2>5 DEF Pin
    <3> QED
      BY <2>1, <3>1, ArchivedKeeps DEF disk, store, history, Moved
  <2> QED
    BY <1>2, <2>2, <2>3, <2>4, <2>5
<1>3. AppendLine \/ CutAppend \/ Crash => Up
  BY DEF AppendLine, CutAppend, Crash, Up
<1> QED
  BY <1>1, <1>2, <1>3, ArchivedRenameData, ArchivedSwitch, ArchivedOpenFile, ArchivedAppendLine,
     ArchivedCutAppend, ArchivedCrash, ArchivedRead, ArchivedOpen
  DEF Next

\* Every step keeps it.
LEMMA PagesStep ==
  ASSUME JournalAssumption, TypeOK, Shape, Fit, Sequenced, Pages, Next PROVE Pages'
<1> SUFFICES ASSUME damage' = {} PROVE (Bounds /\ Archived /\ Pinned /\ Cursor)'
  BY DEF Pages, Archived
<1>1. damage = {}
  BY DamageGrows
<1>2. Bounds /\ Archived /\ Pinned /\ Cursor /\ (Up => LastRow)
  BY <1>1 DEF Pages, Archived, Sequenced, Ending
<1>3. Bounds'
  BY <1>1, <1>2, BoundsStay
<1>4. Archived'
  BY <1>1, <1>2, ArchivedStays DEF Bounds
<1>5. Pinned'
  BY <1>1, <1>2, PinnedStays
<1>6. Cursor'
  BY <1>1, <1>2, CursorStays
<1> QED
  BY <1>3, <1>4, <1>5, <1>6

\* And it is what the property says.
LEMMA Continues == ASSUME TypeOK, Shape, Fit, Pages PROVE PagesContinue
<1> SUFFICES ASSUME damage = {} PROVE PagesContinue
  BY DEF PagesContinue
<1> DEFINE p == reader.pinned
<1>1. /\ \A r \in p : Readable(r)
      /\ Ranked(p) /\ p \subseteq Place
      /\ p # {} => Up
      /\ p # {} /\ reader.last # 0 => \E r \in p : r.seq = reader.last - 1 /\ \A q \in p : q.seq <= r.seq
  BY DEF Pages, Pinned, TypeOK, Clients
<1>2. ASSUME p # {}, reader.last # 0 PROVE First(p).seq = reader.last - 1
  <2>1. PICK g \in p : g.seq = reader.last - 1 /\ \A q \in p : q.seq <= g.seq
    BY <1>1, <1>2
  <2>2. g.seq \in Nat
    BY <1>1 DEF Place
  <2>3. First(p) \in p /\ \A q \in p : q.seq <= First(p).seq
    <3> HIDE DEF p
    <3> QED
      BY <1>1, <1>2, <2>1, <2>2, FirstOf DEF Ranked
  <2>4. First(p).seq \in Nat /\ First(p).seq <= g.seq /\ g.seq <= First(p).seq
    BY <1>1, <2>1, <2>3 DEF Place
  <2> QED
    BY <2>1, <2>2, <2>4
<1> QED
  BY <1>1, <1>2 DEF PagesContinue, Ranked

LEMMA HistoryStep == ASSUME JournalAssumption, TypeOK, Shape, Fit, History, Next PROVE History'
BY HistoryOpen, HistoryTake, HistoryFlushIndex, HistoryRenameData, HistoryRenameIndex, HistorySwitch,
   HistoryPersistIndex, HistoryOpenFile, HistoryAppendLine, HistoryCutAppend, HistoryCrash, HistoryPoll,
   HistoryPin, HistoryRead
DEF Next

-----------------------------------------------------------------------------
(* The theorems.                                                           *)

IInv == FilesIInv /\ History /\ Sequenced /\ Pages

LEMMA InitIInv == ASSUME Init PROVE IInv
<1>1. ~Up /\ ~Moved /\ DOMAIN files = {} /\ DOMAIN index = {} /\ DOMAIN offsets = {} /\ DOMAIN acked = {}
  BY DEF Init, Up, Moved
<1>2. FilesIInv
  BY InitFiles
<1>3. History
  BY <1>1 DEF History, Holding
<1>4. Sequenced
  BY <1>1 DEF Init, Sequenced, Marks, Marked, Polled, Received
<1>5. Pages
  <2>1. Bounds
    BY <1>1 DEF Init, Bounds, Marked, NewWalk
  <2>2. Filled /\ Classes /\ Ranks
    BY <1>1 DEF Filled, Classes, Ranks, Sealed, Fresher
  <2>3. Pinned
    BY <1>1 DEF Init, Pinned, Ranked, NewWalk
  <2>4. Cursor
    BY DEF Init, Cursor, NewWalk
  <2> QED
    BY <1>1, <2>1, <2>2, <2>3, <2>4 DEF Pages
<1> QED
  BY <1>2, <1>3, <1>4, <1>5 DEF IInv

LEMMA StutterIInv == ASSUME History, Sequenced, Pages, UNCHANGED vars PROVE (History /\ Sequenced /\ Pages)'
<1>1. Still /\ (Up' <=> Up) /\ (Moved' <=> Moved)
  BY Stuttering
<1>2. History'
  BY <1>1 DEF Still, History, Holding, Holds, Retiring
<1>3. Sequenced'
  BY <1>1 DEF Still, Sequenced, Marks, Marked, Polled, Received, Ending, LastRow, Fresh, LiveFits
<1>4. Pages'
  <2>1. Bounds => Bounds'
    BY <1>1 DEF Still, Bounds, Marked
  <2>2. (Filled => Filled') /\ (Classes => Classes') /\ (Ranks => Ranks')
    BY <1>1 DEF Still, Filled, Has, Classes, Ranks, Sealed, Fresher
  <2>3. Ordered => Ordered'
    BY <1>1 DEF Still, Ordered
  <2>4. Pinned => Pinned'
    BY <1>1 DEF Still, Pinned, Readable, Reads, FileOf
  <2>5. Cursor => Cursor'
    BY <1>1 DEF Still, Cursor, There
  <2> QED
    BY <1>1, <2>1, <2>2, <2>3, <2>4, <2>5 DEF Pages, Still
<1> QED
  BY <1>2, <1>3, <1>4

LEMMA StepIInv == ASSUME JournalAssumption, IInv, [Next]_vars PROVE IInv'
<1>1. TypeOK /\ Shape /\ Fit /\ History /\ Sequenced /\ Pages
  BY DEF IInv, FilesIInv
<1>2. FilesIInv'
  BY StepFiles DEF IInv
<1>3. CASE Next
  <2>1. History' /\ Sequenced' /\ Pages'
    BY <1>1, <1>3, HistoryStep, SequencedStep, PagesStep
  <2> QED
    BY <1>2, <2>1 DEF IInv
<1>4. CASE UNCHANGED vars
  BY <1>1, <1>2, <1>4, StutterIInv DEF IInv
<1> QED
  BY <1>3, <1>4

\* The inductive invariant.
THEOREM Invariance == Spec => []IInv
<1>1. Init => IInv
  BY InitIInv
<1>2. IInv /\ [Next]_vars => IInv'
  BY JournalAssumption, StepIInv
<1> QED
  BY <1>1, <1>2, PTL DEF Spec

\* Whatever failed or crashed, an event that was given a sequence is in the
\* history under it until its segment is pruned, and every row of the store
\* can be read (event_journal.rs append; history.rs rotate, open_writer,
\* load); but for a ghost and a stale sidecar.
THEOREM EventsHeld == Spec => []HistoryHoldsEvents
<1>1. IInv => HistoryHoldsEvents
  BY HoldsEvents DEF IInv, FilesIInv
<1> QED
  BY <1>1, Invariance, PTL

\* A page is readable, in order and without a hole, and goes on where the
\* last one ended, whether by cursor or by sequence, across rotations,
\* pruning, failures and restarts (history.rs snapshot, read, SegmentLease).
THEOREM WalkContinues == Spec => []PagesContinue
<1>1. IInv => PagesContinue
  BY Continues DEF IInv, FilesIInv
<1> QED
  BY <1>1, Invariance, PTL

\* A poller that was not told to reset has every event between where it
\* began and where it is, also over a restart (event_journal.rs query,
\* open_with_limit).
THEOREM NothingMissed == Spec => []PollerMissesNothing
<1>1. IInv => PollerMissesNothing
  BY MissesNothing DEF IInv
<1> QED
  BY <1>1, Invariance, PTL
=============================================================================
