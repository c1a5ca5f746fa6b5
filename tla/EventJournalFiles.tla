------------------------- MODULE EventJournalFiles --------------------------
(***************************************************************************)
(* The files and the memory of the event journal, for any number of        *)
(* events, segments, faults and crashes, any retention, any live limit and *)
(* any interval of the index's flushes: the first half of the proofs about *)
(* EventJournal.                                                           *)
(*                                                                         *)
(* What is promised of an index is that it is a digest of its file: its    *)
(* rows are records, and no record before the last of them is left out.    *)
(* Then a start that loads the rest of the file has all of it (LoadDigest).*)
(* This must hold of each sidecar and of the rows in memory, while files   *)
(* grow, are renamed away from their indexes and are removed, and a crash  *)
(* may come between any two of these steps.                                *)
(***************************************************************************)
EXTENDS EventJournal, FiniteSetTheorems, TLAPS

-----------------------------------------------------------------------------
(* Rows and lines.                                                         *)

\* What a line and a row of an index are.
Line == [seq : Nat, event : Nat]
Row  == [seq : Nat, at : Nat]

\* The sequences grow with the lines.
Growing(rows) == \A r, q \in rows : r.at < q.at => r.seq < q.seq

\* A line without a record needs no row.
Held(rows, line) == line.seq = 0 \/ \E r \in rows : r.seq = line.seq

\* The rows are records of the file, and none is left out before the last.
Digest(rows, lines) ==
  /\ rows \subseteq RowsAt(lines, DOMAIN lines)
  /\ \A r \in rows : r.seq > 0
  /\ Growing(rows)
  /\ \A r \in rows : \A i \in 1 .. r.at : Held(rows, lines[i])

\* The records of a file are in the order of their sequences; strictly so
\* without a ghost.
Sorted(lines) ==
  \A i, j \in DOMAIN lines :
     i < j /\ lines[i].seq > 0 /\ lines[j].seq > 0 => lines[i].seq <= lines[j].seq
Strict(lines) ==
  \A i, j \in DOMAIN lines :
     i < j /\ lines[i].seq > 0 /\ lines[j].seq > 0 => lines[i].seq < lines[j].seq

RowSets == {rows \in SUBSET Row : IsFiniteSet(rows)}

\* A finite set of numbers has a greatest one.
LEMMA Greatest ==
  ASSUME NEW S, IsFiniteSet(S), S \subseteq Nat, S # {}
  PROVE  \E x \in S : \A y \in S : x >= y
<1> DEFINE Up(k) == {j \in S : j >= k}
           T == {Up(k) : k \in S}
<1>1. T \subseteq FiniteSubsetsOf(S)
  BY FS_Subset DEF FiniteSubsetsOf
<1>2. T # {}
  OBVIOUS
<1>3. IsWellFoundedOn(StrictSubsetOrdering(S), FiniteSubsetsOf(S))
  BY FS_StrictSubsetOrderingWellFounded
<1>4. \E U \in T : \A V \in T : <<V, U>> \notin StrictSubsetOrdering(S)
  <2> HIDE DEF T
  <2> QED
    BY <1>1, <1>2, <1>3, WFMin
<1>5. PICK k \in S : \A V \in T : <<V, Up(k)>> \notin StrictSubsetOrdering(S)
  BY <1>4
<1>6. ASSUME NEW j \in S, ~(k >= j) PROVE FALSE
  <2>1. Up(j) \subseteq Up(k) /\ k \in Up(k) /\ k \notin Up(j)
    <3>1. j \in Nat /\ k \in Nat /\ j > k
      BY <1>6
    <3>2. \A i \in S : i \in Nat /\ (i >= j => i >= k)
      BY <3>1
    <3>3. ~(k >= j) /\ k >= k
      BY <3>1
    <3> QED
      BY <3>2, <3>3, Zenon
  <2>2. Up(j) \in T /\ Up(j) \in SUBSET S /\ Up(k) \in SUBSET S
    OBVIOUS
  <2>3. <<Up(j), Up(k)>> \in StrictSubsetOrdering(S)
    <3> HIDE DEF Up
    <3> QED
    BY <2>1, <2>2 DEF StrictSubsetOrdering
  <2> QED BY <2>2, <2>3, <1>5
<1> QED BY <1>6

LEMMA MaxOf ==
  ASSUME NEW S, IsFiniteSet(S), S \subseteq Nat, S # {}
  PROVE  Max(S) \in S /\ Max(S) \in Nat /\ \A y \in S : Max(S) >= y
<1>1. \E x \in S : \A y \in S : x >= y
  BY Greatest
<1>2. Max(S) \in S /\ \A y \in S : Max(S) >= y
  BY <1>1, Zenon DEF Max
<1> QED
  BY <1>2

\* Min is defined for the sets of places that are searched.
LEMMA MinOf ==
  ASSUME NEW S, S \subseteq Nat, S # {}
  PROVE  Min(S) \in S /\ Min(S) \in Nat /\ \A y \in S : Min(S) <= y
<1>1. PICK k \in S : TRUE
  OBVIOUS
<1> DEFINE T == {n \in 0 .. k : k - n \in S}
<1>2. T \subseteq Nat /\ 0 \in T
  BY <1>1
<1>3. IsFiniteSet(T)
  <2>1. k \in Int /\ 0 \in Int /\ T \in SUBSET (0 .. k)
    BY <1>1
  <2>2. IsFiniteSet(0 .. k)
    BY <2>1, FS_Interval
  <2> QED
    BY <2>1, <2>2, FS_Subset
<1>4. PICK n \in T : \A m \in T : n >= m
  BY <1>2, <1>3, Greatest
<1>5. k - n \in S
  BY <1>4
<1>6. ASSUME NEW y \in S PROVE k - n <= y
  <2>1. CASE y >= k
    BY <2>1, <1>4, <1>6
  <2>2. CASE y < k
    <3>1. k - y \in T
      <4>1. k - (k - y) = y /\ k - y \in 0 .. k
        BY <2>2, <1>6
      <4> QED
        BY <4>1
    <3> QED
      BY <3>1, <1>4, <1>6
  <2> QED
    BY <2>1, <2>2, <1>6
<1>7. \E x \in S : \A y \in S : x <= y
  BY <1>5, <1>6
<1>8. Min(S) \in S /\ \A y \in S : Min(S) <= y
  BY <1>7, Zenon DEF Min
<1> QED
  BY <1>8

\* The last sequence and the last line of rows.
LEMMA LastFacts ==
  ASSUME NEW rows, rows \subseteq Row, IsFiniteSet(rows)
  PROVE  /\ LastSequence(rows) \in Nat
         /\ \A r \in rows : r.seq <= LastSequence(rows)
         /\ LastSequence(rows) = 0 \/ \E r \in rows : r.seq = LastSequence(rows)
         /\ LastLine(rows) \in Nat
         /\ \A r \in rows : r.at <= LastLine(rows)
         /\ LastLine(rows) = 0 \/ \E r \in rows : r.at = LastLine(rows)
<1>1. IsFiniteSet({0} \cup {r.seq : r \in rows})
  <2> DEFINE f == [r \in rows |-> r.seq]
             T == {r.seq : r \in rows}
  <2>1. f \in Surjection(rows, T)
    BY DEF Surjection
  <2>2. IsFiniteSet(T)
    <3> HIDE DEF f, T
    <3> QED
      BY <2>1, FS_Surjection
  <2> QED
    BY <2>2, FS_Singleton, FS_Union
<1>2. IsFiniteSet({0} \cup {r.at : r \in rows})
  <2> DEFINE f == [r \in rows |-> r.at]
             T == {r.at : r \in rows}
  <2>1. f \in Surjection(rows, T)
    BY DEF Surjection
  <2>2. IsFiniteSet(T)
    <3> HIDE DEF f, T
    <3> QED
      BY <2>1, FS_Surjection
  <2> QED
    BY <2>2, FS_Singleton, FS_Union
<1>3. \A r \in rows : r.seq \in Nat /\ r.at \in Nat
  BY DEF Row
<1>4. /\ LastSequence(rows) \in {0} \cup {r.seq : r \in rows}
      /\ \A y \in {0} \cup {r.seq : r \in rows} : LastSequence(rows) >= y
  <2> DEFINE S == {0} \cup {r.seq : r \in rows}
  <2>1. S \subseteq Nat /\ S # {} /\ IsFiniteSet(S)
    BY <1>1, <1>3
  <2>2. LastSequence(rows) = Max(S)
    BY DEF LastSequence
  <2> HIDE DEF S
  <2>3. Max(S) \in S /\ \A y \in S : Max(S) >= y
    BY <2>1, MaxOf
  <2> QED
    BY <2>2, <2>3 DEF S
<1>5. /\ LastLine(rows) \in {0} \cup {r.at : r \in rows}
      /\ \A y \in {0} \cup {r.at : r \in rows} : LastLine(rows) >= y
  <2> DEFINE S == {0} \cup {r.at : r \in rows}
  <2>1. S \subseteq Nat /\ S # {} /\ IsFiniteSet(S)
    BY <1>2, <1>3
  <2>2. LastLine(rows) = Max(S)
    BY DEF LastLine
  <2> HIDE DEF S
  <2>3. Max(S) \in S /\ \A y \in S : Max(S) >= y
    BY <2>1, MaxOf
  <2> QED
    BY <2>2, <2>3 DEF S
<1>6. LastSequence(rows) \in Nat /\ (\A r \in rows : r.seq <= LastSequence(rows))
       /\ (LastSequence(rows) = 0 \/ \E r \in rows : r.seq = LastSequence(rows))
  BY <1>3, <1>4
<1>7. LastLine(rows) \in Nat /\ (\A r \in rows : r.at <= LastLine(rows))
       /\ (LastLine(rows) = 0 \/ \E r \in rows : r.at = LastLine(rows))
  BY <1>3, <1>5
<1> QED
  BY <1>6, <1>7

\* The rows of some lines of a file.
LEMMA RowsFinite ==
  ASSUME NEW lines \in Seq(Line), NEW where, where \subseteq DOMAIN lines
  PROVE  IsFiniteSet(RowsAt(lines, where)) /\ RowsAt(lines, where) \subseteq Row
<1>1. IsFiniteSet(where)
  <2>1. IsFiniteSet(1 .. Len(lines)) /\ where \in SUBSET (1 .. Len(lines))
    BY FS_Interval
  <2> QED
    BY <2>1, FS_Subset
<1>2. IsFiniteSet(RowsAt(lines, where))
  <2> DEFINE f == [i \in where |-> [seq |-> lines[i].seq, at |-> i]]
  <2>1. f \in Surjection(where, RowsAt(lines, where))
    BY DEF Surjection, RowsAt
  <2> HIDE DEF f
  <2> QED
    BY <2>1, <1>1, FS_Surjection
<1>3. \A i \in where : lines[i].seq \in Nat /\ i \in Nat
  <2>1. \A i \in where : lines[i] \in Line /\ i \in Nat
    OBVIOUS
  <2> QED
    BY <2>1 DEF Line
<1>4. RowsAt(lines, where) \subseteq Row
  BY <1>3 DEF RowsAt, Row
<1> QED
  BY <1>2, <1>4

LEMMA RowsFacts ==
  ASSUME NEW lines \in Seq(Line), NEW rows, rows \subseteq RowsAt(lines, DOMAIN lines)
  PROVE  /\ IsFiniteSet(rows)
         /\ rows \subseteq Row
         /\ \A r \in rows : r.at \in DOMAIN lines /\ r.seq = lines[r.at].seq
         /\ LastSequence(rows) \in Nat
         /\ \A r \in rows : r.seq <= LastSequence(rows)
         /\ LastSequence(rows) = 0 \/ \E r \in rows : r.seq = LastSequence(rows)
         /\ LastLine(rows) \in 0 .. Len(lines)
         /\ \A r \in rows : r.at <= LastLine(rows)
         /\ LastLine(rows) = 0 \/ \E r \in rows : r.at = LastLine(rows)
<1>1. IsFiniteSet(RowsAt(lines, DOMAIN lines)) /\ RowsAt(lines, DOMAIN lines) \subseteq Row
  BY RowsFinite
<1>2. IsFiniteSet(rows) /\ rows \subseteq Row
  BY <1>1, FS_Subset
<1>3. \A r \in rows : r.at \in DOMAIN lines /\ r.seq = lines[r.at].seq
  BY DEF RowsAt
<1> QED
  BY <1>2, <1>3, LastFacts

\* Loading completes the rows of a sidecar to those of the whole file.
LEMMA LoadDigest ==
  ASSUME NEW lines \in Seq(Line), NEW rows, Digest(rows, lines), Sorted(lines),
         NEW all, NEW where, where \subseteq LastLine(rows) + 1 .. Len(lines),
         \A i \in LastLine(rows) + 1 .. Len(lines) :
            i \in where <=> /\ lines[i].seq > LastSequence(rows)
                            /\ \A j \in LastLine(rows) + 1 .. Len(lines) : j < i => lines[j].seq < lines[i].seq,
         all = rows \cup RowsAt(lines, where)
  PROVE  Digest(all, lines) /\ \A i \in DOMAIN lines : Held(all, lines[i])
<1>1. rows \subseteq RowsAt(lines, DOMAIN lines)
  BY DEF Digest
<1> DEFINE k == LastLine(rows)
           s == LastSequence(rows)
<1>2. /\ k \in 0 .. Len(lines) /\ s \in Nat
      /\ rows \subseteq Row
      /\ \A r \in rows : r.at \in DOMAIN lines /\ r.seq = lines[r.at].seq /\ r.seq <= s /\ r.at <= k
      /\ s = 0 \/ \E r \in rows : r.seq = s
      /\ k = 0 \/ \E r \in rows : r.at = k
  BY <1>1, RowsFacts
<1>3. \A i \in DOMAIN lines : lines[i] \in Line /\ lines[i].seq \in Nat
  <2>1. \A i \in DOMAIN lines : lines[i] \in Line
    OBVIOUS
  <2> QED
    BY <2>1 DEF Line
<1>4. \A i \in k + 1 .. Len(lines) :
         i \in where <=> /\ lines[i].seq > s
                         /\ \A j \in k + 1 .. Len(lines) : j < i => lines[j].seq < lines[i].seq
  OBVIOUS
<1>5. \A r, q \in rows : r.at < q.at => r.seq < q.seq
  BY DEF Digest, Growing
<1>6. (\A r \in rows : r.seq > 0) /\ \A r \in rows : \A i \in 1 .. r.at : Held(rows, lines[i])
  BY DEF Digest
<1>7. where \subseteq k + 1 .. Len(lines) /\ DOMAIN lines = 1 .. Len(lines)
  OBVIOUS
<1> HIDE DEF k, s
<1>8. \A r \in all : r \in rows \/ \E i \in where : r = [seq |-> lines[i].seq, at |-> i]
  BY DEF RowsAt
<1>9. all \subseteq RowsAt(lines, DOMAIN lines)
  BY <1>8, <1>1, <1>7, <1>2 DEF RowsAt
<1>10. \A r \in all : r.seq > 0
  <2> SUFFICES ASSUME NEW r \in all, r \notin rows PROVE r.seq > 0
    BY <1>6
  <2>1. PICK i \in where : r = [seq |-> lines[i].seq, at |-> i]
    BY <1>8
  <2>2. lines[i].seq > s /\ lines[i].seq \in Nat
    BY <1>4, <1>7, <1>3, <1>2
  <2> QED
    BY <2>1, <2>2, <1>2
<1>11. Growing(all)
  <2> SUFFICES ASSUME NEW r \in all, NEW q \in all, r.at < q.at
               PROVE  r.seq < q.seq
    BY DEF Growing
  <2>1. CASE r \in rows /\ q \in rows
    BY <2>1, <1>5
  <2>2. CASE r \notin rows
    <3>1. PICK i \in where : r = [seq |-> lines[i].seq, at |-> i]
      BY <2>2, <1>8
    <3>2. q \notin rows
      BY <3>1, <1>7, <1>2
    <3>3. PICK j \in where : q = [seq |-> lines[j].seq, at |-> j]
      BY <3>2, <1>8
    <3> QED
      BY <3>1, <3>3, <1>4, <1>7
  <2>3. CASE r \in rows /\ q \notin rows
    <3>3. PICK j \in where : q = [seq |-> lines[j].seq, at |-> j]
      BY <2>3, <1>8
    <3>4. lines[j].seq > s /\ r.seq <= s /\ r.seq \in Nat /\ lines[j].seq \in Nat
      BY <2>3, <1>2, <1>4, <1>7, <1>3 DEF Row
    <3> QED
      BY <3>3, <3>4, <1>2
  <2> QED
    BY <2>1, <2>2, <2>3
<1>12. ASSUME NEW i \in DOMAIN lines PROVE Held(all, lines[i])
  <2>1. CASE i <= k
    <3>1. PICK r \in rows : r.at = k
      BY <2>1, <1>2, <1>7
    <3>2. Held(rows, lines[i])
      BY <3>1, <2>1, <1>6, <1>7, <1>2
    <3> QED
      BY <3>2 DEF Held
  <2>2. CASE i > k /\ lines[i].seq > 0
    <3> DEFINE T == {j \in k + 1 .. Len(lines) : lines[j].seq = lines[i].seq}
    <3>1. i \in T /\ T \subseteq Nat
      BY <2>2, <1>7, <1>2
    <3>2. PICK j \in T : \A m \in T : j <= m
      BY <3>1, MinOf
    <3>3. j \in k + 1 .. Len(lines) /\ lines[j].seq = lines[i].seq
      OBVIOUS
    <3>4. CASE lines[i].seq > s
      <4>1. ASSUME NEW m \in k + 1 .. Len(lines), m < j PROVE lines[m].seq < lines[j].seq
        <5>1. lines[m].seq # lines[i].seq
          BY <3>2, <4>1, <3>3, <1>2
        <5>2. lines[m].seq = 0 \/ lines[m].seq <= lines[j].seq
          BY <4>1, <3>3, <2>2, <1>2, <1>3, <1>7 DEF Sorted
        <5> QED
          BY <5>1, <5>2, <3>3, <2>2, <1>3, <1>7, <1>2, <4>1
      <4>2. j \in where
        BY <3>3, <3>4, <4>1, <1>4
      <4>3. [seq |-> lines[j].seq, at |-> j] \in all
        BY <4>2 DEF RowsAt
      <4> QED
        BY <4>3, <3>3 DEF Held
    <3>5. CASE ~(lines[i].seq > s)
      <4>1. PICK r \in rows : r.seq = s
        BY <3>5, <2>2, <1>2, <1>3
      <4>2. lines[r.at].seq = s /\ r.at \in DOMAIN lines /\ r.at < i
        BY <4>1, <1>2, <2>2, <1>7
      <4>3. s <= lines[i].seq
        BY <4>1, <4>2, <1>6, <2>2, <1>3 DEF Sorted
      <4>4. r.seq = lines[i].seq
        BY <4>1, <4>3, <3>5, <1>3, <1>2
      <4> QED
        BY <4>4 DEF Held
    <3> QED
      BY <3>4, <3>5
  <2>3. CASE lines[i].seq = 0
    BY <2>3 DEF Held
  <2> QED
    BY <2>1, <2>2, <2>3, <1>2, <1>3, <1>7
<1>13. \A r \in all : \A i \in 1 .. r.at : i \in DOMAIN lines
  BY <1>9, <1>7 DEF RowsAt
<1> QED
  BY <1>9, <1>10, <1>11, <1>12, <1>13 DEF Digest

-----------------------------------------------------------------------------
(* Types.                                                                  *)

\* The process runs; and, within a rotation, events.jsonl has been renamed.
Up    == writer # "down"
Moved == writer \in {"rename_index", "switch"}

\* The types of what is on disk and of what a query pins.
Sidecar == [id : 1 .. drawn, whole : BOOLEAN, rows : RowSets]
Place   == [segment : Nat, age : Nat, seq : Nat, at : Nat]

\* The type invariant, by the parts of the state.
Counts ==
  /\ {taken, drawn, faults, crashes, sequence, bytes, pruned} \subseteq Nat
  /\ active \in 0 .. drawn /\ (Up => active # 0)
OnDisk ==
  /\ files \in [DOMAIN files -> Seq(Line)] /\ DOMAIN files \subseteq 0 .. drawn
  /\ index \in [DOMAIN index -> Sidecar]
  /\ torn \in BOOLEAN
InMemory ==
  /\ writer \in {"down", "idle", "write", "flush", "rename", "rename_index", "switch",
                 "persist", "open"}
  /\ file \in BOOLEAN /\ indexing \in BOOLEAN
  /\ archives \in Seq(1 .. drawn)
  /\ offsets \in [DOMAIN offsets -> RowSets]
  /\ DOMAIN offsets = IF Up THEN ToSet(Ids) ELSE {}
  /\ retired \subseteq 1 .. drawn
  /\ live \in Seq(Line)
Clients ==
  /\ poller \in [after : Nat, from : Nat, got : SUBSET Nat]
  /\ reader = [cursor |-> reader.cursor, last |-> reader.last, pinned |-> reader.pinned]
  /\ reader.pinned \subseteq Place
  /\ acked \in [DOMAIN acked -> Nat] /\ DOMAIN acked \subseteq Nat \ {0}
  /\ damage \subseteq {"ghost", "hollow", "stale"}
TypeOK == Counts /\ OnDisk /\ InMemory /\ Clients

\* What a start loads from a file.
LEMMA LoadedType ==
  ASSUME TypeOK, NEW name \in DOMAIN files, NEW expected
  PROVE  Loaded(name, expected) \in RowSets
<1> DEFINE lines == files[name]
           rows  == IF Sound(name, expected) THEN index[name].rows ELSE {}
           where == {i \in LastLine(rows) + 1 .. Len(lines) :
                       /\ lines[i].seq > LastSequence(rows)
                       /\ \A j \in LastLine(rows) + 1 .. Len(lines) : j < i => lines[j].seq < lines[i].seq}
<1>1. lines \in Seq(Line)
  BY DEF TypeOK, OnDisk
<1>2. rows \in RowSets
  <2>1. {} \in RowSets
    BY FS_EmptySet DEF RowSets
  <2>2. Sound(name, expected) => index[name].rows \in RowSets
    BY DEF TypeOK, OnDisk, Sidecar, Sound
  <2> QED
    BY <2>1, <2>2
<1>3. Loaded(name, expected) = rows \cup RowsAt(lines, where)
  BY Zenon DEF Loaded
<1>4. LastLine(rows) \in Nat
  <2> HIDE DEF rows
  <2> QED
    BY <1>2, LastFacts DEF RowSets
<1>5. where \subseteq DOMAIN lines
  <2> HIDE DEF rows, lines
  <2> QED
    BY <1>1, <1>4
<1> HIDE DEF where, rows, lines
<1>6. IsFiniteSet(RowsAt(lines, where)) /\ RowsAt(lines, where) \subseteq Row
  BY <1>1, <1>5, RowsFinite
<1> QED
  BY <1>2, <1>3, <1>6, FS_Union DEF RowSets

\* Pruning keeps a beginning of the list.
LEMMA NewestFacts ==
  ASSUME JournalAssumption, NEW T, NEW ids \in Seq(T)
  PROVE  /\ Newest(ids) \in Seq(T)
         /\ Len(Newest(ids)) = IF Len(ids) > Retained THEN Retained ELSE Len(ids)
         /\ Len(Newest(ids)) \in 0 .. Len(ids)
         /\ DOMAIN Newest(ids) = 1 .. Len(Newest(ids))
         /\ \A i \in DOMAIN Newest(ids) : i \in DOMAIN ids /\ Newest(ids)[i] = ids[i]
         /\ ToSet(Newest(ids)) \subseteq ToSet(ids)
<1>1. Retained \in Nat \ {0}
  BY DEF JournalAssumption
<1> DEFINE m == IF Len(ids) > Retained THEN Retained ELSE Len(ids)
<1>2. m \in 0 .. Len(ids) /\ Newest(ids) = SubSeq(ids, 1, m)
  BY <1>1 DEF Newest
<1> HIDE DEF m
<1>3. /\ SubSeq(ids, 1, m) \in Seq(T) /\ Len(SubSeq(ids, 1, m)) = m
      /\ \A i \in 1 .. m : SubSeq(ids, 1, m)[i] = ids[i] /\ i \in DOMAIN ids
  BY <1>2
<1>4. DOMAIN Newest(ids) = 1 .. m
  BY <1>2, <1>3
<1>5. ToSet(Newest(ids)) \subseteq ToSet(ids)
  BY <1>2, <1>3, <1>4 DEF ToSet
<1> QED
  BY <1>2, <1>3, <1>4, <1>5 DEF m

-----------------------------------------------------------------------------
(* A start.                                                                *)

\* What a start finds and makes of it.
OpenTo(sealed, rows, id, lines, mine, order, kept, gone) ==
  /\ writer = "down"
  /\ sealed = DOMAIN files \ {Active}
  /\ rows = [i \in sealed |-> Loaded(i, i)]
  /\ id = Identity(sealed) /\ id \in Segments
  /\ lines = IF Active \in DOMAIN files THEN files[Active] ELSE <<>>
  /\ mine = IF Active \in DOMAIN files THEN Loaded(Active, 0) ELSE {}
  /\ order \in Orders(rows)
  /\ gone = sealed \ ToSet(Newest(order))
  /\ kept = sealed \ gone
  /\ archives' = Newest(order)
  /\ offsets' = With(Without(rows, gone), id, mine)
  /\ files' = With(Without(files, gone), Active, lines)
  /\ index' = [i \in kept \cup {Active} |->
                 [id |-> IF i = Active THEN id ELSE i, whole |-> TRUE,
                  rows |-> IF i = Active THEN mine ELSE rows[i]]]
  /\ sequence' = Max({LastSequence(mine)} \cup {LastSequence(rows[i]) : i \in kept})
  /\ pruned' = Max({pruned} \cup {LastSequence(rows[i]) : i \in gone})
  /\ active' = id
  /\ drawn' = IF id = drawn + 1 THEN id ELSE drawn
  /\ bytes' = Len(lines)
  /\ writer' = "idle" /\ torn' = FALSE /\ file' = TRUE /\ indexing' = TRUE
  /\ live' = <<>> /\ retired' = {}
  /\ UNCHANGED <<clients, taken, faults, crashes, acked, damage>>

LEMMA OpenPicks ==
  ASSUME Open
  PROVE  \E sealed, rows, id, lines, mine, order, kept, gone :
            OpenTo(sealed, rows, id, lines, mine, order, kept, gone)
<1> DEFINE sealed == DOMAIN files \ {Active}
           rows   == [id \in sealed |-> Loaded(id, id)]
           id     == Identity(sealed)
           lines  == IF Active \in DOMAIN files THEN files[Active] ELSE <<>>
           mine   == IF Active \in DOMAIN files THEN Loaded(Active, 0) ELSE {}
<1>1. PICK order \in Orders(rows) :
        LET gone == sealed \ ToSet(Newest(order))
            kept == sealed \ gone
        IN  /\ archives' = Newest(order)
            /\ offsets' = With(Without(rows, gone), id, mine)
            /\ files' = With(Without(files, gone), Active, lines)
            /\ index' = [i \in kept \cup {Active} |->
                           [id |-> IF i = Active THEN id ELSE i, whole |-> TRUE,
                            rows |-> IF i = Active THEN mine ELSE rows[i]]]
            /\ sequence' = Max({LastSequence(mine)} \cup {LastSequence(rows[i]) : i \in kept})
            /\ pruned' = Max({pruned} \cup {LastSequence(rows[i]) : i \in gone})
  BY Zenon DEF Open
<1> DEFINE gone == sealed \ ToSet(Newest(order))
           kept == sealed \ gone
<1>2. id \in Segments /\ active' = id /\ drawn' = (IF id = drawn + 1 THEN id ELSE drawn)
      /\ bytes' = Len(lines)
  BY Zenon DEF Open
<1>3. /\ writer = "down" /\ writer' = "idle" /\ torn' = FALSE /\ file' = TRUE /\ indexing' = TRUE
      /\ live' = <<>> /\ retired' = {}
      /\ UNCHANGED <<clients, taken, faults, crashes, acked, damage>>
  BY Zenon DEF Open
<1>4. OpenTo(sealed, rows, id, lines, mine, order, kept, gone)
  BY <1>1, <1>2, <1>3, Zenon DEF OpenTo
<1> QED
  BY <1>4, Zenon

\* The greatest of a number and of some last sequences.
LEMMA MaxWith ==
  ASSUME NEW n \in Nat, NEW S, IsFiniteSet(S), S \subseteq Nat
  PROVE  LET m == Max({n} \cup S)
         IN  /\ m \in Nat /\ m >= n /\ \A s \in S : m >= s
             /\ m = n \/ m \in S
<1> DEFINE T == {n} \cup S
<1>1. T \subseteq Nat /\ T # {} /\ IsFiniteSet(T)
  BY FS_Singleton, FS_Union
<1>2. n \in T /\ (\A s \in S : s \in T) /\ \A t \in T : t = n \/ t \in S
  OBVIOUS
<1> HIDE DEF T
<1>3. Max(T) \in T /\ Max(T) \in Nat /\ \A y \in T : Max(T) >= y
  BY <1>1, MaxOf
<1>4. Max(T) \in Nat /\ Max(T) >= n /\ (\A s \in S : Max(T) >= s) /\ (Max(T) = n \/ Max(T) \in S)
  BY <1>2, <1>3
<1> QED
  BY <1>4 DEF T

Highest(n, rows, S) == Max({n} \cup {LastSequence(rows[i]) : i \in S})

LEMMA MaxOfLast ==
  ASSUME NEW n \in Nat, NEW rows, NEW S, IsFiniteSet(S), \A i \in S : rows[i] \in RowSets,
         NEW m, m = Highest(n, rows, S)
  PROVE  /\ m \in Nat /\ m >= n /\ \A i \in S : m >= LastSequence(rows[i])
         /\ m = n \/ \E i \in S : m = LastSequence(rows[i])
<1> DEFINE T == {LastSequence(rows[i]) : i \in S}
           f == [i \in S |-> LastSequence(rows[i])]
<1>1. T \subseteq Nat
  <2> SUFFICES ASSUME NEW i \in S PROVE LastSequence(rows[i]) \in Nat
    OBVIOUS
  <2> QED
    BY LastFacts DEF RowSets
<1>2. f \in Surjection(S, T)
  BY DEF Surjection
<1>3. IsFiniteSet(T)
  <2> HIDE DEF f, T
  <2> QED
    BY <1>2, FS_Surjection
<1>4. (\A i \in S : LastSequence(rows[i]) \in T) /\ \A t \in T : \E i \in S : t = LastSequence(rows[i])
  OBVIOUS
<1> HIDE DEF T, f
<1>5. LET x == Max({n} \cup T)
      IN  /\ x \in Nat /\ x >= n /\ \A s \in T : x >= s
          /\ x = n \/ x \in T
  BY <1>1, <1>3, MaxWith
<1>6. m = Max({n} \cup T)
  BY DEF T, Highest
<1> QED
  BY <1>4, <1>5, <1>6

\* What is known of it then.
Opened(sealed, rows, id, lines, mine, order, kept, gone) ==
  /\ IsFiniteSet(sealed) /\ sealed \subseteq 1 .. drawn /\ sealed \subseteq DOMAIN files
  /\ order \in Seq(sealed) /\ Len(order) = Cardinality(sealed)
  /\ \A i, j \in DOMAIN order : i < j =>
       /\ order[i] # order[j]
       /\ LastSequence(rows[order[i]]) >= LastSequence(rows[order[j]])
  /\ \A f \in sealed : \E i \in DOMAIN order : f = order[i]
  /\ archives' \in Seq(sealed)
  /\ Len(archives') = IF Len(order) > Retained THEN Retained ELSE Len(order)
  /\ \A i \in DOMAIN archives' : i \in DOMAIN order /\ archives'[i] = order[i]
  /\ kept = ToSet(archives') /\ kept \cup gone = sealed /\ kept \cap gone = {}
  /\ \A f \in gone : \E i \in DOMAIN order : i > Len(archives') /\ f = order[i]
  /\ \A f \in sealed : rows[f] \in RowSets /\ rows[f] = Loaded(f, f)
  /\ mine \in RowSets /\ lines \in Seq(Line)
  /\ id \in Nat /\ id \in 1 .. drawn + 1 /\ id \notin sealed /\ active' = id
  /\ drawn' \in Nat /\ drawn <= drawn' /\ id <= drawn'
  /\ sequence' \in Nat /\ sequence' >= LastSequence(mine)
  /\ \A f \in kept : sequence' >= LastSequence(rows[f])
  /\ sequence' = LastSequence(mine) \/ \E f \in kept : sequence' = LastSequence(rows[f])
  /\ pruned' \in Nat /\ pruned' >= pruned /\ \A f \in gone : pruned' >= LastSequence(rows[f])
  /\ pruned' = pruned \/ \E f \in gone : pruned' = LastSequence(rows[f])
  /\ DOMAIN files' = kept \cup {Active}
  /\ files'[Active] = lines /\ \A f \in kept : files'[f] = files[f]
  /\ DOMAIN offsets' = kept \cup {id}
  /\ offsets'[id] = mine /\ \A f \in kept : offsets'[f] = rows[f]
  /\ DOMAIN index' = kept \cup {Active}
  /\ index'[Active] = [id |-> id, whole |-> TRUE, rows |-> mine]
  /\ \A f \in kept : index'[f] = [id |-> f, whole |-> TRUE, rows |-> rows[f]]
  /\ writer = "down" /\ sealed = DOMAIN files \ {Active} /\ id = Identity(sealed)
  /\ lines = (IF Active \in DOMAIN files THEN files[Active] ELSE <<>>)
  /\ mine = (IF Active \in DOMAIN files THEN Loaded(Active, 0) ELSE {})
  /\ files' = [f \in DOMAIN files' |-> files'[f]]
  /\ index' = [f \in DOMAIN index' |-> index'[f]]
  /\ offsets' = [f \in DOMAIN offsets' |-> offsets'[f]]
  /\ writer' = "idle" /\ torn' = FALSE /\ file' = TRUE /\ indexing' = TRUE
  /\ live' = <<>> /\ retired' = {} /\ bytes' = Len(lines)
  /\ UNCHANGED <<clients, taken, faults, crashes, acked, damage>>

\* All of it follows from the types.
LEMMA OpenFacts ==
  ASSUME JournalAssumption, TypeOK,
         NEW sealed, NEW rows, NEW id, NEW lines, NEW mine, NEW order, NEW kept, NEW gone,
         OpenTo(sealed, rows, id, lines, mine, order, kept, gone)
  PROVE  Opened(sealed, rows, id, lines, mine, order, kept, gone)
<1> USE DEF Active
<1>1. drawn \in Nat /\ pruned \in Nat
  BY DEF TypeOK, Counts
<1>2. sealed \subseteq 1 .. drawn /\ sealed \subseteq DOMAIN files
  BY <1>1 DEF OpenTo, TypeOK, OnDisk
<1>3. IsFiniteSet(sealed)
  <2>1. IsFiniteSet(1 .. drawn)
    BY <1>1, FS_Interval
  <2> QED
    BY <1>2, <2>1, FS_Subset
<1>4. rows = [i \in sealed |-> Loaded(i, i)] /\ DOMAIN rows = sealed
  BY Zenon DEF OpenTo
<1>5. \A f \in sealed : rows[f] \in RowSets /\ rows[f] = Loaded(f, f)
  BY <1>2, <1>4, LoadedType
<1>6. mine \in RowSets /\ lines \in Seq(Line)
  <2>1. {} \in RowSets
    BY FS_EmptySet DEF RowSets
  <2>2. Active \in DOMAIN files => Loaded(Active, 0) \in RowSets
    BY LoadedType
  <2>3. lines \in Seq(Line)
    BY DEF OpenTo, TypeOK, OnDisk
  <2> QED
    BY <2>1, <2>2, <2>3, Zenon DEF OpenTo
<1> DEFINE n == Cardinality(sealed)
<1>7. n \in Nat
  BY <1>3, FS_CardinalityType
<1>8. /\ order \in [1 .. n -> sealed]
      /\ \A i, j \in 1 .. n : i < j =>
           order[i] # order[j] /\ LastSequence(rows[order[i]]) >= LastSequence(rows[order[j]])
  <2>1. order \in Orders(rows)
    BY Zenon DEF OpenTo
  <2> QED
    BY <2>1, <1>4 DEF Orders
<1>9. order \in Seq(sealed) /\ Len(order) = n /\ DOMAIN order = 1 .. n
  BY <1>7, <1>8
<1>10. \A f \in sealed : \E i \in 1 .. n : f = order[i]
  <2>1. IsFiniteSet(1 .. n) /\ Cardinality(1 .. n) = n
    BY <1>7, FS_Interval
  <2>2. order \in Injection(1 .. n, sealed)
    <3>1. \A i, j \in 1 .. n : order[i] = order[j] => i = j
      BY <1>7, <1>8
    <3> QED
      BY <1>8, <3>1 DEF Injection, IsInjective
  <2>3. order \in Surjection(1 .. n, sealed)
    BY <2>1, <2>2, <1>3, FS_Injection
  <2> QED
    BY <2>3 DEF Surjection
<1>11. archives' = Newest(order)
  BY Zenon DEF OpenTo
<1> HIDE DEF n
<1>12. /\ archives' \in Seq(sealed)
       /\ Len(archives') = IF Len(order) > Retained THEN Retained ELSE Len(order)
       /\ DOMAIN archives' = 1 .. Len(archives')
       /\ \A i \in DOMAIN archives' : i \in DOMAIN order /\ archives'[i] = order[i]
       /\ ToSet(archives') \subseteq ToSet(order)
  BY <1>9, <1>11, NewestFacts
<1>13. ToSet(order) \subseteq sealed
  BY <1>8, <1>9 DEF ToSet
<1>14. gone = sealed \ ToSet(archives') /\ kept = sealed \ gone
  BY <1>11, Zenon DEF OpenTo
<1>15. kept = ToSet(archives') /\ kept \cup gone = sealed /\ kept \cap gone = {}
  BY <1>12, <1>13, <1>14
<1>16. \A f \in gone : \E i \in DOMAIN order : i > Len(archives') /\ f = order[i]
  <2> SUFFICES ASSUME NEW f \in gone PROVE \E i \in DOMAIN order : i > Len(archives') /\ f = order[i]
    OBVIOUS
  <2>1. PICK i \in 1 .. n : f = order[i]
    BY <1>10, <1>14
  <2>2. Len(archives') \in Nat
    BY <1>12
  <2>3. ~(i <= Len(archives'))
    <3> SUFFICES ASSUME i <= Len(archives') PROVE FALSE
      OBVIOUS
    <3>1. i \in DOMAIN archives'
      BY <2>2, <1>12, <1>7
    <3>2. f \in ToSet(archives')
      BY <3>1, <2>1, <1>12 DEF ToSet
    <3> QED
      BY <3>2, <1>14
  <2> QED
    BY <2>1, <2>2, <2>3, <1>9, <1>7
<1>17. /\ id \in Nat /\ id \in 1 .. drawn + 1 /\ id \notin sealed
       /\ drawn' \in Nat /\ drawn <= drawn' /\ id <= drawn' /\ active' = id
  <2>1. id = Identity(sealed) /\ drawn' = (IF id = drawn + 1 THEN id ELSE drawn) /\ active' = id
    BY Zenon DEF OpenTo
  <2>2. Active \in DOMAIN index => index[Active].id \in 1 .. drawn
    BY DEF TypeOK, OnDisk, Sidecar
  <2>3. drawn + 1 \notin sealed
    BY <1>1, <1>2
  <2> QED
    BY <2>1, <2>2, <2>3, <1>1 DEF Identity
<1>18. IsFiniteSet(kept) /\ IsFiniteSet(gone) /\ kept \subseteq sealed /\ gone \subseteq sealed
  <2>1. kept \subseteq sealed /\ gone \subseteq sealed
    BY <1>15
  <2> QED
    BY <2>1, <1>3, FS_Subset
<1>19. /\ sequence' \in Nat /\ sequence' >= LastSequence(mine)
       /\ \A f \in kept : sequence' >= LastSequence(rows[f])
       /\ sequence' = LastSequence(mine) \/ \E f \in kept : sequence' = LastSequence(rows[f])
  <2>1. sequence' = Highest(LastSequence(mine), rows, kept)
    BY Zenon DEF OpenTo, Highest
  <2>2. LastSequence(mine) \in Nat
    BY <1>6, LastFacts DEF RowSets
  <2>3. \A i \in kept : rows[i] \in RowSets
    BY <1>5, <1>18
  <2> QED
    BY <2>1, <2>2, <2>3, <1>18, MaxOfLast
<1>20. /\ pruned' \in Nat /\ pruned' >= pruned /\ \A f \in gone : pruned' >= LastSequence(rows[f])
       /\ pruned' = pruned \/ \E f \in gone : pruned' = LastSequence(rows[f])
  <2>1. pruned' = Highest(pruned, rows, gone)
    BY Zenon DEF OpenTo, Highest
  <2>3. \A i \in gone : rows[i] \in RowSets
    BY <1>5, <1>18
  <2> QED
    BY <2>1, <2>3, <1>1, <1>18, MaxOfLast
<1>21. /\ DOMAIN files' = kept \cup {Active}
       /\ files'[Active] = lines /\ \A f \in kept : files'[f] = files[f]
  <2>1. files' = With(Without(files, gone), Active, lines) /\ sealed = DOMAIN files \ {Active}
    BY Zenon DEF OpenTo
  <2>2. Active \notin sealed /\ DOMAIN files \ gone \subseteq kept \cup {Active} /\ kept \subseteq DOMAIN files \ gone
    BY <2>1, <1>15
  <2> QED
    BY <2>1, <2>2, <1>15 DEF With, Without
<1>22. /\ DOMAIN offsets' = kept \cup {id}
       /\ offsets'[id] = mine /\ \A f \in kept : offsets'[f] = rows[f]
  <2>1. offsets' = With(Without(rows, gone), id, mine)
    BY Zenon DEF OpenTo
  <2>2. sealed \ gone = kept /\ id \notin kept
    BY <1>15, <1>17
  <2> QED
    BY <2>1, <2>2, <1>4 DEF With, Without
<1>23. /\ DOMAIN index' = kept \cup {Active}
       /\ index'[Active] = [id |-> id, whole |-> TRUE, rows |-> mine]
       /\ \A f \in kept : index'[f] = [id |-> f, whole |-> TRUE, rows |-> rows[f]]
  <2>1. index' = [i \in kept \cup {Active} |->
                    [id |-> IF i = Active THEN id ELSE i, whole |-> TRUE,
                     rows |-> IF i = Active THEN mine ELSE rows[i]]]
    BY Zenon DEF OpenTo
  <2>2. Active \notin kept
    BY <1>1, <1>2, <1>15
  <2> QED
    BY <2>1, <2>2
<1>24. \A i, j \in DOMAIN order : i < j =>
         order[i] # order[j] /\ LastSequence(rows[order[i]]) >= LastSequence(rows[order[j]])
  BY <1>8, <1>9
<1>25. \A f \in sealed : \E i \in DOMAIN order : f = order[i]
  BY <1>9, <1>10
<1>26. order \in Seq(sealed) /\ Len(order) = Cardinality(sealed)
  BY <1>9 DEF n
<1>27. /\ files' = [f \in DOMAIN files' |-> files'[f]]
       /\ index' = [f \in DOMAIN index' |-> index'[f]]
       /\ offsets' = [f \in DOMAIN offsets' |-> offsets'[f]]
  <2>1. /\ files' = With(Without(files, gone), Active, lines)
        /\ offsets' = With(Without(rows, gone), id, mine)
        /\ index' = [i \in kept \cup {Active} |->
                      [id |-> IF i = Active THEN id ELSE i, whole |-> TRUE,
                       rows |-> IF i = Active THEN mine ELSE rows[i]]]
    BY Zenon DEF OpenTo
  <2> QED
    BY <2>1 DEF With
<1>28. /\ writer = "down" /\ sealed = DOMAIN files \ {Active} /\ id = Identity(sealed)
       /\ lines = (IF Active \in DOMAIN files THEN files[Active] ELSE <<>>)
       /\ mine = (IF Active \in DOMAIN files THEN Loaded(Active, 0) ELSE {})
       /\ writer' = "idle" /\ torn' = FALSE /\ file' = TRUE /\ indexing' = TRUE
       /\ live' = <<>> /\ retired' = {} /\ bytes' = Len(lines)
       /\ UNCHANGED <<clients, taken, faults, crashes, acked, damage>>
  BY Zenon DEF OpenTo
<1> QED
  BY <1>2, <1>3, <1>5, <1>6, <1>12, <1>15, <1>16, <1>17, <1>19, <1>20, <1>21, <1>22, <1>23,
     <1>24, <1>25, <1>26, <1>27, <1>28 DEF Opened

LEMMA Opening ==
  ASSUME JournalAssumption, TypeOK, Open
  PROVE  \E sealed, rows, id, lines, mine, order, kept, gone :
            Opened(sealed, rows, id, lines, mine, order, kept, gone)
<1>1. PICK sealed, rows, id, lines, mine, order, kept, gone :
        OpenTo(sealed, rows, id, lines, mine, order, kept, gone)
  BY OpenPicks
<1>2. Opened(sealed, rows, id, lines, mine, order, kept, gone)
  BY <1>1, OpenFacts
<1> QED
  BY <1>2, Zenon

-----------------------------------------------------------------------------
(* Functions and lists.                                                    *)

\* Functions with one value more, and without some.
LEMMA WithFacts ==
  ASSUME NEW T, NEW f, f \in [DOMAIN f -> T], NEW x, NEW v \in T
  PROVE  /\ With(f, x, v) \in [DOMAIN With(f, x, v) -> T]
         /\ DOMAIN With(f, x, v) = DOMAIN f \cup {x}
         /\ With(f, x, v)[x] = v
         /\ \A y \in DOMAIN f \ {x} : With(f, x, v)[y] = f[y]
BY DEF With

LEMMA WithoutFacts ==
  ASSUME NEW T, NEW f, f \in [DOMAIN f -> T], NEW S
  PROVE  /\ Without(f, S) \in [DOMAIN Without(f, S) -> T]
         /\ DOMAIN Without(f, S) = DOMAIN f \ S
         /\ \A y \in DOMAIN f \ S : Without(f, S)[y] = f[y]
BY DEF Without

Chained(a, s) == <<a>> \o s

LEMMA MoveFacts ==
  ASSUME NEW T, NEW f, f \in [DOMAIN f -> T], NEW S, NEW x, NEW v \in T,
         NEW g, g = With(Without(f, S), x, v)
  PROVE  /\ g \in [DOMAIN g -> T]
         /\ DOMAIN g = (DOMAIN f \ S) \cup {x}
         /\ g[x] = v
         /\ \A y \in DOMAIN f \ (S \cup {x}) : g[y] = f[y]
BY DEF With, Without

\* The list of the active segment and the archives.
LEMMA ConsFacts ==
  ASSUME NEW T, NEW a \in T, NEW s \in Seq(T)
  PROVE  /\ Chained(a, s) \in Seq(T) /\ Len(Chained(a, s)) = Len(s) + 1
         /\ Chained(a, s)[1] = a /\ \A i \in DOMAIN s : Chained(a, s)[i + 1] = s[i]
         /\ \A i \in DOMAIN Chained(a, s) :
              i = 1 \/ (i - 1 \in DOMAIN s /\ Chained(a, s)[i] = s[i - 1])
         /\ ToSet(Chained(a, s)) = {a} \cup ToSet(s)
<1> DEFINE c == Chained(a, s)
<1>1. /\ c \in Seq(T) /\ Len(c) = Len(s) + 1
      /\ c[1] = a /\ \A i \in DOMAIN s : c[i + 1] = s[i]
      /\ \A i \in DOMAIN c : i = 1 \/ (i - 1 \in DOMAIN s /\ c[i] = s[i - 1])
  BY DEF Chained
<1> HIDE DEF c
<1>2. ToSet(c) \subseteq {a} \cup ToSet(s)
  BY <1>1 DEF ToSet
<1>3. a \in ToSet(c)
  BY <1>1 DEF ToSet
<1>4. ASSUME NEW x \in ToSet(s) PROVE x \in ToSet(c)
  <2>1. PICK i \in DOMAIN s : x = s[i]
    BY DEF ToSet
  <2>2. i + 1 \in DOMAIN c /\ c[i + 1] = x
    BY <1>1, <2>1
  <2> QED
    BY <2>2 DEF ToSet
<1>5. ToSet(c) = {a} \cup ToSet(s)
  BY <1>2, <1>3, <1>4
<1> QED
  BY <1>1, <1>5 DEF c

LEMMA IdsFacts ==
  ASSUME TypeOK
  PROVE  /\ Ids \in Seq(0 .. drawn) /\ Len(Ids) = Len(archives) + 1
         /\ Ids[1] = active /\ \A i \in DOMAIN archives : Ids[i + 1] = archives[i]
         /\ \A i \in DOMAIN Ids : i = 1 \/ (i - 1 \in DOMAIN archives /\ Ids[i] = archives[i - 1])
         /\ ToSet(Ids) = {active} \cup ToSet(archives)
         /\ ToSet(archives) \subseteq 1 .. drawn
<1>1. archives \in Seq(1 .. drawn) /\ active \in 0 .. drawn /\ drawn \in Nat
  BY DEF TypeOK, InMemory, Counts
<1>2. archives \in Seq(0 .. drawn)
  BY <1>1
<1>3. ToSet(archives) \subseteq 1 .. drawn
  BY <1>1 DEF ToSet
<1>4. Ids = Chained(active, archives)
  BY DEF Ids, Chained
<1> DEFINE C == Chained(active, archives)
<1>5. ASSUME NEW T, active \in T, archives \in Seq(T)
      PROVE  /\ C \in Seq(T) /\ Len(C) = Len(archives) + 1
             /\ C[1] = active /\ \A i \in DOMAIN archives : C[i + 1] = archives[i]
             /\ \A i \in DOMAIN C : i = 1 \/ (i - 1 \in DOMAIN archives /\ C[i] = archives[i - 1])
             /\ ToSet(C) = {active} \cup ToSet(archives)
  BY <1>5, ConsFacts
<1> HIDE DEF C
<1>6.        /\ C \in Seq(0 .. drawn) /\ Len(C) = Len(archives) + 1
             /\ C[1] = active /\ \A i \in DOMAIN archives : C[i + 1] = archives[i]
             /\ \A i \in DOMAIN C : i = 1 \/ (i - 1 \in DOMAIN archives /\ C[i] = archives[i - 1])
             /\ ToSet(C) = {active} \cup ToSet(archives)
  BY <1>1, <1>2, <1>5, Zenon
<1>7. Ids = C
  BY <1>4 DEF C
<1> QED
  BY <1>3, <1>6, <1>7

\* What is appended is a line.
LEMMA LinesType ==
  ASSUME TypeOK, NEW line \in Line
  PROVE  /\ Lines(line) \in [DOMAIN files -> Seq(Line)]
         /\ Garbage \in Line
<1>1. Garbage \in Line
  BY DEF Garbage, Line
<1>2. files \in [DOMAIN files -> Seq(Line)]
  BY DEF TypeOK, OnDisk
<1>3. ASSUME Active \in DOMAIN files
      PROVE  (IF torn THEN Append(Front(files[Active]), Garbage) ELSE Append(files[Active], line)) \in Seq(Line)
  <2>1. files[Active] \in Seq(Line)
    BY <1>2, <1>3
  <2>2. Front(files[Active]) \in Seq(Line)
    BY <2>1 DEF Front
  <2> QED
    BY <1>1, <2>1, <2>2
<1> QED
  BY <1>1, <1>2, <1>3 DEF Lines

LEMMA RecordType == ASSUME TypeOK PROVE Record \in Line
BY DEF TypeOK, Counts, Record, Line

LEMMA TypeOpen ==
  ASSUME JournalAssumption, TypeOK, Open PROVE TypeOK'
<1>1. PICK sealed, rows, id, lines, mine, order, kept, gone :
        Opened(sealed, rows, id, lines, mine, order, kept, gone)
  BY Opening
<1>2. drawn \in Nat /\ drawn' \in Nat /\ drawn <= drawn' /\ id \in Nat /\ id \in 1 .. drawn + 1 /\ id <= drawn'
      /\ active' = id
  BY <1>1 DEF TypeOK, Counts, Opened
<1>3. kept \subseteq 1 .. drawn' /\ kept \subseteq DOMAIN files /\ kept = ToSet(archives')
  <2>1. sealed \subseteq 1 .. drawn /\ sealed \subseteq DOMAIN files /\ kept = ToSet(archives')
        /\ kept \subseteq sealed
    BY <1>1, Zenon DEF Opened
  <2>2. 1 .. drawn \subseteq 1 .. drawn'
    BY <1>2
  <2> QED
    BY <2>1, <2>2, Zenon
<1>4. Counts'
  <2>1. Len(lines) \in Nat
    BY <1>1 DEF Opened
  <2>2. {taken', faults', crashes', sequence', bytes', pruned'} \subseteq Nat
    BY <1>1, <2>1 DEF TypeOK, Counts, Opened
  <2> QED
    BY <1>2, <2>2 DEF Counts, Up
<1>5. OnDisk'
  <2>1. files' \in [DOMAIN files' -> Seq(Line)]
    <3>1. files' = [y \in DOMAIN files' |-> files'[y]]
      BY <1>1 DEF Opened
    <3>2. \A y \in DOMAIN files' : files'[y] \in Seq(Line)
      <4>1. DOMAIN files' = kept \cup {Active} /\ files'[Active] = lines /\ lines \in Seq(Line)
            /\ \A f \in kept : files'[f] = files[f]
        BY <1>1, Zenon DEF Opened
      <4>2. \A f \in kept : files[f] \in Seq(Line)
        BY <1>3 DEF TypeOK, OnDisk
      <4> QED
        BY <4>1, <4>2
    <3> QED
      BY <3>1, <3>2
  <2>2. DOMAIN files' \subseteq 0 .. drawn'
    <3>1. DOMAIN files' = kept \cup {Active}
      BY <1>1 DEF Opened
    <3> QED
      BY <3>1, <1>2, <1>3 DEF Active
  <2>3. index' \in [DOMAIN index' -> Sidecar']
    <3>1. index' = [y \in DOMAIN index' |-> index'[y]]
      BY <1>1 DEF Opened
    <3>2. /\ DOMAIN index' = kept \cup {Active}
          /\ index'[Active] = [id |-> id, whole |-> TRUE, rows |-> mine] /\ mine \in RowSets
          /\ \A f \in kept : index'[f] = [id |-> f, whole |-> TRUE, rows |-> rows[f]] /\ rows[f] \in RowSets
      BY <1>1 DEF Opened
    <3>3. \A y \in DOMAIN index' : index'[y] \in Sidecar'
      <4>1. index'[Active] \in Sidecar'
        BY <3>2, <1>2 DEF Sidecar
      <4>2. ASSUME NEW f \in kept PROVE index'[f] \in Sidecar'
        <5>1. f \in 1 .. drawn' /\ rows[f] \in RowSets
          BY <3>2, <1>3
        <5>2. index'[f] = [id |-> f, whole |-> TRUE, rows |-> rows[f]]
          BY <3>2
        <5> QED
          BY <5>1, <5>2 DEF Sidecar
      <4> QED
        BY <4>1, <4>2, <3>2
    <3> QED
      BY <3>1, <3>3
  <2>4. torn' \in BOOLEAN
    BY <1>1 DEF Opened
  <2> QED
    BY <2>1, <2>2, <2>3, <2>4 DEF OnDisk
<1>6. InMemory'
  <2>1. archives' \in Seq(1 .. drawn') /\ active' \in 1 .. drawn'
    BY <1>1, <1>2, <1>3 DEF Opened
  <2>2. offsets' \in [DOMAIN offsets' -> RowSets]
    <3>1. offsets' = [y \in DOMAIN offsets' |-> offsets'[y]]
      BY <1>1 DEF Opened
    <3>2. DOMAIN offsets' = kept \cup {id} /\ offsets'[id] = mine /\ mine \in RowSets
          /\ \A f \in kept : offsets'[f] = rows[f] /\ rows[f] \in RowSets
      BY <1>1 DEF Opened
    <3>3. \A y \in DOMAIN offsets' : offsets'[y] \in RowSets
      BY <3>2
    <3> QED
      BY <3>1, <3>3
  <2>3. DOMAIN offsets' = ToSet(Ids')
    <3>1. DOMAIN offsets' = {active'} \cup ToSet(archives')
      BY <1>1, <1>2, <1>3 DEF Opened
    <3>2. Ids' = Chained(active', archives')
      BY DEF Ids, Chained
    <3>3. ASSUME NEW T, active' \in T, archives' \in Seq(T)
          PROVE  ToSet(Chained(active', archives')) = {active'} \cup ToSet(archives')
      BY <3>3, ConsFacts
    <3>4. ToSet(Chained(active', archives')) = {active'} \cup ToSet(archives')
      BY <2>1, <3>3, Zenon
    <3> QED
      BY <3>1, <3>2, <3>4
  <2>4. writer' = "idle" /\ file' = TRUE /\ indexing' = TRUE /\ live' = <<>> /\ retired' = {}
    BY <1>1 DEF Opened
  <2> QED
    BY <2>1, <2>2, <2>3, <2>4 DEF InMemory, Up
<1>7. Clients'
  <2>1. UNCHANGED <<poller, reader, acked, damage>>
    BY <1>1 DEF Opened, clients
  <2> QED
    BY <2>1 DEF TypeOK, Clients
<1> QED
  BY <1>4, <1>5, <1>6, <1>7 DEF TypeOK

\* The active segment has rows.
LEMMA ActiveOffsets == ASSUME TypeOK, Up PROVE active \in DOMAIN offsets /\ offsets[active] \in RowSets
  BY IdsFacts DEF TypeOK, InMemory

-----------------------------------------------------------------------------
(* The steps keep the types.                                               *)

LEMMA TypeTake == ASSUME TypeOK, Take PROVE TypeOK'
<1> USE DEF Take, disk, store, state, clients, history
<1>1. Counts'
  BY DEF TypeOK, Counts, Up
<1>2. OnDisk'
  BY DEF TypeOK, OnDisk, Sidecar
<1>3. InMemory'
  BY DEF TypeOK, InMemory, Up, Ids
<1>4. Clients'
  BY DEF TypeOK, Clients
<1> QED
  BY <1>1, <1>2, <1>3, <1>4 DEF TypeOK

LEMMA TypeFlushIndex == ASSUME TypeOK, FlushIndex PROVE TypeOK'
<1> USE DEF FlushIndex, state, clients, history, Fails, Works
<1>1. Counts'
  BY DEF TypeOK, Counts, Up
<1>2. OnDisk'
  <2>1. offsets[active] \in RowSets
    BY ActiveOffsets DEF Up
  <2>2. index' \in [DOMAIN index' -> Sidecar]
    BY <2>1 DEF TypeOK, OnDisk, Sidecar, Flushed
  <2> QED
    BY <2>2 DEF TypeOK, OnDisk, Sidecar
<1>3. InMemory'
  BY DEF TypeOK, InMemory, Up, Ids
<1>4. Clients'
  BY DEF TypeOK, Clients
<1> QED
  BY <1>1, <1>2, <1>3, <1>4 DEF TypeOK

LEMMA TypeRenameData == ASSUME TypeOK, RenameData, Active \in DOMAIN files PROVE TypeOK'
<1> USE DEF RenameData, store, state, clients, Fails, Works
<1>1. Counts'
  BY DEF TypeOK, Counts, Up
<1>2. OnDisk'
  <2>1. CASE files' = With(Without(files, {Active}), active, files[Active]) /\ torn' = FALSE
    <3>1. files \in [DOMAIN files -> Seq(Line)] /\ files[Active] \in Seq(Line)
      BY DEF TypeOK, OnDisk
    <3>4. /\ files' \in [DOMAIN files' -> Seq(Line)]
          /\ DOMAIN files' = (DOMAIN files \ {Active}) \cup {active}
      <4> HIDE DEF RenameData, store, state, clients, Fails, Works
      <4> QED
        BY <2>1, <3>1 DEF With, Without
    <3> QED
      BY <2>1, <3>4 DEF TypeOK, OnDisk, Counts, Sidecar
  <2>2. CASE UNCHANGED <<files, torn>>
    BY <2>2 DEF TypeOK, OnDisk, Sidecar
  <2> QED
    BY <2>1, <2>2
<1>3. InMemory'
  BY DEF TypeOK, InMemory, Up, Ids
<1>4. Clients'
  BY DEF TypeOK, Clients
<1> QED
  BY <1>1, <1>2, <1>3, <1>4 DEF TypeOK

LEMMA TypeRenameIndex == ASSUME TypeOK, RenameIndex PROVE TypeOK'
<1> USE DEF RenameIndex, store, state, clients, history, Fails, Works
<1>1. Counts'
  BY DEF TypeOK, Counts, Up
<1>2. OnDisk'
  <2>1. CASE Active \in DOMAIN index /\ index' = With(Without(index, {Active}), active, index[Active])
    <3>1. index \in [DOMAIN index -> Sidecar] /\ index[Active] \in Sidecar
      BY <2>1 DEF TypeOK, OnDisk
    <3>3. index' \in [DOMAIN index' -> Sidecar]
      BY <2>1, <3>1, MoveFacts
    <3> QED
      BY <2>1, <3>3 DEF TypeOK, OnDisk, Sidecar
  <2>2. CASE UNCHANGED index
    BY <2>2 DEF TypeOK, OnDisk, Sidecar
  <2> QED
    BY <2>1, <2>2
<1>3. InMemory'
  BY DEF TypeOK, InMemory, Up, Ids
<1>4. Clients'
  BY DEF TypeOK, Clients
<1> QED
  BY <1>1, <1>2, <1>3, <1>4 DEF TypeOK

\* What a rotation switches to.
Switched(kept, gone, free) ==
  /\ kept \in Seq(1 .. drawn) /\ kept = Newest(Ids)
  /\ Len(kept) = IF Len(Ids) > Retained THEN Retained ELSE Len(Ids)
  /\ Len(kept) \in 1 .. Len(Ids) /\ DOMAIN kept = 1 .. Len(kept)
  /\ \A i \in DOMAIN kept : i \in DOMAIN Ids /\ kept[i] = Ids[i]
  /\ ToSet(kept) \subseteq {active} \cup ToSet(archives) /\ active \in ToSet(kept) /\ kept[1] = active
  /\ gone = ({active} \cup ToSet(archives)) \ ToSet(kept) /\ gone \subseteq ToSet(archives)
  /\ free = gone \ Leased
  /\ archives' = kept
  /\ offsets' = With(Without(offsets, gone), drawn + 1, {})
  /\ files' = Without(files, free)
  /\ index' = Without(index, free)
  /\ retired' = retired \cup (gone \cap Leased)
  /\ pruned' \in Nat /\ pruned' >= pruned
  /\ \A f \in gone : offsets[f] \in RowSets /\ pruned' >= LastSequence(offsets[f])
  /\ pruned' = pruned \/ \E f \in gone : pruned' = LastSequence(offsets[f])
  /\ writer = "switch" /\ active' = drawn + 1 /\ drawn' = drawn + 1
  /\ bytes' = 0 /\ writer' = "persist"
  /\ UNCHANGED <<torn, file, indexing, state, clients, taken, faults, crashes, acked, damage>>

LEMMA Switching ==
  ASSUME JournalAssumption, TypeOK, Switch
  PROVE  \E kept, gone, free : Switched(kept, gone, free)
<1> DEFINE kept == Newest(Ids)
           gone == ToSet(Ids) \ ToSet(kept)
           free == gone \ Leased
<1>1. /\ archives' = kept
      /\ offsets' = With(Without(offsets, gone), drawn + 1, {})
      /\ files' = Without(files, free)
      /\ index' = Without(index, free)
      /\ retired' = retired \cup (gone \cap Leased)
      /\ pruned' = Highest(pruned, offsets, gone)
  BY Zenon DEF Switch, Highest
<1>2. /\ writer = "switch" /\ active' = drawn + 1 /\ drawn' = drawn + 1
      /\ bytes' = 0 /\ writer' = "persist"
      /\ UNCHANGED <<torn, file, indexing, state, clients, taken, faults, crashes, acked, damage>>
  BY Zenon DEF Switch
<1>3. active \in 1 .. drawn /\ archives \in Seq(1 .. drawn) /\ drawn \in Nat /\ pruned \in Nat
      /\ Retained \in Nat \ {0}
  BY <1>2 DEF TypeOK, Counts, InMemory, Up, JournalAssumption
<1>4. /\ ToSet(Ids) = {active} \cup ToSet(archives) /\ Len(Ids) = Len(archives) + 1
      /\ Ids[1] = active /\ Ids \in Seq(0 .. drawn)
  BY IdsFacts
<1>5. Ids \in Seq(1 .. drawn)
  BY <1>3 DEF Ids
<1>6. /\ kept \in Seq(1 .. drawn)
      /\ Len(kept) = IF Len(Ids) > Retained THEN Retained ELSE Len(Ids)
      /\ Len(kept) \in 0 .. Len(Ids)
      /\ DOMAIN kept = 1 .. Len(kept)
      /\ \A i \in DOMAIN kept : i \in DOMAIN Ids /\ kept[i] = Ids[i]
      /\ ToSet(kept) \subseteq ToSet(Ids)
  <2>1. ASSUME NEW T, Ids \in Seq(T)
        PROVE  /\ kept \in Seq(T)
               /\ Len(kept) = IF Len(Ids) > Retained THEN Retained ELSE Len(Ids)
               /\ Len(kept) \in 0 .. Len(Ids)
               /\ DOMAIN kept = 1 .. Len(kept)
               /\ \A i \in DOMAIN kept : i \in DOMAIN Ids /\ kept[i] = Ids[i]
               /\ ToSet(kept) \subseteq ToSet(Ids)
    BY <2>1, NewestFacts
  <2> HIDE DEF kept
  <2> QED
    BY <2>1, <1>5, Zenon
<1> HIDE DEF kept
<1>7. Len(kept) \in 1 .. Len(Ids) /\ kept[1] = active
  <2>1. Len(kept) > 0 /\ Len(archives) \in Nat
    BY <1>3, <1>4, <1>6
  <2> QED
    BY <2>1, <1>4, <1>6
<1>8. active \in ToSet(kept)
  BY <1>6, <1>7 DEF ToSet
<1>9. \A f \in gone : offsets[f] \in RowSets
  <2>1. DOMAIN offsets = ToSet(Ids)
    BY <1>2 DEF TypeOK, InMemory, Up
  <2> QED
    BY <2>1 DEF TypeOK, InMemory
<1>10. IsFiniteSet(gone)
  <2>1. gone \in SUBSET (0 .. drawn)
    BY <1>4, <1>5, <1>3, IdsFacts DEF ToSet
  <2>2. IsFiniteSet(0 .. drawn)
    BY <1>3, FS_Interval
  <2> QED
    BY <2>1, <2>2, FS_Subset
<1>11. /\ pruned' \in Nat /\ pruned' >= pruned
       /\ \A f \in gone : pruned' >= LastSequence(offsets[f])
       /\ pruned' = pruned \/ \E f \in gone : pruned' = LastSequence(offsets[f])
  <2> HIDE DEF gone
  <2> QED
    BY <1>1, <1>3, <1>9, <1>10, MaxOfLast
<1>12. gone = ({active} \cup ToSet(archives)) \ ToSet(kept) /\ gone \subseteq ToSet(archives)
  BY <1>4, <1>8
<1>13. free = gone \ Leased /\ ToSet(kept) \subseteq {active} \cup ToSet(archives)
  BY <1>4, <1>6
<1> HIDE DEF gone, free
<1>14. Switched(kept, gone, free)
  BY <1>1, <1>2, <1>6, <1>7, <1>8, <1>9, <1>11, <1>12, <1>13 DEF Switched, kept
<1> QED
  BY <1>14, Zenon

LEMMA TypeSwitch == ASSUME JournalAssumption, TypeOK, Switch PROVE TypeOK'
<1>1. PICK kept, gone, free : Switched(kept, gone, free)
  BY Switching
<1>2. drawn \in Nat /\ drawn' = drawn + 1 /\ active' = drawn + 1 /\ 1 .. drawn \subseteq 1 .. drawn'
      /\ writer' = "persist"
  BY <1>1 DEF Switched, TypeOK, Counts
<1>3. Counts'
  BY <1>1, <1>2 DEF Switched, TypeOK, Counts, Up, state
<1>4. OnDisk'
  <2>1. files' = Without(files, free) /\ index' = Without(index, free) /\ torn' = torn
    BY <1>1 DEF Switched
  <2>2. files \in [DOMAIN files -> Seq(Line)] /\ index \in [DOMAIN index -> Sidecar]
        /\ DOMAIN files \subseteq 0 .. drawn /\ torn \in BOOLEAN
    BY DEF TypeOK, OnDisk
  <2>3. files' \in [DOMAIN files' -> Seq(Line)] /\ DOMAIN files' \subseteq DOMAIN files
    BY <2>1, <2>2, WithoutFacts
  <2>4. index' \in [DOMAIN index' -> Sidecar]
    BY <2>1, <2>2, WithoutFacts
  <2>5. Sidecar \subseteq Sidecar'
    BY <1>2 DEF Sidecar
  <2>6. index' \in [DOMAIN index' -> Sidecar']
    BY <2>4, <2>5
  <2> QED
    BY <2>1, <2>2, <2>3, <2>6, <1>2 DEF OnDisk
<1>5. InMemory'
  <2>1. archives' \in Seq(1 .. drawn')
    <3>1. archives' \in Seq(1 .. drawn)
      BY <1>1 DEF Switched
    <3> QED
      BY <3>1, <1>2
  <2>2. DOMAIN offsets = {active} \cup ToSet(archives) /\ offsets \in [DOMAIN offsets -> RowSets]
    BY <1>1, IdsFacts DEF TypeOK, InMemory, Up, Switched
  <2>3. offsets' = With(Without(offsets, gone), drawn + 1, {})
    BY <1>1 DEF Switched
  <2>4. {} \in RowSets
    BY FS_EmptySet DEF RowSets
  <2>5. /\ offsets' \in [DOMAIN offsets' -> RowSets]
        /\ DOMAIN offsets' = (DOMAIN offsets \ gone) \cup {drawn + 1}
    BY <2>2, <2>3, <2>4 DEF With, Without
  <2>7. DOMAIN offsets' = {active'} \cup ToSet(archives')
    <3>1. ToSet(archives') = ToSet(kept) /\ ToSet(kept) \subseteq {active} \cup ToSet(archives)
          /\ gone = ({active} \cup ToSet(archives)) \ ToSet(kept)
      BY <1>1 DEF Switched
    <3> QED
      BY <3>1, <2>2, <2>5, <1>2
  <2>8. ToSet(Ids') = {active'} \cup ToSet(archives')
    <3>1. ASSUME NEW T, active' \in T, archives' \in Seq(T)
          PROVE  ToSet(Chained(active', archives')) = {active'} \cup ToSet(archives')
      BY <3>1, ConsFacts
    <3>2. active' \in 1 .. drawn'
      BY <1>2
    <3>3. ToSet(Chained(active', archives')) = {active'} \cup ToSet(archives')
      BY <2>1, <3>1, <3>2, Zenon
    <3> QED
      BY <3>3 DEF Ids, Chained
  <2>9. retired' \subseteq 1 .. drawn'
    <3>1. retired \subseteq 1 .. drawn /\ ToSet(archives) \subseteq 1 .. drawn
      BY IdsFacts DEF TypeOK, InMemory
    <3>2. retired' \subseteq retired \cup ToSet(archives)
      BY <1>1 DEF Switched
    <3> QED
      BY <3>1, <3>2, <1>2
  <2>10. offsets' \in [DOMAIN offsets' -> RowSets]
    BY <2>5
  <2>11. file' \in BOOLEAN /\ indexing' \in BOOLEAN /\ live' \in Seq(Line)
    BY <1>1 DEF Switched, TypeOK, InMemory, state
  <2> QED
    BY <2>1, <2>7, <2>8, <2>9, <2>10, <2>11, <1>2 DEF InMemory, Up
<1>6. Clients'
  BY <1>1 DEF Switched, TypeOK, Clients, clients
<1> QED
  BY <1>3, <1>4, <1>5, <1>6 DEF TypeOK

LEMMA TypePersistIndex == ASSUME TypeOK, PersistIndex PROVE TypeOK'
<1> USE DEF PersistIndex, state, clients, Fails, Works
<1>1. Counts'
  BY DEF TypeOK, Counts, Up
<1>2. OnDisk'
  <2>1. CASE index' = With(index, Active, [id |-> active, whole |-> TRUE, rows |-> offsets[active]])
    <3>1. index \in [DOMAIN index -> Sidecar]
      BY DEF TypeOK, OnDisk
    <3>2. [id |-> active, whole |-> TRUE, rows |-> offsets[active]] \in Sidecar
      <4>1. offsets[active] \in RowSets /\ active \in 1 .. drawn
        BY ActiveOffsets DEF TypeOK, Counts, Up
      <4> QED
        BY <4>1 DEF Sidecar
    <3>3. index' \in [DOMAIN index' -> Sidecar]
      BY <2>1, <3>1, <3>2, WithFacts
    <3> QED
      BY <3>3 DEF TypeOK, OnDisk, Sidecar
  <2>2. CASE UNCHANGED index
    BY <2>2 DEF TypeOK, OnDisk, Sidecar
  <2> QED
    BY <2>1, <2>2
<1>3. InMemory'
  BY DEF TypeOK, InMemory, Up, Ids
<1>4. Clients'
  BY DEF TypeOK, Clients
<1> QED
  BY <1>1, <1>2, <1>3, <1>4 DEF TypeOK

\* The file after open_writer.
LEMMA Opens ==
  ASSUME TypeOK, OpenWriter
  PROVE  /\ files' \in [DOMAIN files' -> Seq(Line)]
         /\ DOMAIN files' = DOMAIN files \cup {Active}
         /\ \A f \in DOMAIN files : files'[f] = files[f]
         /\ Active \notin DOMAIN files => files'[Active] = <<>>
         /\ bytes' = Len(files'[Active]) /\ bytes' \in Nat /\ file' = TRUE /\ torn' = FALSE
<1>1. files \in [DOMAIN files -> Seq(Line)] /\ <<>> \in Seq(Line)
  BY DEF TypeOK, OnDisk
<1>2. /\ files' \in [DOMAIN files' -> Seq(Line)]
      /\ DOMAIN files' = DOMAIN files \cup {Active}
      /\ \A f \in DOMAIN files : files'[f] = files[f]
      /\ Active \notin DOMAIN files => files'[Active] = <<>>
  BY <1>1 DEF OpenWriter, With
<1>3. bytes' \in Nat
  BY <1>2 DEF OpenWriter
<1> QED
  BY <1>2, <1>3 DEF OpenWriter

LEMMA TypeOpenFile == ASSUME TypeOK, OpenFile PROVE TypeOK'
<1> USE DEF OpenFile, state, clients, history, Fails, Works
<1>1. CASE OpenWriter /\ writer' = "write"
  <2> DEFINE Rest == UNCHANGED <<index, active, archives, offsets, indexing, retired, sequence, live,
                                 poller, reader, taken, drawn, crashes, faults, acked, pruned, damage>>
  <2>1. Rest /\ writer # "down"
    BY <1>1 DEF OpenFile
  <2>2. /\ files' \in [DOMAIN files' -> Seq(Line)]
        /\ DOMAIN files' = DOMAIN files \cup {Active}
        /\ bytes' \in Nat /\ file' = TRUE /\ torn' = FALSE
    BY <1>1, Opens
  <2> HIDE DEF OpenFile
  <2>3. Counts'
    BY <1>1, <2>1, <2>2 DEF TypeOK, Counts, Up
  <2>4. OnDisk'
    <3>1. DOMAIN files' \subseteq 0 .. drawn'
      BY <2>1, <2>2 DEF TypeOK, OnDisk, Counts, Active
    <3>2. index' \in [DOMAIN index' -> Sidecar']
      BY <2>1 DEF TypeOK, OnDisk, Sidecar
    <3> QED
      BY <2>2, <3>1, <3>2 DEF OnDisk
  <2>5. InMemory'
    BY <1>1, <2>1, <2>2 DEF TypeOK, InMemory, Up, Ids
  <2>6. Clients'
    BY <2>1 DEF TypeOK, Clients
  <2> QED
    BY <2>3, <2>4, <2>5, <2>6 DEF TypeOK
<1>2. CASE writer' = "idle" /\ UNCHANGED <<files, bytes, file, torn>> /\ Fails
  <2>1. Counts'
    BY <1>2 DEF TypeOK, Counts, Up
  <2>2. OnDisk'
    BY <1>2 DEF TypeOK, OnDisk, Sidecar
  <2>3. InMemory'
    BY <1>2 DEF TypeOK, InMemory, Up, Ids
  <2>4. Clients'
    BY <1>2 DEF TypeOK, Clients
  <2> QED
    BY <2>1, <2>2, <2>3, <2>4 DEF TypeOK
<1> QED
  BY <1>1, <1>2

LEMMA TypeAppendLine == ASSUME TypeOK, AppendLine PROVE TypeOK'
<1> DEFINE row  == [seq |-> sequence + 1, at |-> bytes + 1]
           rows == offsets[active] \cup {row}
<1>1. /\ writer = "write" /\ file /\ writer' = "idle"
      /\ offsets' = [offsets EXCEPT ![active] = rows]
      /\ index' = index \/ (indexing /\ index' = [index EXCEPT ![Active].rows = rows])
      /\ indexing' \in {indexing, FALSE}
      /\ faults' \in {faults, faults + 1}
      /\ files' = Lines(Record) /\ bytes' = bytes + 1 /\ sequence' = sequence + 1
      /\ live' = LET all == Append(live, Record) IN IF Len(all) > LiveCount THEN Tail(all) ELSE all
      /\ acked' = With(acked, sequence + 1, taken)
      /\ UNCHANGED <<torn, active, archives, file, retired, clients, taken, drawn, crashes, pruned, damage>>
  BY DEF AppendLine, Works, Fails
<1>2. Counts'
  BY <1>1 DEF TypeOK, Counts, Up
<1>3. rows \in RowSets
  <2>1. offsets[active] \in RowSets
    BY <1>1, ActiveOffsets DEF Up
  <2>2. row \in Row
    BY DEF TypeOK, Counts, Row
  <2> QED
    BY <2>1, <2>2, FS_AddElement DEF RowSets
<1> HIDE DEF row, rows
<1>4. OnDisk'
  <2>1. files' \in [DOMAIN files -> Seq(Line)] /\ DOMAIN files' = DOMAIN files
    <3>1. Lines(Record) \in [DOMAIN files -> Seq(Line)]
      BY RecordType, LinesType
    <3> QED
      BY <1>1, <3>1
  <2>2. index' \in [DOMAIN index' -> Sidecar]
    BY <1>1, <1>3 DEF TypeOK, OnDisk, Sidecar
  <2> QED
    BY <2>1, <2>2, <1>1 DEF TypeOK, OnDisk, Sidecar
<1>5. InMemory'
  <2>1. live' \in Seq(Line)
    <3>1. Append(live, Record) \in Seq(Line) /\ Len(Append(live, Record)) > 0
      BY RecordType DEF TypeOK, InMemory
    <3>2. Tail(Append(live, Record)) \in Seq(Line)
      BY <3>1
    <3> QED
      BY <3>1, <3>2, <1>1
  <2>2. offsets' \in [DOMAIN offsets' -> RowSets] /\ DOMAIN offsets' = DOMAIN offsets
    BY <1>1, <1>3 DEF TypeOK, InMemory
  <2> QED
    BY <1>1, <2>1, <2>2 DEF TypeOK, InMemory, Up, Ids
<1>6. Clients'
  <2>1. acked' \in [DOMAIN acked' -> Nat] /\ DOMAIN acked' \subseteq Nat \ {0}
    <3>1. acked' = With(acked, sequence + 1, taken)
      BY <1>1
    <3>2. sequence + 1 \in Nat \ {0} /\ taken \in Nat
      BY DEF TypeOK, Counts
    <3>3. acked \in [DOMAIN acked -> Nat] /\ DOMAIN acked \subseteq Nat \ {0}
      BY DEF TypeOK, Clients
    <3> QED
      BY <3>1, <3>2, <3>3 DEF With
  <2> QED
    BY <1>1, <2>1 DEF TypeOK, Clients, clients
<1> QED
  BY <1>2, <1>4, <1>5, <1>6 DEF TypeOK

\* The files after a failed write.
LEMMA CutFacts ==
  ASSUME TypeOK, NEW line \in Line, Cut(line)
  PROVE  /\ files' \in [DOMAIN files -> Seq(Line)]
         /\ torn' \in BOOLEAN
  BY LinesType DEF Cut, TypeOK, OnDisk

LEMMA TypeCutAppend == ASSUME TypeOK, CutAppend PROVE TypeOK'
<1>1. /\ writer = "write" /\ file /\ writer' = "idle" /\ file' = FALSE
      /\ faults' = faults + 1
      /\ damage' \in {damage, damage \cup {"ghost"}}
      /\ UNCHANGED <<index, active, archives, offsets, indexing, bytes, retired, state, clients,
                     taken, drawn, crashes, acked, pruned>>
  BY DEF CutAppend, Fails
<1>2. \E line \in Line : Cut(line)
  <2>1. Garbage \in Line /\ Record \in Line
    BY RecordType, LinesType
  <2> QED
    BY <2>1 DEF CutAppend
<1>3. files' \in [DOMAIN files -> Seq(Line)] /\ DOMAIN files' = DOMAIN files /\ torn' \in BOOLEAN
  BY <1>2, CutFacts
<1>4. Counts'
  BY <1>1 DEF TypeOK, Counts, Up, state
<1>5. OnDisk'
  BY <1>1, <1>3 DEF TypeOK, OnDisk, Sidecar
<1>6. InMemory'
  BY <1>1 DEF TypeOK, InMemory, Up, Ids, state
<1>7. Clients'
  BY <1>1 DEF TypeOK, Clients, clients
<1> QED
  BY <1>4, <1>5, <1>6, <1>7 DEF TypeOK

LEMMA TypeCrash == ASSUME TypeOK, Crash PROVE TypeOK'
<1>1. /\ crashes' = crashes + 1
      /\ writer' = "down" /\ active' = 0 /\ archives' = <<>> /\ offsets' = [i \in {} |-> {}]
      /\ file' = FALSE /\ indexing' = FALSE /\ bytes' = 0 /\ retired' = {}
      /\ sequence' = 0 /\ live' = <<>>
      /\ reader' = [reader EXCEPT !.pinned = {}]
      /\ UNCHANGED <<poller, taken, drawn, faults, history>>
      /\ index' = index \/ (Active \in DOMAIN index /\ index' = [index EXCEPT ![Active].whole = FALSE])
  BY DEF Crash
<1>2. files' \in [DOMAIN files -> Seq(Line)] /\ DOMAIN files' = DOMAIN files /\ torn' \in BOOLEAN
  <2>1. Garbage \in Line /\ Record \in Line
    BY RecordType, LinesType
  <2>2. \/ \E line \in {Garbage, Record} : Cut(line)
        \/ files' = Lines(Record) /\ torn' = torn
        \/ files' = files /\ torn' = torn
    BY DEF Crash
  <2>3. CASE \E line \in {Garbage, Record} : Cut(line)
    BY <2>1, <2>3, CutFacts
  <2>4. CASE files' = Lines(Record) /\ torn' = torn
    <3>1. Lines(Record) \in [DOMAIN files -> Seq(Line)]
      BY <2>1, LinesType
    <3> QED
      BY <2>4, <3>1 DEF TypeOK, OnDisk
  <2>5. CASE files' = files /\ torn' = torn
    BY <2>5 DEF TypeOK, OnDisk
  <2> QED
    BY <2>2, <2>3, <2>4, <2>5
<1>3. Counts'
  BY <1>1 DEF TypeOK, Counts, Up, history
<1>4. OnDisk'
  <2>1. index' \in [DOMAIN index' -> Sidecar]
    BY <1>1 DEF TypeOK, OnDisk, Sidecar
  <2> QED
    BY <1>1, <1>2, <2>1 DEF TypeOK, OnDisk, Sidecar
<1>5. InMemory'
  <2>1. DOMAIN offsets' = {} /\ offsets' \in [DOMAIN offsets' -> RowSets]
    BY <1>1
  <2>2. archives' \in Seq(1 .. drawn') /\ live' \in Seq(Line) /\ retired' \subseteq 1 .. drawn'
    BY <1>1
  <2> QED
    BY <1>1, <2>1, <2>2 DEF InMemory, Up
<1>6. Clients'
  BY <1>1 DEF TypeOK, Clients, history
<1> QED
  BY <1>3, <1>4, <1>5, <1>6 DEF TypeOK

LEMMA TypePoll == ASSUME TypeOK, Poll PROVE TypeOK'
<1>1. UNCHANGED <<disk, writer, store, state, reader, counts, history>>
  BY DEF Poll
<1> DEFINE news  == {i \in DOMAIN live : live[i].seq > poller.after}
           first == live[Min(news)]
<1>2. \/ poller' = [after |-> sequence, from |-> sequence, got |-> {}]
      \/ news = {} /\ poller' = [poller EXCEPT !.after = sequence]
      \/ news # {} /\ poller' = [poller EXCEPT
                      !.after = IF Cardinality(news) = 1 THEN sequence ELSE first.seq,
                      !.got = @ \cup {first.event}]
  BY DEF Poll
<1>3. news # {} => first \in Line
  <2>1. news \subseteq Nat /\ live \in Seq(Line)
    BY DEF TypeOK, InMemory
  <2>2. news # {} => Min(news) \in news
    BY <2>1, MinOf
  <2> QED
    BY <2>1, <2>2
<1> HIDE DEF news, first
<1>4. Clients'
  <2>1. poller \in [after : Nat, from : Nat, got : SUBSET Nat] /\ sequence \in Nat
    BY DEF TypeOK, Clients, Counts
  <2>2. poller' \in [after : Nat, from : Nat, got : SUBSET Nat]
    <3>1. CASE poller' = [after |-> sequence, from |-> sequence, got |-> {}]
      BY <2>1, <3>1
    <3>2. CASE poller' = [poller EXCEPT !.after = sequence]
      BY <2>1, <3>2
    <3>3. CASE news # {} /\ poller' = [poller EXCEPT
                      !.after = IF Cardinality(news) = 1 THEN sequence ELSE first.seq,
                      !.got = @ \cup {first.event}]
      <4>1. first.seq \in Nat /\ first.event \in Nat
        BY <1>3, <3>3 DEF Line
      <4> QED
        BY <2>1, <3>3, <4>1
    <3> QED
      BY <1>2, <3>1, <3>2, <3>3
  <2> QED
    BY <1>1, <2>2 DEF TypeOK, Clients, history
<1>5. Counts' /\ OnDisk'
  BY <1>1 DEF TypeOK, Counts, OnDisk, Sidecar, Up, disk, store, state, counts, history
<1>6. InMemory'
  BY <1>1 DEF TypeOK, InMemory, Up, Ids, store, state, counts
<1> QED
  BY <1>4, <1>5, <1>6 DEF TypeOK

\* The rows of all segments are places.
LEMMA ChainType == ASSUME TypeOK, Up PROVE Chain \subseteq Place
<1>1. DOMAIN Ids \subseteq Nat /\ \A i \in DOMAIN Ids : Ids[i] \in Nat /\ Ids[i] \in DOMAIN offsets
  <2>1. Ids \in Seq(0 .. drawn)
    BY IdsFacts
  <2>2. DOMAIN offsets = ToSet(Ids)
    BY DEF TypeOK, InMemory
  <2>3. \A i \in DOMAIN Ids : Ids[i] \in 0 .. drawn /\ i \in Nat
    <3>1. drawn \in Nat
      BY DEF TypeOK, Counts
    <3> HIDE DEF Ids
    <3>2. ASSUME NEW s, s \in Seq(0 .. drawn) PROVE \A i \in DOMAIN s : s[i] \in 0 .. drawn /\ i \in Nat
      BY <3>1, <3>2
    <3> QED
      BY <2>1, <3>2, Zenon
  <2> QED
    BY <2>2, <2>3 DEF ToSet
<1>2. \A f \in DOMAIN offsets : offsets[f] \subseteq Row
  BY DEF TypeOK, InMemory, RowSets
<1> QED
  BY <1>1, <1>2 DEF Chain, Place, Row

LEMMA TypePin == ASSUME TypeOK, Pin PROVE TypeOK'
<1>1. writer = "idle" /\ UNCHANGED <<disk, writer, store, state, poller, counts, history>>
  BY DEF Pin
<1>2. Chain \subseteq Place
  BY <1>1, ChainType DEF Up
<1>3. reader' = NewWalk \/ \E rows \in SUBSET Chain : reader' = [reader EXCEPT !.pinned = rows]
  <2>1. FromCursor(reader.cursor) \subseteq Chain /\ {r \in Chain : r.seq < reader.last} \subseteq Chain
    BY DEF FromCursor
  <2> QED
    BY <2>1 DEF Pin
<1>4. Clients'
  BY <1>1, <1>2, <1>3 DEF TypeOK, Clients, history, NewWalk, NoCursor
<1>5. Counts' /\ OnDisk'
  BY <1>1 DEF TypeOK, Counts, OnDisk, Sidecar, Up, disk, store, state, counts, history
<1>6. InMemory'
  BY <1>1 DEF TypeOK, InMemory, Up, Ids, store, state, counts
<1> QED
  BY <1>4, <1>5, <1>6 DEF TypeOK

LEMMA TypeRead == ASSUME TypeOK, Read PROVE TypeOK'
<1> DEFINE first == First(reader.pinned)
           rest  == reader.pinned \ {first}
           next  == First(rest)
<1>1. /\ reader.pinned # {}
      /\ reader' = IF rest = {} THEN NewWalk
                   ELSE [cursor |-> [segment |-> next.segment, at |-> next.at],
                         last |-> first.seq, pinned |-> {}]
      /\ files' = Without(files, retired) /\ index' = Without(index, retired) /\ retired' = {}
      /\ UNCHANGED <<torn, writer, active, archives, offsets, file, indexing, bytes, state, poller,
                     counts, history>>
  BY DEF Read
<1>2. Counts'
  BY <1>1 DEF TypeOK, Counts, Up, state, counts, history
<1>3. OnDisk'
  <2>1. files' \in [DOMAIN files' -> Seq(Line)] /\ DOMAIN files' \subseteq DOMAIN files
    BY <1>1 DEF Without, TypeOK, OnDisk
  <2>2. index' \in [DOMAIN index' -> Sidecar]
    BY <1>1 DEF Without, TypeOK, OnDisk
  <2> QED
    BY <1>1, <2>1, <2>2 DEF TypeOK, OnDisk, Sidecar, counts
<1>4. InMemory'
  BY <1>1 DEF TypeOK, InMemory, Up, Ids, counts, state
<1>5. Clients'
  <2>1. reader'.pinned = {}
        /\ reader' = [cursor |-> reader'.cursor, last |-> reader'.last, pinned |-> reader'.pinned]
    BY <1>1 DEF NewWalk
  <2> QED
    BY <1>1, <2>1 DEF TypeOK, Clients, counts, history
<1> QED
  BY <1>2, <1>3, <1>4, <1>5 DEF TypeOK

-----------------------------------------------------------------------------
(* The shape of the store.                                                 *)

\* Every file is that of a segment the store knows, or that a query still holds.
Segmented ==
  /\ active \notin ToSet(archives)
  /\ \A i, j \in DOMAIN archives : archives[i] = archives[j] => i = j
  /\ retired \cap ({active} \cup ToSet(archives)) = {}
  /\ ToSet(archives) \subseteq DOMAIN files
  /\ DOMAIN files \subseteq {Active, active} \cup ToSet(archives) \cup retired
  /\ active \in DOMAIN files <=> Moved

\* What the phases of the writer know of events.jsonl and of its index.
Phases ==
  /\ file => Active \in DOMAIN files /\ bytes = Len(files[Active]) /\ ~torn
  /\ bytes > 0 /\ ~Moved => Active \in DOMAIN files
  /\ writer \in {"flush", "rename"} => bytes > 0
  /\ Moved \/ writer = "persist" => Active \notin DOMAIN files
  /\ writer \in {"rename", "open"} => ~file
  /\ indexing => Active \in DOMAIN index
  /\ indexing => writer \notin {"rename", "rename_index", "switch", "persist"}

\* What directory and memory have to do with each other.
Shape ==
  /\ DOMAIN index \subseteq DOMAIN files \cup {Active}
  /\ IF Up THEN Segmented /\ Phases ELSE retired = {}

LEMMA ShapeTake == ASSUME TypeOK, Shape, Take PROVE Shape'
  BY DEF Take, Shape, Segmented, Phases, Up, Moved, disk, store

LEMMA ShapeFlushIndex == ASSUME TypeOK, Shape, FlushIndex PROVE Shape'
<1>1. DOMAIN index' = DOMAIN index
  BY DEF FlushIndex, Flushed
<1> QED
  BY <1>1 DEF FlushIndex, Shape, Segmented, Phases, Up, Moved, Fails, Works

LEMMA ShapeRenameData == ASSUME TypeOK, Shape, RenameData PROVE Shape'
<1>1. Segmented /\ Phases /\ writer = "rename" /\ Active \in DOMAIN files /\ active # Active
  BY DEF RenameData, Shape, Up, Phases, Moved, TypeOK, Counts, Active
<1>2. Active \notin ToSet(archives)
  BY IdsFacts DEF Active
<1>3. CASE files' = With(Without(files, {Active}), active, files[Active]) /\ torn' = FALSE /\ writer' = "rename_index"
  <2>1. DOMAIN files' = (DOMAIN files \ {Active}) \cup {active}
    BY <1>3 DEF With, Without
  <2>2. UNCHANGED <<index, store>>
    BY DEF RenameData
  <2>3. Segmented'
    BY <1>1, <1>2, <1>3, <2>1, <2>2 DEF Segmented, Moved, store
  <2>4. Phases'
    BY <1>1, <1>3, <2>1, <2>2 DEF Phases, Moved, store
  <2>5. DOMAIN index' \subseteq DOMAIN files' \cup {Active}
    BY <2>1, <2>2 DEF Shape
  <2> QED
    BY <1>3, <2>3, <2>4, <2>5 DEF Shape, Up
<1>4. CASE UNCHANGED <<files, torn>> /\ writer' = "idle"
  BY <1>4, <1>1 DEF RenameData, Shape, Segmented, Phases, Up, Moved, store
<1> QED
  BY <1>3, <1>4 DEF RenameData

LEMMA ShapeRenameIndex == ASSUME TypeOK, Shape, RenameIndex PROVE Shape'
<1>1. Segmented /\ Phases /\ writer = "rename_index" /\ active \in DOMAIN files
  BY DEF RenameIndex, Shape, Up, Phases, Moved, Segmented
<1>2. DOMAIN index' \subseteq DOMAIN files' \cup {Active}
  <2>1. CASE index' = With(Without(index, {Active}), active, index[Active])
    <3>1. DOMAIN index' = (DOMAIN index \ {Active}) \cup {active}
      BY <2>1 DEF With, Without
    <3> QED
      BY <3>1, <1>1 DEF RenameIndex, Shape
  <2>2. CASE UNCHANGED index
    BY <2>2 DEF RenameIndex, Shape
  <2> QED
    BY <2>1, <2>2 DEF RenameIndex
<1>3. Segmented' /\ Phases'
  BY <1>1 DEF RenameIndex, Segmented, Phases, Moved, store
<1> QED
  BY <1>2, <1>3 DEF Shape, Up, RenameIndex

LEMMA ShapeSwitch == ASSUME JournalAssumption, TypeOK, Shape, Switch PROVE Shape'
<1>1. PICK kept, gone, free : Switched(kept, gone, free)
  BY Switching
<1>2. Segmented /\ Phases /\ Moved /\ drawn \in Nat
  BY <1>1 DEF Switched, Shape, Up, Moved, TypeOK, Counts
<1>3. /\ active \in 1 .. drawn /\ ToSet(archives) \subseteq 1 .. drawn /\ retired \subseteq 1 .. drawn
      /\ DOMAIN files \subseteq 0 .. drawn
  <2>1. writer # "down"
    BY <1>1 DEF Switched
  <2>2. ToSet(archives) \subseteq 1 .. drawn
    BY IdsFacts
  <2> QED
    BY <2>1, <2>2 DEF TypeOK, InMemory, Counts, Up, OnDisk
<1>4. /\ archives' = kept /\ active' = drawn + 1 /\ writer' = "persist" /\ bytes' = 0
      /\ free = gone \ Leased
      /\ gone = ({active} \cup ToSet(archives)) \ ToSet(kept) /\ gone \subseteq ToSet(archives)
      /\ ToSet(kept) \subseteq {active} \cup ToSet(archives)
      /\ retired' = retired \cup (gone \cap Leased)
      /\ files' = Without(files, free) /\ index' = Without(index, free)
      /\ file' = file /\ indexing' = indexing
  BY <1>1 DEF Switched
<1>5. DOMAIN files' = DOMAIN files \ free /\ DOMAIN index' = DOMAIN index \ free
  BY <1>4 DEF Without
<1>6. Segmented'
  <2>1. active' \notin ToSet(archives') /\ active' \notin DOMAIN files' /\ active' \notin retired'
    BY <1>2, <1>3, <1>4, <1>5
  <2>2. \A i, j \in DOMAIN archives' : archives'[i] = archives'[j] => i = j
    <3> SUFFICES ASSUME NEW i \in DOMAIN kept, NEW j \in DOMAIN kept, kept[i] = kept[j] PROVE i = j
      BY <1>4
    <3>1. i \in DOMAIN Ids /\ j \in DOMAIN Ids /\ Ids[i] = Ids[j]
      BY <1>1 DEF Switched
    <3>2. /\ i = 1 \/ (i - 1 \in DOMAIN archives /\ Ids[i] = archives[i - 1])
          /\ j = 1 \/ (j - 1 \in DOMAIN archives /\ Ids[j] = archives[j - 1])
          /\ Ids[1] = active /\ i \in Nat /\ j \in Nat
      BY <3>1, <1>2, IdsFacts
    <3>3. \A k \in DOMAIN archives : archives[k] # active
      BY <1>2 DEF Segmented, ToSet
    <3>4. \A k, m \in DOMAIN archives : archives[k] = archives[m] => k = m
      BY <1>2 DEF Segmented
    <3> QED
      BY <3>1, <3>2, <3>3, <3>4
  <2>3. retired' \cap ({active'} \cup ToSet(archives')) = {}
    BY <2>1, <1>2, <1>4 DEF Segmented
  <2>4. ToSet(archives') \subseteq DOMAIN files'
    BY <1>2, <1>4, <1>5 DEF Segmented
  <2>5. DOMAIN files' \subseteq {Active, active'} \cup ToSet(archives') \cup retired'
    BY <1>2, <1>4, <1>5 DEF Segmented
  <2>6. ~Moved'
    BY <1>4 DEF Moved
  <2> QED
    BY <2>1, <2>2, <2>3, <2>4, <2>5, <2>6 DEF Segmented
<1>7. Phases'
  <2>1. ~file /\ ~indexing /\ Active \notin DOMAIN files'
    BY <1>1, <1>2, <1>5 DEF Phases, Switched, Moved
  <2> QED
    BY <2>1, <1>4 DEF Phases, Moved
<1>8. DOMAIN index' \subseteq DOMAIN files' \cup {Active}
  BY <1>5 DEF Shape
<1> QED
  BY <1>4, <1>6, <1>7, <1>8 DEF Shape, Up

LEMMA ShapePersistIndex == ASSUME TypeOK, Shape, PersistIndex PROVE Shape'
<1>1. Segmented /\ Phases /\ writer = "persist" /\ writer' = "open"
  BY DEF PersistIndex, Shape, Up
<1>2. index' = index \/ DOMAIN index' = DOMAIN index \cup {Active}
  BY DEF PersistIndex, With
<1>3. indexing' => Active \in DOMAIN index'
  BY <1>1, <1>2 DEF PersistIndex, With, Phases
<1>4. UNCHANGED <<files, torn, active, archives, offsets, file, bytes, retired>>
  BY DEF PersistIndex
<1>5. Segmented'
  BY <1>1, <1>4 DEF Segmented, Moved
<1>6. Phases'
  BY <1>1, <1>3, <1>4 DEF Phases, Moved
<1>7. DOMAIN index' \subseteq DOMAIN files' \cup {Active}
  BY <1>2, <1>4 DEF Shape
<1> QED
  BY <1>1, <1>5, <1>6, <1>7 DEF Shape, Up

LEMMA ShapeOpenFile == ASSUME TypeOK, Shape, OpenFile PROVE Shape'
<1>1. Segmented /\ Phases /\ ~Moved /\ writer # "persist"
  BY DEF OpenFile, Shape, Up, Moved
<1>2. UNCHANGED <<index, active, archives, offsets, indexing, retired>> /\ writer' \in {"write", "idle"}
  BY DEF OpenFile
<1>3. CASE OpenWriter
  <2>1. /\ DOMAIN files' = DOMAIN files \cup {Active} /\ Active \in DOMAIN files'
        /\ bytes' = Len(files'[Active]) /\ file' = TRUE /\ torn' = FALSE
    BY <1>3, Opens
  <2>2. active # Active
    BY DEF OpenFile, TypeOK, Counts, Up, Active
  <2>3. Segmented'
    BY <1>1, <1>2, <2>1, <2>2 DEF Segmented, Moved
  <2>4. Phases'
    BY <1>1, <1>2, <2>1 DEF Phases, Moved
  <2>5. DOMAIN index' \subseteq DOMAIN files' \cup {Active}
    BY <1>2, <2>1 DEF Shape
  <2> QED
    BY <1>2, <2>3, <2>4, <2>5 DEF Shape, Up
<1>4. CASE UNCHANGED <<files, bytes, file, torn>>
  BY <1>1, <1>2, <1>4 DEF Shape, Segmented, Phases, Moved, Up
<1> QED
  BY <1>3, <1>4 DEF OpenFile

LEMMA ShapeOpen == ASSUME JournalAssumption, TypeOK, Shape, Open PROVE Shape'
<1>1. PICK sealed, rows, id, lines, mine, order, kept, gone :
        Opened(sealed, rows, id, lines, mine, order, kept, gone)
  BY Opening
<1>2. /\ kept = ToSet(archives') /\ kept \subseteq sealed /\ id \notin sealed /\ active' = id
      /\ DOMAIN files' = kept \cup {Active} /\ files'[Active] = lines
      /\ DOMAIN index' = kept \cup {Active}
      /\ id \in 1 .. drawn + 1
      /\ writer' = "idle" /\ torn' = FALSE /\ file' = TRUE /\ indexing' = TRUE
      /\ retired' = {} /\ bytes' = Len(lines)
  BY <1>1 DEF Opened
<1>3. id # Active
  BY <1>2 DEF TypeOK, Counts, Active
<1>4. \A i, j \in DOMAIN archives' : archives'[i] = archives'[j] => i = j
  <2>1. \A i, j \in DOMAIN order : i < j => order[i] # order[j]
    BY <1>1 DEF Opened
  <2>2. \A i \in DOMAIN archives' : i \in DOMAIN order /\ archives'[i] = order[i]
    BY <1>1 DEF Opened
  <2>3. DOMAIN order \subseteq Nat
    BY <1>1 DEF Opened
  <2>4. \A i, j \in Nat : i = j \/ i < j \/ j < i
    OBVIOUS
  <2> QED
    BY <2>1, <2>2, <2>3, <2>4
<1>5. Segmented'
  BY <1>2, <1>3, <1>4 DEF Segmented, Moved
<1>6. Phases'
  BY <1>2 DEF Phases, Moved
<1> QED
  BY <1>2, <1>5, <1>6 DEF Shape

LEMMA ShapeAppendLine == ASSUME TypeOK, Shape, AppendLine PROVE Shape'
<1>1. /\ Segmented /\ Phases /\ writer = "write" /\ file /\ writer' = "idle"
      /\ Active \in DOMAIN files /\ bytes = Len(files[Active]) /\ ~torn
      /\ files[Active] \in Seq(Line)
  BY DEF AppendLine, Shape, Up, Phases, TypeOK, OnDisk
<1>2. DOMAIN files' = DOMAIN files /\ files'[Active] = Append(files[Active], Record)
  BY <1>1 DEF AppendLine, Lines
<1>3. Len(files'[Active]) = bytes + 1
  BY <1>1, <1>2
<1>4. DOMAIN index' = DOMAIN index /\ (indexing' => indexing)
  BY DEF AppendLine
<1>5. UNCHANGED <<torn, active, archives, file, retired>> /\ bytes' = bytes + 1
  BY DEF AppendLine
<1>6. Segmented'
  BY <1>1, <1>2, <1>5 DEF Segmented, Moved
<1>7. Phases'
  BY <1>1, <1>2, <1>3, <1>4, <1>5 DEF Phases, Moved
<1> QED
  BY <1>1, <1>2, <1>4, <1>6, <1>7 DEF Shape, Up

LEMMA ShapeCutAppend == ASSUME TypeOK, Shape, CutAppend PROVE Shape'
<1>1. /\ Segmented /\ Phases /\ writer = "write" /\ file /\ writer' = "idle" /\ file' = FALSE
      /\ Active \in DOMAIN files
  BY DEF CutAppend, Shape, Up, Phases
<1>2. DOMAIN files' = DOMAIN files
  BY DEF CutAppend, Cut, Lines
<1>3. UNCHANGED <<index, active, archives, offsets, indexing, bytes, retired>>
  BY DEF CutAppend
<1>4. Segmented' /\ Phases'
  BY <1>1, <1>2, <1>3 DEF Segmented, Phases, Moved
<1> QED
  BY <1>1, <1>2, <1>3, <1>4 DEF Shape, Up

LEMMA ShapeCrash == ASSUME TypeOK, Shape, Crash PROVE Shape'
<1>1. writer' = "down" /\ retired' = {} /\ DOMAIN files' = DOMAIN files /\ DOMAIN index' = DOMAIN index
  BY DEF Crash, Cut, Lines
<1> QED
  BY <1>1 DEF Shape, Up

LEMMA ShapePoll == ASSUME TypeOK, Shape, Poll PROVE Shape'
  BY DEF Poll, Shape, Segmented, Phases, Up, Moved, disk, store

LEMMA ShapePin == ASSUME TypeOK, Shape, Pin PROVE Shape'
<1>1. UNCHANGED <<disk, writer, store>>
  BY DEF Pin
<1> QED
  BY <1>1 DEF Shape, Segmented, Phases, Up, Moved, disk, store

LEMMA ShapeRead == ASSUME TypeOK, Shape, Read PROVE Shape'
<1>1. /\ files' = Without(files, retired) /\ index' = Without(index, retired) /\ retired' = {}
      /\ UNCHANGED <<torn, writer, active, archives, offsets, file, indexing, bytes>>
  BY DEF Read
<1>2. Active \notin retired
  BY DEF TypeOK, InMemory, Active
<1>3. DOMAIN files' = DOMAIN files \ retired /\ DOMAIN index' = DOMAIN index \ retired
      /\ \A f \in DOMAIN files' : files'[f] = files[f]
  BY <1>1 DEF Without
<1>4. Segmented => Segmented'
  BY <1>1, <1>3 DEF Segmented, Moved
<1>5. Phases => Phases'
  BY <1>1, <1>2, <1>3 DEF Phases, Moved
<1> QED
  BY <1>1, <1>3, <1>4, <1>5 DEF Shape, Up

-----------------------------------------------------------------------------
(* The indexes fit their files.                                            *)

\* A line of a failed append may have the sequence of the next event.
Ghost == "ghost" \in damage

\* Records are in order within a file, and before those of events.jsonl.
FileOrder ==
  /\ \A f \in DOMAIN files : Sorted(files[f]) /\ (~Ghost => Strict(files[f]))
  /\ Active \in DOMAIN files =>
       \A f \in DOMAIN files \ {Active} :
         \A i \in DOMAIN files[f] : \A j \in DOMAIN files[Active] :
          files[Active][j].seq > 0 =>
            /\ files[f][i].seq <= files[Active][j].seq
            /\ ~Ghost => files[f][i].seq < files[Active][j].seq

\* An index that is whole is a digest of its file,
SidecarsFit ==
  \A f \in DOMAIN files \cap DOMAIN index :
     index[f].whole => Digest(index[f].rows, files[f])

\* and that of events.jsonl, where the rotation has left it, is one of the
\* file it was made for.
SidecarOfActive ==
  Active \in DOMAIN index =>
    /\ IF writer = "persist" THEN archives # <<>> /\ index[Active].id = archives[1]
       ELSE index[Active].id = active
    /\ Moved /\ index[Active].whole => Digest(index[Active].rows, files[active])
    /\ ~Moved /\ writer # "persist" /\ Active \notin DOMAIN files => index[Active].rows = {}

\* No record is ahead of the store, but a ghost.
Numbered ==
  \A f \in DOMAIN files : \A i \in DOMAIN files[f] :
     files[f][i].seq <= sequence + 1 /\ (~Ghost => files[f][i].seq <= sequence)

\* The rows in memory are a digest of the segment's file, wherever that is.
LinesOf(id) == IF FileOf(id) \in DOMAIN files THEN files[FileOf(id)] ELSE <<>>
Fits(id) ==
  /\ Digest(offsets[id], LinesOf(id))
  /\ \A r \in offsets[id] : r.seq <= sequence
  /\ \A i \in DOMAIN LinesOf(id) :
       \/ Held(offsets[id], LinesOf(id)[i])
       \/ Ghost /\ (id = active => LinesOf(id)[i].seq = sequence + 1)

\* After a stale sidecar nothing of it is promised.
Fit ==
  "stale" \notin damage =>
    /\ FileOrder /\ SidecarsFit
    /\ Up => SidecarOfActive /\ Numbered /\ \A id \in DOMAIN offsets : Fits(id)

-----------------------------------------------------------------------------

\* Lines of files.
LEMMA LinesSeq == ASSUME TypeOK, NEW f \in DOMAIN files
  PROVE /\ files[f] \in Seq(Line)
        /\ DOMAIN files[f] = 1 .. Len(files[f]) /\ Len(files[f]) \in Nat
        /\ \A i \in DOMAIN files[f] : files[f][i] \in Line /\ files[f][i].seq \in Nat
<1>1. files[f] \in Seq(Line)
  BY DEF TypeOK, OnDisk
<1>2. \A i \in DOMAIN files[f] : files[f][i] \in Line
  BY <1>1
<1> QED
  BY <1>1, <1>2 DEF Line

\* Where the lines of a segment are.
LEMMA LinesFacts ==
  ASSUME TypeOK, Shape, Up
  PROVE  /\ \A id \in ToSet(archives) : LinesOf(id) = files[id] /\ id \in DOMAIN files /\ id # active
         /\ LinesOf(active) = IF Active \in DOMAIN files THEN files[Active]
                              ELSE IF Moved THEN files[active] ELSE <<>>
         /\ DOMAIN offsets = {active} \cup ToSet(archives)
         /\ Active \notin DOMAIN offsets
<1>1. active \in 1 .. drawn /\ ToSet(archives) \subseteq 1 .. drawn /\ DOMAIN offsets = {active} \cup ToSet(archives)
  BY IdsFacts DEF TypeOK, Counts, InMemory
<1>2. Segmented /\ Phases
  BY DEF Shape
<1> QED
  BY <1>1, <1>2 DEF LinesOf, FileOf, Segmented, Phases, Active

\* Digests of a file that grows by a line.
LEMMA DigestGrows ==
  ASSUME NEW lines \in Seq(Line), NEW rows, Digest(rows, lines), NEW x \in Line
  PROVE  Digest(rows, Append(lines, x))
<1>1. /\ DOMAIN Append(lines, x) = 1 .. Len(lines) + 1 /\ DOMAIN lines = 1 .. Len(lines) /\ Len(lines) \in Nat
      /\ \A i \in DOMAIN lines : Append(lines, x)[i] = lines[i]
  OBVIOUS
<1> DEFINE more == Append(lines, x)
<1>2. \A i \in DOMAIN lines : more[i] = lines[i] /\ i \in DOMAIN more
  BY <1>1
<1> HIDE DEF more
<1>3. \A r \in rows : r.at \in DOMAIN lines /\ r = [seq |-> lines[r.at].seq, at |-> r.at]
  BY DEF Digest, RowsAt
<1>4. rows \subseteq RowsAt(more, DOMAIN more)
  BY <1>2, <1>3 DEF RowsAt
<1>5. ASSUME NEW r \in rows, NEW i \in 1 .. r.at PROVE Held(rows, more[i])
  <2>1. i \in DOMAIN lines
    BY <1>1, <1>3, <1>5
  <2>2. Held(rows, lines[i])
    BY DEF Digest
  <2> QED
    BY <2>1, <2>2, <1>2
<1>6. Digest(rows, more)
  BY <1>4, <1>5 DEF Digest
<1> QED
  BY <1>6 DEF more

LEMMA DigestAppends ==
  ASSUME NEW lines \in Seq(Line), NEW rows, Digest(rows, lines), NEW s \in Nat,
         \A r \in rows : r.seq <= s,
         \A i \in DOMAIN lines : Held(rows, lines[i]) \/ lines[i].seq = s + 1,
         NEW x \in Line, x.seq = s + 1
  PROVE  LET all == rows \cup {[seq |-> s + 1, at |-> Len(lines) + 1]}
         IN  /\ Digest(all, Append(lines, x))
             /\ \A i \in DOMAIN Append(lines, x) : Held(all, Append(lines, x)[i])
<1> DEFINE more == Append(lines, x)
           row  == [seq |-> s + 1, at |-> Len(lines) + 1]
           all  == rows \cup {row}
<1>1. /\ DOMAIN more = 1 .. Len(lines) + 1 /\ DOMAIN lines = 1 .. Len(lines) /\ Len(lines) \in Nat
      /\ \A i \in DOMAIN lines : more[i] = lines[i] /\ i \in DOMAIN more
      /\ more[Len(lines) + 1] = x
  OBVIOUS
<1>2. row.seq = s + 1 /\ row.at = Len(lines) + 1 /\ row \in all /\ rows \subseteq all
      /\ \A r \in all : r \in rows \/ r = row
  OBVIOUS
<1>3. row \in RowsAt(more, DOMAIN more)
  BY <1>1 DEF RowsAt
<1> HIDE DEF more, row, all
<1>4. Digest(rows, more)
  BY DigestGrows DEF more
<1>5. \A r \in rows : r.at \in DOMAIN lines /\ r.seq \in Nat
  <2>1. rows \subseteq RowsAt(lines, DOMAIN lines)
    BY DEF Digest
  <2>2. rows \subseteq Row /\ \A r \in rows : r.at \in DOMAIN lines
    BY <2>1, RowsFacts
  <2> QED
    BY <2>2 DEF Row
<1>6. all \subseteq RowsAt(more, DOMAIN more)
  BY <1>2, <1>3, <1>4 DEF Digest
<1>7. \A r \in all : r.seq > 0
  BY <1>2, <1>4 DEF Digest
<1>8. Growing(all)
  <2>1. Growing(rows)
    BY DEF Digest
  <2> QED
    BY <1>1, <1>2, <1>5, <2>1 DEF Growing
<1>9. ASSUME NEW i \in DOMAIN more PROVE Held(all, more[i])
  <2>1. CASE i \in DOMAIN lines
    <3>1. Held(rows, lines[i]) \/ lines[i].seq = row.seq
      BY <2>1, <1>2
    <3> QED
      BY <3>1, <2>1, <1>1, <1>2 DEF Held
  <2>2. CASE i = Len(lines) + 1
    BY <2>2, <1>1, <1>2 DEF Held
  <2> QED
    BY <2>1, <2>2, <1>1
<1>10. \A r \in all : \A i \in 1 .. r.at : i \in DOMAIN more
  BY <1>1, <1>2, <1>5
<1>11. Digest(all, more)
  BY <1>6, <1>7, <1>8, <1>9, <1>10 DEF Digest
<1> QED
  BY <1>9, <1>11 DEF all, more, row

\* A file in order that grows by a line.
LEMMA SortedAppends ==
  ASSUME NEW lines \in Seq(Line), NEW x \in Line
  PROVE  /\ Sorted(lines) /\ (x.seq = 0 \/ \A i \in DOMAIN lines : lines[i].seq <= x.seq)
              => Sorted(Append(lines, x))
         /\ Strict(lines) /\ (x.seq = 0 \/ \A i \in DOMAIN lines : lines[i].seq < x.seq)
              => Strict(Append(lines, x))
<1> DEFINE more == Append(lines, x)
<1>1. /\ DOMAIN more = 1 .. Len(lines) + 1 /\ DOMAIN lines = 1 .. Len(lines) /\ Len(lines) \in Nat
      /\ \A i \in DOMAIN lines : more[i] = lines[i] /\ i \in DOMAIN more
      /\ more[Len(lines) + 1] = x /\ x.seq \in Nat
  BY DEF Line
<1> HIDE DEF more
<1>2. \A i, j \in DOMAIN more : i < j => i \in DOMAIN lines /\ (j \in DOMAIN lines \/ j = Len(lines) + 1)
  BY <1>1
<1>3. Sorted(lines) /\ (x.seq = 0 \/ \A i \in DOMAIN lines : lines[i].seq <= x.seq) => Sorted(more)
  BY <1>1, <1>2 DEF Sorted
<1>4. Strict(lines) /\ (x.seq = 0 \/ \A i \in DOMAIN lines : lines[i].seq < x.seq) => Strict(more)
  BY <1>1, <1>2 DEF Strict
<1> QED
  BY <1>3, <1>4 DEF more

\* No rows are a digest of anything.
LEMMA EmptyDigest == \A lines : Digest({}, lines)
  BY DEF Digest, Growing

\* What a start loads is a digest of all of the file.
LEMMA LoadedFits ==
  ASSUME TypeOK, FileOrder, SidecarsFit, NEW name \in DOMAIN files, NEW expected
  PROVE  /\ Digest(Loaded(name, expected), files[name])
         /\ \A i \in DOMAIN files[name] : Held(Loaded(name, expected), files[name][i])
<1> DEFINE lines == files[name]
           rows  == IF Sound(name, expected) THEN index[name].rows ELSE {}
           Grows(i) == /\ lines[i].seq > LastSequence(rows)
                       /\ \A j \in LastLine(rows) + 1 .. Len(lines) : j < i => lines[j].seq < lines[i].seq
           where == {i \in LastLine(rows) + 1 .. Len(lines) : Grows(i)}
           all == Loaded(name, expected)
<1>1. lines \in Seq(Line) /\ Sorted(lines)
  BY LinesSeq DEF FileOrder
<1>2. Digest(rows, lines)
  <2>1. Sound(name, expected) => Digest(index[name].rows, lines)
    BY DEF Sound, SidecarsFit
  <2> QED
    BY <2>1, EmptyDigest
<1>3. all = rows \cup RowsAt(lines, where)
  BY Zenon DEF Loaded
<1>4. where \subseteq LastLine(rows) + 1 .. Len(lines)
      /\ \A i \in LastLine(rows) + 1 .. Len(lines) : i \in where <=> Grows(i)
  OBVIOUS
<1>5. \A i \in LastLine(rows) + 1 .. Len(lines) :
         i \in where <=> /\ lines[i].seq > LastSequence(rows)
                         /\ \A j \in LastLine(rows) + 1 .. Len(lines) : j < i => lines[j].seq < lines[i].seq
  BY <1>4
<1> HIDE DEF where, rows, lines, all
<1>6. Digest(all, lines) /\ \A i \in DOMAIN lines : Held(all, lines[i])
  BY <1>1, <1>2, <1>3, <1>4, <1>5, LoadDigest
<1> QED
  BY <1>6 DEF all, lines

\* The digest of a file that holds a record ends in its last one.
LEMMA LastHeld ==
  ASSUME NEW lines \in Seq(Line), NEW rows, Digest(rows, lines),
         NEW i \in DOMAIN lines, Held(rows, lines[i])
  PROVE  lines[i].seq <= LastSequence(rows)
<1>1. rows \subseteq RowsAt(lines, DOMAIN lines)
  BY DEF Digest
<1>2. LastSequence(rows) \in Nat /\ \A r \in rows : r.seq <= LastSequence(rows)
  BY <1>1, RowsFacts
<1> QED
  BY <1>2 DEF Held

-----------------------------------------------------------------------------
(* The steps keep them fitting.                                            *)

\* Steps that leave files and rows alone.
LEMMA FitKeeps ==
  ASSUME Fit, UNCHANGED <<files, index, active, archives, offsets, sequence, damage>>,
         Up' <=> Up, Moved' <=> Moved, writer' = "persist" <=> writer = "persist"
  PROVE  Fit'
BY DEF Fit, FileOrder, SidecarsFit, SidecarOfActive, Numbered, Fits, LinesOf, FileOf, Ghost

LEMMA FitTake == ASSUME Fit, Take PROVE Fit'
<1>1. UNCHANGED <<files, index, active, archives, offsets, sequence, damage>>
      /\ writer = "idle" /\ writer' \in {"write", "flush"}
  BY DEF Take, disk, store, state, history
<1> QED
  BY <1>1, FitKeeps DEF Up, Moved

LEMMA FitPoll == ASSUME Fit, Poll PROVE Fit'
<1>1. UNCHANGED <<files, index, active, archives, offsets, sequence, damage, writer>>
  BY DEF Poll, disk, store, state, history
<1> QED
  BY <1>1, FitKeeps DEF Up, Moved

LEMMA FitPin == ASSUME Fit, Pin PROVE Fit'
<1>1. UNCHANGED <<files, index, active, archives, offsets, sequence, damage, writer>>
  <2>1. UNCHANGED <<disk, writer, store, state, history>>
    BY DEF Pin
  <2> QED
    BY <2>1 DEF disk, store, state, history
<1> QED
  BY <1>1, FitKeeps DEF Up, Moved

LEMMA FitFlushIndex == ASSUME TypeOK, Shape, Fit, FlushIndex PROVE Fit'
<1> SUFFICES ASSUME "stale" \notin damage' PROVE Fit'
  BY DEF Fit
<1>1. /\ writer = "flush" /\ writer' = "rename" /\ UNCHANGED <<files, active, archives, offsets, sequence, damage>>
  BY DEF FlushIndex, state, history
<1>2. /\ FileOrder /\ SidecarsFit /\ SidecarOfActive /\ Numbered /\ \A id \in DOMAIN offsets : Fits(id)
      /\ Phases /\ Up
  BY <1>1 DEF Fit, Up, Shape
<1>3. Active \in DOMAIN files
  BY <1>1, <1>2 DEF Phases, Moved
<1>4. Digest(offsets[active], files[Active])
  BY <1>2, <1>3, ActiveOffsets, LinesFacts DEF Fits
<1>5. /\ DOMAIN index' = DOMAIN index
      /\ \A f \in DOMAIN index : f # Active => index'[f] = index[f]
      /\ Active \in DOMAIN index => /\ index'[Active].id = index[Active].id
                                    /\ index'[Active].whole = index[Active].whole
                                    /\ index'[Active].rows \in {index[Active].rows, offsets[active]}
  <2>1. Active \in DOMAIN index => index[Active] = [id |-> index[Active].id, whole |-> index[Active].whole, rows |-> index[Active].rows]
    BY DEF TypeOK, OnDisk, Sidecar
  <2> QED
    BY <2>1 DEF FlushIndex, Flushed
<1>6. SidecarsFit'
  BY <1>1, <1>2, <1>3, <1>4, <1>5 DEF SidecarsFit
<1>7. SidecarOfActive'
  BY <1>1, <1>2, <1>3, <1>5 DEF SidecarOfActive, Moved
<1>8. FileOrder' /\ Numbered' /\ \A id \in DOMAIN offsets' : Fits(id)'
  BY <1>1, <1>2 DEF FileOrder, Numbered, Fits, LinesOf, FileOf, Ghost
<1> QED
  BY <1>6, <1>7, <1>8 DEF Fit

LEMMA FitRenameData == ASSUME TypeOK, Shape, Fit, RenameData PROVE Fit'
<1> SUFFICES ASSUME "stale" \notin damage' PROVE Fit'
  BY DEF Fit
<1>1. /\ writer = "rename" /\ UNCHANGED <<index, active, archives, offsets, sequence>>
      /\ "stale" \notin damage /\ (Ghost' <=> Ghost)
  BY DEF RenameData, store, state, history, Ghost
<1>2. /\ FileOrder /\ SidecarsFit /\ SidecarOfActive /\ Numbered /\ \A id \in DOMAIN offsets : Fits(id)
      /\ Phases /\ Segmented /\ Up
  BY <1>1 DEF Fit, Up, Shape
<1>3. Active \in DOMAIN files /\ active \notin DOMAIN files /\ active # Active /\ active \notin DOMAIN index
  BY <1>1, <1>2 DEF Phases, Moved, Segmented, TypeOK, Counts, Active, Shape
<1>4. CASE files' = With(Without(files, {Active}), active, files[Active]) /\ writer' = "rename_index"
  <2>1. /\ DOMAIN files' = (DOMAIN files \ {Active}) \cup {active}
        /\ files'[active] = files[Active]
        /\ \A f \in DOMAIN files' : f # active => f \in DOMAIN files /\ f # Active /\ files'[f] = files[f]
    BY <1>4, <1>3 DEF With, Without
  <2>2. FileOrder'
    BY <1>1, <1>2, <1>3, <2>1 DEF FileOrder
  <2>3. SidecarsFit'
    BY <1>1, <1>2, <1>3, <2>1 DEF SidecarsFit
  <2>4. SidecarOfActive'
    BY <1>1, <1>2, <1>3, <1>4, <2>1 DEF SidecarOfActive, SidecarsFit, Moved
  <2>5. Numbered'
    BY <1>1, <1>2, <1>3, <2>1 DEF Numbered
  <2>6. \A id \in DOMAIN offsets : LinesOf(id)' = LinesOf(id)
    <3>1. DOMAIN offsets = {active} \cup ToSet(archives)
      BY <1>2, LinesFacts
    <3>2. LinesOf(active)' = files[Active] /\ LinesOf(active) = files[Active]
      BY <1>1, <1>2, <1>3, <2>1, LinesFacts DEF LinesOf, FileOf
    <3>3. ASSUME NEW id \in ToSet(archives) PROVE LinesOf(id)' = LinesOf(id)
      <4>1. LinesOf(id) = files[id] /\ id \in DOMAIN files /\ id # active /\ id # Active
        BY <1>2, LinesFacts
      <4> QED
        BY <1>1, <1>3, <2>1, <4>1 DEF LinesOf, FileOf
    <3> QED
      BY <1>1, <3>1, <3>2, <3>3
  <2>7. \A id \in DOMAIN offsets' : Fits(id)'
    BY <1>1, <1>2, <2>6 DEF Fits
  <2> QED
    BY <2>2, <2>3, <2>4, <2>5, <2>7 DEF Fit
<1>5. CASE UNCHANGED files /\ writer' = "idle" /\ UNCHANGED damage
  BY <1>1, <1>5, FitKeeps DEF Up, Moved
<1> QED
  BY <1>4, <1>5 DEF RenameData

LEMMA FitRenameIndex == ASSUME TypeOK, Shape, Fit, RenameIndex PROVE Fit'
<1> SUFFICES ASSUME "stale" \notin damage' PROVE Fit'
  BY DEF Fit
<1>1. /\ writer = "rename_index" /\ writer' = "switch"
      /\ UNCHANGED <<files, active, archives, offsets, sequence, damage>>
  BY DEF RenameIndex, store, state, history
<1>2. /\ FileOrder /\ SidecarsFit /\ SidecarOfActive /\ Numbered /\ \A id \in DOMAIN offsets : Fits(id)
      /\ Phases /\ Segmented /\ Up /\ Moved /\ Active \notin DOMAIN files /\ active # Active
  BY <1>1 DEF Fit, Up, Shape, Moved, Phases, TypeOK, Counts, Active
<1>3. CASE Active \in DOMAIN index /\ index' = With(Without(index, {Active}), active, index[Active])
  <2>1. /\ DOMAIN index' = (DOMAIN index \ {Active}) \cup {active} /\ Active \notin DOMAIN index'
        /\ index'[active] = index[Active]
        /\ \A f \in DOMAIN index' : f # active => f \in DOMAIN index /\ index'[f] = index[f]
    BY <1>2, <1>3 DEF With, Without
  <2>2. SidecarsFit'
    BY <1>1, <1>2, <1>3, <2>1 DEF SidecarsFit, SidecarOfActive
  <2>3. SidecarOfActive'
    BY <2>1 DEF SidecarOfActive
  <2>4. FileOrder' /\ Numbered' /\ \A id \in DOMAIN offsets' : Fits(id)'
    BY <1>1, <1>2 DEF FileOrder, Numbered, Fits, LinesOf, FileOf, Ghost
  <2> QED
    BY <2>2, <2>3, <2>4 DEF Fit
<1>4. CASE UNCHANGED index
  BY <1>1, <1>4, FitKeeps DEF Up, Moved
<1> QED
  BY <1>3, <1>4 DEF RenameIndex

LEMMA FitSwitch == ASSUME JournalAssumption, TypeOK, Shape, Fit, Switch PROVE Fit'
<1> SUFFICES ASSUME "stale" \notin damage' PROVE Fit'
  BY DEF Fit
<1>1. PICK kept, gone, free : Switched(kept, gone, free)
  BY Switching
<1>2. /\ writer = "switch" /\ writer' = "persist" /\ active' = drawn + 1 /\ archives' = kept
      /\ UNCHANGED <<sequence, damage>> /\ Len(kept) >= 1 /\ kept[1] = active
      /\ gone = ({active} \cup ToSet(archives)) \ ToSet(kept) /\ gone \subseteq ToSet(archives)
      /\ ToSet(kept) \subseteq {active} \cup ToSet(archives)
      /\ free \subseteq gone
      /\ offsets' = With(Without(offsets, gone), drawn + 1, {})
      /\ files' = Without(files, free) /\ index' = Without(index, free)
  <2>1. Len(Ids) \in Nat
    BY IdsFacts
  <2> QED
    BY <1>1, <2>1 DEF Switched, state
<1>3. /\ FileOrder /\ SidecarsFit /\ SidecarOfActive /\ Numbered /\ \A id \in DOMAIN offsets : Fits(id)
      /\ Phases /\ Segmented /\ Up /\ Moved /\ Active \notin DOMAIN files /\ active # Active
      /\ drawn \in Nat /\ DOMAIN files \subseteq 0 .. drawn /\ active \in 0 .. drawn
  BY <1>2 DEF Fit, Up, Shape, Moved, Phases, TypeOK, Counts, OnDisk, Active
<1>4. /\ DOMAIN files' = DOMAIN files \ free /\ \A f \in DOMAIN files' : files'[f] = files[f]
      /\ DOMAIN index' = DOMAIN index \ free /\ \A f \in DOMAIN index' : index'[f] = index[f]
      /\ Active \notin free
  <2>1. Active \notin ToSet(archives)
    BY IdsFacts DEF Active
  <2> QED
    BY <1>2, <2>1 DEF Without
<1>5. drawn + 1 \notin DOMAIN files /\ drawn + 1 # active
  BY <1>3
<1>6. FileOrder' /\ Numbered'
  BY <1>2, <1>3, <1>4 DEF FileOrder, Numbered, Ghost
<1>7. SidecarsFit'
  BY <1>2, <1>3, <1>4 DEF SidecarsFit
<1>8. SidecarOfActive'
  <2>1. ~Moved' /\ archives' # <<>>
    BY <1>2 DEF Moved
  <2> QED
    BY <1>2, <1>3, <1>4, <2>1 DEF SidecarOfActive, Moved
<1>9. ASSUME NEW id \in DOMAIN offsets' PROVE Fits(id)'
  <2>1. CASE id = drawn + 1
    <3>1. offsets'[id] = {} /\ LinesOf(id)' = <<>>
      BY <2>1, <1>2, <1>3, <1>4, <1>5 DEF With, LinesOf, FileOf
    <3> QED
      BY <3>1, EmptyDigest DEF Fits
  <2>2. CASE id # drawn + 1
    <3>1. id \in DOMAIN offsets /\ id \notin gone /\ offsets'[id] = offsets[id]
      BY <2>2, <1>2 DEF With, Without
    <3>2. id \in DOMAIN files /\ LinesOf(id) = files[id]
      <4>1. id = active \/ id \in ToSet(archives)
        BY <3>1, <1>3, LinesFacts
      <4> QED
        BY <4>1, <1>3, LinesFacts DEF Segmented
    <3>3. LinesOf(id)' = files[id]
      BY <2>2, <3>1, <3>2, <1>2, <1>4, <1>3 DEF LinesOf, FileOf
    <3>4. Fits(id)
      BY <1>3, <3>1
    <3> QED
      BY <2>2, <3>1, <3>2, <3>3, <3>4, <1>2 DEF Fits, Ghost
  <2> QED
    BY <2>1, <2>2
<1> QED
  BY <1>6, <1>7, <1>8, <1>9 DEF Fit

LEMMA FitPersistIndex == ASSUME TypeOK, Shape, Fit, PersistIndex PROVE Fit'
<1> SUFFICES ASSUME "stale" \notin damage' PROVE Fit'
  BY DEF Fit
<1>1. /\ writer = "persist" /\ writer' = "open"
      /\ UNCHANGED <<files, active, archives, offsets, sequence>>
      /\ "stale" \notin damage /\ damage' = damage
      /\ \/ index' = With(index, Active, [id |-> active, whole |-> TRUE, rows |-> offsets[active]])
         \/ Active \notin DOMAIN index /\ index' = index
  BY DEF PersistIndex, state
<1>2. /\ FileOrder /\ SidecarsFit /\ SidecarOfActive /\ Numbered /\ \A id \in DOMAIN offsets : Fits(id)
      /\ Phases /\ Segmented /\ Up /\ ~Moved /\ ~Moved' /\ Active \notin DOMAIN files
  BY <1>1 DEF Fit, Up, Shape, Moved, Phases
<1>3. offsets[active] = {}
  <2>1. LinesOf(active) = <<>> /\ active \in DOMAIN offsets
    BY <1>2, LinesFacts
  <2>2. Digest(offsets[active], <<>>)
    BY <1>2, <2>1 DEF Fits
  <2> QED
    BY <2>2 DEF Digest, RowsAt
<1>4. SidecarsFit'
  BY <1>1, <1>2 DEF SidecarsFit, With
<1>5. SidecarOfActive'
  BY <1>1, <1>2, <1>3 DEF SidecarOfActive, With
<1>6. FileOrder' /\ Numbered' /\ \A id \in DOMAIN offsets' : Fits(id)'
  BY <1>1, <1>2 DEF FileOrder, Numbered, Fits, LinesOf, FileOf, Ghost
<1> QED
  BY <1>4, <1>5, <1>6 DEF Fit

LEMMA FitOpenFile == ASSUME TypeOK, Shape, Fit, OpenFile PROVE Fit'
<1> SUFFICES ASSUME "stale" \notin damage' PROVE Fit'
  BY DEF Fit
<1>1. /\ writer \in {"open", "write"} /\ writer' \in {"write", "idle"}
      /\ UNCHANGED <<index, active, archives, offsets, sequence, damage>>
  BY DEF OpenFile, state, history
<1>2. /\ FileOrder /\ SidecarsFit /\ SidecarOfActive /\ Numbered /\ \A id \in DOMAIN offsets : Fits(id)
      /\ Phases /\ Segmented /\ Up /\ ~Moved /\ ~Moved'
  BY <1>1 DEF Fit, Up, Shape, Moved
<1>3. CASE OpenWriter
  <2>1. /\ DOMAIN files' = DOMAIN files \cup {Active}
        /\ \A f \in DOMAIN files : files'[f] = files[f]
        /\ Active \notin DOMAIN files => files'[Active] = <<>>
    BY <1>3, Opens
  <2>2. FileOrder'
    <3>1. Sorted(<<>>) /\ Strict(<<>>)
      BY DEF Sorted, Strict
    <3> QED
      BY <1>1, <1>2, <2>1, <3>1 DEF FileOrder, Ghost
  <2>3. SidecarsFit'
    BY <1>1, <1>2, <2>1, EmptyDigest DEF SidecarsFit, SidecarOfActive
  <2>4. SidecarOfActive'
    BY <1>1, <1>2, <2>1 DEF SidecarOfActive
  <2>5. Numbered'
    BY <1>1, <1>2, <2>1 DEF Numbered, Ghost
  <2>6. \A id \in DOMAIN offsets : LinesOf(id)' = LinesOf(id)
    <3>1. DOMAIN offsets = {active} \cup ToSet(archives)
      BY <1>2, LinesFacts
    <3>2. LinesOf(active)' = LinesOf(active)
      BY <1>1, <1>2, <2>1, LinesFacts DEF LinesOf, FileOf
    <3>3. ASSUME NEW id \in ToSet(archives) PROVE LinesOf(id)' = LinesOf(id)
      <4>1. LinesOf(id) = files[id] /\ id \in DOMAIN files /\ id # active
        BY <1>2, LinesFacts
      <4> QED
        BY <1>1, <2>1, <4>1 DEF LinesOf, FileOf
    <3> QED
      BY <1>1, <3>1, <3>2, <3>3
  <2>7. \A id \in DOMAIN offsets' : Fits(id)'
    BY <1>1, <1>2, <2>6 DEF Fits, Ghost
  <2> QED
    BY <2>2, <2>3, <2>4, <2>5, <2>7 DEF Fit
<1>4. CASE UNCHANGED files
  BY <1>1, <1>2, <1>4, FitKeeps DEF Up, Moved
<1> QED
  BY <1>3, <1>4 DEF OpenFile

\* A line at the end of events.jsonl.
LEMMA Appended ==
  ASSUME TypeOK, Shape, FileOrder, SidecarsFit, Numbered, Active \in DOMAIN files,
         NEW x \in Line, x.seq = 0 \/ x.seq = sequence + 1, Ghost => Ghost',
         DOMAIN files' = DOMAIN files, files'[Active] = Append(files[Active], x),
         \A f \in DOMAIN files : f # Active => files'[f] = files[f]
  PROVE  /\ FileOrder'
         /\ \A f \in DOMAIN files \cap DOMAIN index : index[f].whole => Digest(index[f].rows, files'[f])
<1>1. sequence \in Nat
  BY DEF TypeOK, Counts
<1>2. files[Active] \in Seq(Line) /\ \A i \in DOMAIN files[Active] : files[Active][i].seq \in Nat
  BY LinesSeq
<1>3. Sorted(files'[Active])
  <2>1. x.seq = 0 \/ \A i \in DOMAIN files[Active] : files[Active][i].seq <= x.seq
    BY <1>1, <1>2 DEF Numbered
  <2> QED
    BY <1>2, <2>1, SortedAppends DEF FileOrder
<1>4. ~Ghost' => Strict(files'[Active])
  <2>1. ~Ghost => x.seq = 0 \/ \A i \in DOMAIN files[Active] : files[Active][i].seq < x.seq
    BY <1>1, <1>2 DEF Numbered
  <2> QED
    BY <1>2, <2>1, SortedAppends DEF FileOrder
<1>5. ASSUME NEW f \in DOMAIN files, f # Active, NEW i \in DOMAIN files[f], NEW j \in DOMAIN files'[Active],
             files'[Active][j].seq > 0
      PROVE  /\ files[f][i].seq <= files'[Active][j].seq
             /\ ~Ghost' => files[f][i].seq < files'[Active][j].seq
  <2>1. files[f][i].seq \in Nat
    BY LinesSeq
  <2>2. CASE j \in DOMAIN files[Active]
    <3>1. files'[Active][j] = files[Active][j]
      BY <2>2, <1>2
    <3> QED
      BY <2>2, <3>1, <1>5 DEF FileOrder
  <2>3. CASE j = Len(files[Active]) + 1
    <3>1. files'[Active][j] = x
      BY <2>3, <1>2
    <3> QED
      BY <3>1, <2>1, <1>1, <1>5 DEF Numbered
  <2> QED
    BY <2>2, <2>3, <1>2, <1>5
<1>6. FileOrder'
  BY <1>3, <1>4, <1>5 DEF FileOrder
<1>7. \A f \in DOMAIN files \cap DOMAIN index : index[f].whole => Digest(index[f].rows, files'[f])
  BY <1>2, DigestGrows DEF SidecarsFit
<1> QED
  BY <1>6, <1>7

LEMMA FitAppendLine == ASSUME TypeOK, Shape, Fit, AppendLine PROVE Fit'
<1> SUFFICES ASSUME "stale" \notin damage' PROVE Fit'
  BY DEF Fit
<1>1. /\ writer = "write" /\ file /\ writer' = "idle" /\ sequence' = sequence + 1
      /\ UNCHANGED <<active, archives, damage>> /\ files' = Lines(Record)
      /\ offsets' = [offsets EXCEPT ![active] = offsets[active] \cup {[seq |-> sequence + 1, at |-> bytes + 1]}]
  BY DEF AppendLine
<1>2. /\ FileOrder /\ SidecarsFit /\ SidecarOfActive /\ Numbered /\ \A id \in DOMAIN offsets : Fits(id)
      /\ Phases /\ Segmented /\ Up /\ ~Moved /\ ~Moved' /\ (Ghost' <=> Ghost)
      /\ sequence \in Nat /\ Active # active
  BY <1>1 DEF Fit, Up, Shape, Moved, TypeOK, Counts, Ghost, Active
<1>3. /\ Active \in DOMAIN files /\ bytes = Len(files[Active]) /\ ~torn /\ files[Active] \in Seq(Line)
      /\ Record \in Line /\ Record.seq = sequence + 1
  BY <1>1, <1>2, LinesSeq, RecordType DEF Phases, Record
<1>4. /\ DOMAIN files' = DOMAIN files /\ files'[Active] = Append(files[Active], Record)
      /\ \A f \in DOMAIN files : f # Active => files'[f] = files[f]
  BY <1>1, <1>3 DEF Lines
<1>5. /\ FileOrder'
      /\ \A f \in DOMAIN files \cap DOMAIN index : index[f].whole => Digest(index[f].rows, files'[f])
  BY <1>2, <1>3, <1>4, Appended
<1> DEFINE all == offsets[active] \cup {[seq |-> sequence + 1, at |-> Len(files[Active]) + 1]}
<1>6. active \in DOMAIN offsets /\ offsets'[active] = all /\ DOMAIN offsets' = DOMAIN offsets
      /\ \A id \in DOMAIN offsets : id # active => offsets'[id] = offsets[id]
  <2>1. active \in DOMAIN offsets
    BY <1>2, ActiveOffsets
  <2> QED
    BY <1>1, <1>3, <2>1
<1>7. LinesOf(active) = files[Active] /\ LinesOf(active)' = files'[Active]
  BY <1>1, <1>2, <1>3, <1>4, LinesFacts DEF LinesOf, FileOf
<1>8. /\ Digest(all, files'[Active])
      /\ \A i \in DOMAIN files'[Active] : Held(all, files'[Active][i])
  <2>1. Fits(active)
    BY <1>2, <1>6
  <2>2. Digest(offsets[active], files[Active]) /\ (\A r \in offsets[active] : r.seq <= sequence)
        /\ \A i \in DOMAIN files[Active] : Held(offsets[active], files[Active][i]) \/ files[Active][i].seq = sequence + 1
    BY <2>1, <1>7 DEF Fits
  <2>3. /\ Digest(all, Append(files[Active], Record))
        /\ \A i \in DOMAIN Append(files[Active], Record) : Held(all, Append(files[Active], Record)[i])
    BY <1>2, <1>3, <2>2, DigestAppends
  <2> QED
    BY <1>4, <2>3
<1>9. Fits(active)'
  <2>1. \A r \in all : r.seq <= sequence'
    <3>1. \A r \in offsets[active] : r.seq <= sequence /\ r.seq \in Nat
      <4>1. Fits(active)
        BY <1>2, <1>6
      <4>2. offsets[active] \subseteq Row
        BY <1>2, ActiveOffsets DEF RowSets
      <4> QED
        BY <4>1, <4>2 DEF Fits, Row
    <3> QED
      BY <3>1, <1>1, <1>2
  <2> QED
    BY <1>1, <1>6, <1>7, <1>8, <2>1 DEF Fits
<1>10. ASSUME NEW id \in DOMAIN offsets, id # active PROVE Fits(id)'
  <2>1. LinesOf(id) = files[id] /\ id \in DOMAIN files /\ id # Active
    BY <1>2, <1>10, LinesFacts
  <2>2. LinesOf(id)' = LinesOf(id)
    BY <1>1, <1>4, <1>10, <2>1 DEF LinesOf, FileOf
  <2>3. \A r \in offsets[id] : r.seq \in Nat
    BY DEF TypeOK, InMemory, RowSets, Row
  <2>4. Fits(id)
    BY <1>2
  <2> QED
    BY <1>1, <1>2, <1>6, <1>10, <2>2, <2>3, <2>4 DEF Fits
<1>11. Numbered'
  <2> SUFFICES ASSUME NEW f \in DOMAIN files', NEW i \in DOMAIN files'[f]
               PROVE  files'[f][i].seq <= sequence + 1 /\ files'[f][i].seq \in Nat
    BY <1>1, <1>2 DEF Numbered
  <2>1. CASE f # Active
    BY <2>1, <1>1, <1>2, <1>4, LinesSeq DEF Numbered
  <2>2. CASE f = Active
    <3>1. (i \in DOMAIN files[Active] /\ files'[f][i] = files[Active][i]) \/ files'[f][i] = Record
      BY <2>2, <1>3, <1>4
    <3> QED
      BY <3>1, <1>1, <1>2, <1>3, LinesSeq DEF Numbered
  <2> QED
    BY <2>1, <2>2
<1>12. /\ DOMAIN index' = DOMAIN index
       /\ \A f \in DOMAIN index : f # Active => index'[f] = index[f]
       /\ Active \in DOMAIN index => /\ index'[Active].id = index[Active].id
                                     /\ index'[Active].whole = index[Active].whole
                                     /\ index'[Active].rows \in {index[Active].rows, all}
  <2>1. Active \in DOMAIN index => index[Active] = [id |-> index[Active].id, whole |-> index[Active].whole, rows |-> index[Active].rows]
    BY DEF TypeOK, OnDisk, Sidecar
  <2>2. all = offsets[active] \cup {[seq |-> sequence + 1, at |-> bytes + 1]}
    BY <1>3
  <2>3. index' = index \/ index' = [index EXCEPT ![Active].rows = all]
    BY <2>2 DEF AppendLine
  <2> HIDE DEF all
  <2> QED
    BY <2>1, <2>3
<1> HIDE DEF all
<1>13. SidecarsFit'
  BY <1>4, <1>5, <1>8, <1>12 DEF SidecarsFit
<1>14. SidecarOfActive'
  BY <1>1, <1>2, <1>3, <1>4, <1>12 DEF SidecarOfActive
<1> QED
  BY <1>1, <1>5, <1>6, <1>9, <1>10, <1>11, <1>13, <1>14 DEF Fit

\* A failed write adds one line at most.
LEMMA CutLine ==
  ASSUME TypeOK, Shape, Up, writer = "write", file, NEW line, Cut(line)
  PROVE  /\ Active \in DOMAIN files
         /\ files' = files \/ files' = [files EXCEPT ![Active] = Append(files[Active], line)]
BY DEF Shape, Phases, Cut, Lines

LEMMA FitCutAppend == ASSUME TypeOK, Shape, Fit, CutAppend PROVE Fit'
<1> SUFFICES ASSUME "stale" \notin damage' PROVE Fit'
  BY DEF Fit
<1>1. /\ writer = "write" /\ file /\ writer' = "idle"
      /\ UNCHANGED <<index, active, archives, offsets, sequence>>
      /\ \/ Cut(Garbage) /\ damage' = damage
         \/ Cut(Record) /\ damage' = damage \cup {"ghost"}
  BY DEF CutAppend, state
<1>2. /\ FileOrder /\ SidecarsFit /\ SidecarOfActive /\ Numbered /\ \A id \in DOMAIN offsets : Fits(id)
      /\ Phases /\ Segmented /\ Up /\ ~Moved /\ ~Moved' /\ (Ghost => Ghost')
      /\ sequence \in Nat
  BY <1>1 DEF Fit, Up, Shape, Moved, TypeOK, Counts, Ghost
<1>3. PICK x \in Line : /\ x = Garbage \/ (x = Record /\ Ghost')
                        /\ Cut(x)
  BY <1>1, LinesType, RecordType DEF Ghost
<1>4. /\ x.seq = 0 \/ (x.seq = sequence + 1 /\ Ghost')
  BY <1>3 DEF Garbage, Record
<1>5. /\ Active \in DOMAIN files
      /\ files' = files \/ files' = [files EXCEPT ![Active] = Append(files[Active], x)]
  BY <1>1, <1>2, <1>3, CutLine
<1>6. CASE files' = files
  BY <1>1, <1>2, <1>6 DEF Fit, FileOrder, SidecarsFit, SidecarOfActive, Numbered, Fits, LinesOf, FileOf
<1>7. CASE files' = [files EXCEPT ![Active] = Append(files[Active], x)]
  <2>1. /\ DOMAIN files' = DOMAIN files /\ files'[Active] = Append(files[Active], x)
        /\ \A f \in DOMAIN files : f # Active => files'[f] = files[f]
    BY <1>5, <1>7
  <2>2. /\ FileOrder'
        /\ \A f \in DOMAIN files \cap DOMAIN index : index[f].whole => Digest(index[f].rows, files'[f])
    BY <1>2, <1>4, <1>5, <2>1, Appended
  <2>3. SidecarsFit'
    BY <1>1, <2>1, <2>2 DEF SidecarsFit
  <2>4. SidecarOfActive'
    BY <1>1, <1>2, <1>5, <2>1 DEF SidecarOfActive
  <2>5. /\ files[Active] \in Seq(Line)
        /\ \A i \in DOMAIN files'[Active] : (i \in DOMAIN files[Active] /\ files'[Active][i] = files[Active][i]) \/ files'[Active][i] = x
    BY <1>5, <2>1, LinesSeq
  <2>6. Numbered'
    <3> SUFFICES ASSUME NEW f \in DOMAIN files', NEW i \in DOMAIN files'[f]
                 PROVE  files'[f][i].seq <= sequence + 1 /\ (~Ghost' => files'[f][i].seq <= sequence)
      BY <1>1 DEF Numbered
    <3>1. CASE f # Active
      BY <3>1, <1>2, <2>1 DEF Numbered
    <3>2. CASE f = Active
      BY <3>2, <2>5, <1>2, <1>4, <1>5 DEF Numbered
    <3> QED
      BY <3>1, <3>2
  <2>7. ASSUME NEW id \in DOMAIN offsets, id # active PROVE Fits(id)'
    <3>1. LinesOf(id) = files[id] /\ id \in DOMAIN files /\ id # Active
      BY <1>2, <2>7, LinesFacts
    <3>2. LinesOf(id)' = LinesOf(id)
      BY <1>1, <2>1, <2>7, <3>1 DEF LinesOf, FileOf
    <3>3. Fits(id)
      BY <1>2
    <3> QED
      BY <1>1, <1>2, <3>2, <3>3 DEF Fits
  <2>8. Fits(active)'
    <3>1. LinesOf(active) = files[Active] /\ LinesOf(active)' = files'[Active]
      BY <1>1, <1>2, <1>5, <2>1, LinesFacts DEF LinesOf, FileOf
    <3>2. Fits(active)
      BY <1>2, ActiveOffsets
    <3>3. Digest(offsets[active], files'[Active])
      BY <2>1, <2>5, <3>1, <3>2, DigestGrows DEF Fits
    <3>4. Held(offsets[active], x) \/ (Ghost' /\ x.seq = sequence + 1)
      BY <1>4 DEF Held
    <3> QED
      BY <1>1, <1>2, <2>5, <3>1, <3>2, <3>3, <3>4 DEF Fits
  <2> QED
    BY <1>1, <2>2, <2>3, <2>4, <2>6, <2>7, <2>8 DEF Fit
<1> QED
  BY <1>5, <1>6, <1>7

LEMMA FitCrash == ASSUME TypeOK, Shape, Fit, Crash PROVE Fit'
<1> SUFFICES ASSUME "stale" \notin damage' PROVE Fit'
  BY DEF Fit
<1>1. /\ Up /\ writer' = "down" /\ UNCHANGED damage /\ (Ghost' <=> Ghost)
  BY DEF Crash, Up, history, Ghost
<1>2. FileOrder /\ SidecarsFit /\ Numbered /\ sequence \in Nat
  BY <1>1 DEF Fit, TypeOK, Counts
<1>3. \A f \in DOMAIN index' : f \in DOMAIN index /\ (index'[f].whole => index'[f] = index[f])
  <2>1. CASE index' = index
    BY <2>1
  <2>2. CASE Active \in DOMAIN index /\ index' = [index EXCEPT ![Active].whole = FALSE]
    <3>1. index[Active] \in Sidecar
      BY <2>2 DEF TypeOK, OnDisk
    <3>2. index'[Active].whole = FALSE
      BY <2>2, <3>1 DEF Sidecar
    <3> QED
      BY <2>2, <3>2
  <2> QED
    BY <2>1, <2>2 DEF Crash
<1>4. \/ files' = files
      \/ Active \in DOMAIN files /\ \E x \in {Garbage, Record} : files' = [files EXCEPT ![Active] = Append(files[Active], x)]
  <2>1. CASE writer = "write" /\ file
    <3>1. Active \in DOMAIN files /\ ~torn
      BY <2>1, <1>1 DEF Shape, Phases
    <3> QED
      BY <2>1, <3>1 DEF Crash, Cut, Lines
  <2>2. CASE ~(writer = "write" /\ file)
    BY <2>2 DEF Crash
  <2> QED
    BY <2>1, <2>2
<1>5. FileOrder' /\ DOMAIN files' = DOMAIN files
      /\ \A f \in DOMAIN files \cap DOMAIN index : index[f].whole => Digest(index[f].rows, files'[f])
  <2>1. CASE files' = files
    BY <2>1, <1>1, <1>2 DEF FileOrder, SidecarsFit
  <2>2. ASSUME Active \in DOMAIN files, NEW x \in {Garbage, Record},
               files' = [files EXCEPT ![Active] = Append(files[Active], x)]
        PROVE  FileOrder' /\ DOMAIN files' = DOMAIN files
               /\ \A f \in DOMAIN files \cap DOMAIN index : index[f].whole => Digest(index[f].rows, files'[f])
    <3>1. x \in Line /\ (x.seq = 0 \/ x.seq = sequence + 1)
      BY LinesType, RecordType DEF Garbage, Record
    <3>2. /\ DOMAIN files' = DOMAIN files /\ files'[Active] = Append(files[Active], x)
          /\ \A f \in DOMAIN files : f # Active => files'[f] = files[f]
      BY <2>2
    <3> QED
      BY <1>1, <1>2, <2>2, <3>1, <3>2, Appended
  <2> QED
    BY <1>4, <2>1, <2>2
<1>6. SidecarsFit'
  BY <1>3, <1>5 DEF SidecarsFit
<1> QED
  BY <1>1, <1>5, <1>6 DEF Fit, Up

LEMMA FitRead == ASSUME TypeOK, Shape, Fit, Read PROVE Fit'
<1> SUFFICES ASSUME "stale" \notin damage' PROVE Fit'
  BY DEF Fit
<1>1. /\ UNCHANGED <<writer, active, archives, offsets, sequence, damage>>
      /\ (Up' <=> Up) /\ (Moved' <=> Moved) /\ (Ghost' <=> Ghost)
      /\ files' = Without(files, retired) /\ index' = Without(index, retired)
  BY DEF Read, state, history, Up, Moved, Ghost
<1>2. /\ DOMAIN files' = DOMAIN files \ retired /\ \A f \in DOMAIN files' : files'[f] = files[f]
      /\ DOMAIN index' = DOMAIN index \ retired /\ \A f \in DOMAIN index' : index'[f] = index[f]
      /\ Active \notin retired
  BY <1>1 DEF Without, TypeOK, InMemory, Active
<1>3. FileOrder' /\ SidecarsFit'
  BY <1>1, <1>2 DEF Fit, FileOrder, SidecarsFit
<1>4. ASSUME Up PROVE SidecarOfActive' /\ Numbered' /\ \A id \in DOMAIN offsets' : Fits(id)'
  <2>1. SidecarOfActive /\ Numbered /\ (\A id \in DOMAIN offsets : Fits(id)) /\ Segmented
    BY <1>1, <1>4 DEF Fit, Shape
  <2>2. active \notin retired /\ \A id \in DOMAIN offsets : id \notin retired
    BY <1>4, <2>1, LinesFacts DEF Segmented
  <2>3. SidecarOfActive' /\ Numbered'
    BY <1>1, <1>2, <2>1, <2>2 DEF SidecarOfActive, Numbered, Segmented
  <2>4. \A id \in DOMAIN offsets : LinesOf(id)' = LinesOf(id)
    BY <1>1, <1>2, <2>2 DEF LinesOf, FileOf
  <2> QED
    BY <1>1, <2>1, <2>3, <2>4 DEF Fits
<1> QED
  BY <1>1, <1>3, <1>4 DEF Fit

LEMMA FitOpen == ASSUME JournalAssumption, TypeOK, Shape, Fit, Open PROVE Fit'
<1> SUFFICES ASSUME "stale" \notin damage' PROVE Fit'
  BY DEF Fit
<1>1. PICK sealed, rows, id, lines, mine, order, kept, gone :
        Opened(sealed, rows, id, lines, mine, order, kept, gone)
  BY Opening
<1>2. /\ UNCHANGED damage /\ (Ghost' <=> Ghost) /\ writer' = "idle"
      /\ kept \subseteq DOMAIN files \ {Active} /\ id \notin kept /\ active' = id
      /\ DOMAIN files' = kept \cup {Active} /\ files'[Active] = lines
      /\ \A f \in kept : files'[f] = files[f]
      /\ lines = (IF Active \in DOMAIN files THEN files[Active] ELSE <<>>)
      /\ mine = (IF Active \in DOMAIN files THEN Loaded(Active, 0) ELSE {})
      /\ \A f \in kept : rows[f] = Loaded(f, f) /\ rows[f] \in RowSets
      /\ mine \in RowSets
      /\ DOMAIN index' = kept \cup {Active}
      /\ index'[Active] = [id |-> id, whole |-> TRUE, rows |-> mine]
      /\ \A f \in kept : index'[f] = [id |-> f, whole |-> TRUE, rows |-> rows[f]]
      /\ DOMAIN offsets' = kept \cup {id}
      /\ offsets'[id] = mine /\ \A f \in kept : offsets'[f] = rows[f]
      /\ id \in 1 .. drawn + 1
  BY <1>1 DEF Opened, Ghost
<1>3. /\ sequence' \in Nat /\ sequence' >= LastSequence(mine)
      /\ \A f \in kept : sequence' >= LastSequence(rows[f])
  BY <1>1 DEF Opened
<1>4. FileOrder /\ SidecarsFit
  BY <1>2 DEF Fit
<1>5. id \notin DOMAIN files' /\ Active # id
  BY <1>2 DEF TypeOK, Counts, Active
<1>6. FileOrder'
  <2>1. Sorted(<<>>) /\ Strict(<<>>) /\ DOMAIN <<>> = {}
    BY DEF Sorted, Strict
  <2> QED
    BY <1>2, <1>4, <2>1 DEF FileOrder
<1>7. Digest(mine, lines) /\ \A i \in DOMAIN lines : Held(mine, lines[i])
  <2>1. CASE Active \in DOMAIN files
    BY <2>1, <1>2, <1>4, LoadedFits
  <2>2. CASE Active \notin DOMAIN files
    BY <2>2, <1>2, EmptyDigest
  <2> QED
    BY <2>1, <2>2
<1>8. \A f \in kept : Digest(rows[f], files[f]) /\ \A i \in DOMAIN files[f] : Held(rows[f], files[f][i])
  BY <1>2, <1>4, LoadedFits
<1>9. SidecarsFit'
  <2>1. index'[Active].rows = mine /\ \A f \in kept : index'[f].rows = rows[f]
    BY <1>2
  <2>2. \A f \in DOMAIN files' : f = Active \/ f \in kept
    BY <1>2
  <2>3. Digest(index'[Active].rows, files'[Active]) /\ \A f \in kept : Digest(index'[f].rows, files'[f])
    BY <1>2, <1>7, <1>8, <2>1
  <2> QED
    BY <2>2, <2>3 DEF SidecarsFit
<1>10. SidecarOfActive'
  BY <1>2 DEF SidecarOfActive, Moved
<1>11. \A f \in DOMAIN files' : \A i \in DOMAIN files'[f] : files'[f][i].seq <= sequence'
  <2>1. ASSUME NEW i \in DOMAIN lines PROVE lines[i].seq <= sequence'
    <3>1. Active \in DOMAIN files /\ lines[i].seq \in Nat
      BY <1>2, LinesSeq
    <3>2. lines \in Seq(Line)
      BY <3>1, <1>2, LinesSeq
    <3>3. lines[i].seq <= LastSequence(mine)
      BY <3>2, <1>7, LastHeld
    <3>4. LastSequence(mine) \in Nat
      BY <1>2, LastFacts DEF RowSets
    <3> QED
      BY <3>1, <3>3, <3>4, <1>3
  <2>2. ASSUME NEW f \in kept, NEW i \in DOMAIN files[f] PROVE files[f][i].seq <= sequence'
    <3>1. files[f] \in Seq(Line) /\ files[f][i].seq \in Nat
      BY <1>2, LinesSeq
    <3>2. files[f][i].seq <= LastSequence(rows[f])
      BY <3>1, <1>8, LastHeld
    <3>3. LastSequence(rows[f]) \in Nat
      BY <1>2, LastFacts DEF RowSets
    <3> QED
      BY <3>1, <3>2, <3>3, <1>3
  <2> QED
    BY <1>2, <2>1, <2>2
<1>12. Numbered'
  <2>1. \A f \in DOMAIN files' : \A i \in DOMAIN files'[f] : files'[f][i].seq \in Nat
    <3>1. files' \in [DOMAIN files' -> Seq(Line)]
      BY TypeOpen DEF TypeOK, OnDisk
    <3>2. \A f \in DOMAIN files' : \A i \in DOMAIN files'[f] : files'[f][i] \in Line
      BY <3>1
    <3> QED
      BY <3>2 DEF Line
  <2> QED
    BY <1>3, <1>11, <2>1 DEF Numbered
<1>13. Fits(id)'
  <2>1. LinesOf(id)' = lines
    BY <1>2, <1>5 DEF LinesOf, FileOf
  <2>2. \A r \in mine : r.seq <= sequence'
    <3>1. \A r \in mine : r.seq \in Nat /\ r.seq <= LastSequence(mine)
      BY <1>2, LastFacts DEF RowSets, Row
    <3>2. LastSequence(mine) \in Nat
      BY <1>2, LastFacts DEF RowSets
    <3> QED
      BY <3>1, <3>2, <1>3
  <2> QED
    BY <1>2, <1>7, <2>1, <2>2 DEF Fits
<1>14. ASSUME NEW f \in kept PROVE Fits(f)'
  <2>1. LinesOf(f)' = files[f]
    BY <1>2, <1>5 DEF LinesOf, FileOf
  <2>2. \A r \in rows[f] : r.seq <= sequence'
    <3>1. \A r \in rows[f] : r.seq \in Nat /\ r.seq <= LastSequence(rows[f])
      BY <1>2, LastFacts DEF RowSets, Row
    <3>2. LastSequence(rows[f]) \in Nat
      BY <1>2, LastFacts DEF RowSets
    <3> QED
      BY <3>1, <3>2, <1>3
  <2> QED
    BY <1>2, <1>8, <2>1, <2>2 DEF Fits
<1> QED
  BY <1>2, <1>6, <1>9, <1>10, <1>12, <1>13, <1>14 DEF Fit

LEMMA TypeStep == ASSUME JournalAssumption, TypeOK, Shape, Next PROVE TypeOK'
<1>1. RenameData => Active \in DOMAIN files
  BY DEF RenameData, Shape, Phases, Up, Moved
<1> QED
  BY <1>1, TypeOpen, TypeTake, TypeFlushIndex, TypeRenameData, TypeRenameIndex, TypeSwitch, TypePersistIndex,
     TypeOpenFile, TypeAppendLine, TypeCutAppend, TypeCrash, TypePoll, TypePin, TypeRead
  DEF Next

LEMMA ShapeStep == ASSUME JournalAssumption, TypeOK, Shape, Next PROVE Shape'
BY ShapeOpen, ShapeTake, ShapeFlushIndex, ShapeRenameData, ShapeRenameIndex, ShapeSwitch, ShapePersistIndex,
   ShapeOpenFile, ShapeAppendLine, ShapeCutAppend, ShapeCrash, ShapePoll, ShapePin, ShapeRead
DEF Next

LEMMA FitStep == ASSUME JournalAssumption, TypeOK, Shape, Fit, Next PROVE Fit'
BY FitOpen, FitTake, FitFlushIndex, FitRenameData, FitRenameIndex, FitSwitch, FitPersistIndex,
   FitOpenFile, FitAppendLine, FitCutAppend, FitCrash, FitPoll, FitPin, FitRead
DEF Next

-----------------------------------------------------------------------------
(* The invariant of the files.                                             *)

FilesIInv == TypeOK /\ Shape /\ Fit

LEMMA InitFiles == ASSUME Init PROVE FilesIInv
<1>1. ~Up /\ ~Moved /\ DOMAIN files = {} /\ DOMAIN index = {} /\ DOMAIN offsets = {} /\ DOMAIN acked = {}
  BY DEF Init, Up, Moved
<1>2. TypeOK
  <2>1. Counts
    BY <1>1 DEF Init, Counts
  <2>2. OnDisk
    BY DEF Init, OnDisk
  <2>3. InMemory
    <3>1. <<>> \in Seq(1 .. drawn) /\ <<>> \in Seq(Line)
      OBVIOUS
    <3>2. offsets \in [DOMAIN offsets -> RowSets]
      BY DEF Init
    <3> QED
      BY <1>1, <3>1, <3>2 DEF Init, InMemory
  <2>4. Clients
    <3>1. poller \in [after : Nat, from : Nat, got : SUBSET Nat]
      BY DEF Init
    <3>2. acked \in [DOMAIN acked -> Nat] /\ DOMAIN acked \subseteq Nat \ {0}
      BY <1>1 DEF Init
    <3> QED
      BY <3>1, <3>2 DEF Init, Clients, NewWalk
  <2> QED
    BY <2>1, <2>2, <2>3, <2>4 DEF TypeOK
<1>3. Shape
  BY <1>1 DEF Init, Shape
<1>4. Fit
  BY <1>1 DEF Fit, FileOrder, SidecarsFit
<1> QED
  BY <1>2, <1>3, <1>4 DEF FilesIInv

\* What a step that changes nothing leaves alone.
Still ==
  UNCHANGED <<files, index, torn, writer, active, archives, offsets, file, indexing, bytes, retired,
              sequence, live, poller, reader, taken, drawn, faults, crashes, acked, pruned, damage>>

LEMMA Stuttering == ASSUME UNCHANGED vars PROVE Still /\ (Up' <=> Up) /\ (Moved' <=> Moved)
<1>1. UNCHANGED <<disk, writer, store, state, clients, counts, history>>
  BY DEF vars
<1>2. Still
  BY <1>1 DEF Still, disk, store, state, clients, counts, history
<1> QED
  BY <1>2 DEF Still, Up, Moved

LEMMA StepFiles == ASSUME JournalAssumption, FilesIInv, [Next]_vars PROVE FilesIInv'
<1>1. TypeOK /\ Shape /\ Fit
  BY DEF FilesIInv
<1>2. CASE Next
  BY <1>1, <1>2, TypeStep, ShapeStep, FitStep DEF FilesIInv
<1>3. CASE UNCHANGED vars
  <2>1. Still /\ (Up' <=> Up) /\ (Moved' <=> Moved)
    BY <1>3, Stuttering
  <2>2. TypeOK'
    BY <1>1, <2>1 DEF Still, TypeOK, Counts, OnDisk, InMemory, Clients, Sidecar, Place, Ids
  <2>3. Shape'
    BY <1>1, <2>1 DEF Still, Shape, Segmented, Phases
  <2>4. Fit'
    BY <1>1, <2>1, FitKeeps DEF Still
  <2> QED
    BY <2>2, <2>3, <2>4 DEF FilesIInv
<1> QED
  BY <1>2, <1>3

\* Files, indexes and memory fit one another, whatever failed or crashed
\* (history.rs open, load, append, rotate): the invariant the proofs about
\* the history's readers rest on.
THEOREM FilesInvariance == Spec => []FilesIInv
<1>1. Init => FilesIInv
  BY InitFiles
<1>2. FilesIInv /\ [Next]_vars => FilesIInv'
  BY JournalAssumption, StepFiles
<1> QED
  BY <1>1, <1>2, PTL DEF Spec

\* The journal keeps its types: the rows of a segment are in memory exactly
\* while the store lists it, and no segment is named that was not drawn
\* (history.rs HistoryStore, Segment; event_journal.rs State).
THEOREM TypeCorrect == Spec => []TypeOK
<1>1. FilesIInv => TypeOK
  BY DEF FilesIInv
<1> QED
  BY <1>1, FilesInvariance, PTL

IndexFits == "stale" \notin damage => SidecarsFit /\ (Up => \A id \in DOMAIN offsets : Fits(id))

\* An index names records of its own file only, and all of them up to its
\* last, through rotations, failed writes and crashes, also between a
\* file's rename and that of its index (history.rs Segment::load, append,
\* rotate, flush_index); but not after a sidecar was left behind for good.
THEOREM IndexesFit == Spec => []IndexFits
<1>1. FilesIInv => IndexFits
  BY DEF FilesIInv, Fit, IndexFits
<1> QED
  BY <1>1, FilesInvariance, PTL
=============================================================================
