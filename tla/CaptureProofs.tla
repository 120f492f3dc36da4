---------------------------- MODULE CaptureProofs ----------------------------
(***************************************************************************)
(* Proofs about Capture for every number of services and sources, every    *)
(* batch size and every bound.                                             *)
(*                                                                         *)
(* A batch is read before it is committed, and the file may be cut or      *)
(* replaced in between.  That only lines become events rests on where a    *)
(* pass goes on: Placed says that every offset some pass may start from is *)
(* a boundary of the file, or beyond its end, or was left behind by a file *)
(* that changed under it.  That no record is skipped needs more: SInv says *)
(* of every cursor that is stored, loaded or about to be stored that the   *)
(* lines it has passed are captured, or will be by the same commit.        *)
(***************************************************************************)
EXTENDS Capture, SequenceTheorems, TLAPS

(* Files have identities that differ from that of no file.                  *)
IdsPositive ==
  /\ \A s \in Sources : file[s].id > 0
  /\ \A p \in Services : pass[p].step \in {"read", "commit"} => pass[p].id > 0

Typed == TypeOK /\ IdsPositive

(* The lines of a file were complete once.                                  *)
LinesWritten == \A s \in Sources : Lines(s) \subseteq written[s]

Inv == Typed /\ LinesWritten

----------------------------------------------------------------------------
(* Texts.                                                                   *)

LEMMA PieceType ==
  ASSUME NEW start, NEW ends, NEW x \in Pieces(start, ends)
  PROVE  x[1] \in {start} \cup ends /\ x[2] \in ends
BY DEF Pieces

LEMMA EndsType ==
  ASSUME NEW t \in Seq(Byte)
  PROVE  /\ Len(t) \in Nat
         /\ \A e \in Ends(t) : e \in Nat /\ 0 < e /\ e <= Len(t) /\ t[e].of \in Contents
         /\ \A n : Boundary(t, n) => n \in Nat /\ n <= Len(t)
<1>1. Len(t) \in Nat /\ DOMAIN t = 1..Len(t) /\ \A i \in 1..Len(t) : t[i] \in Byte
  BY LenProperties, ElementOfSeq
<1> QED
  BY <1>1 DEF Ends, Boundary, Byte

LEMMA RecordsType ==
  ASSUME NEW t \in Seq(Byte), NEW start \in Nat, NEW ends \in SUBSET Ends(t)
  PROVE  RecordsRead(t, start, ends) \in SUBSET Record
<1>1. \A x \in Pieces(start, ends) : x[1] \in Nat /\ t[x[2]].of \in Contents
  BY EndsType DEF Pieces
<1> QED
  BY <1>1 DEF RecordsRead, PieceAt, Record

LEMMA LinesType ==
  ASSUME NEW t \in Seq(Byte), NEW n
  PROVE  LinesUpTo(t, n) \in SUBSET Record
BY RecordsType DEF LinesUpTo

(* Two texts that begin with the same n bytes have the same lines in them.  *)
LEMMA LinesAgree ==
  ASSUME NEW t \in Seq(Byte), NEW u \in Seq(Byte), NEW n \in Nat, n <= Len(t), n <= Len(u),
         \A i \in 1..n : t[i] = u[i]
  PROVE  /\ LinesUpTo(t, n) = LinesUpTo(u, n)
         /\ \A i \in 0..n : Boundary(t, i) <=> Boundary(u, i)
<1>1. DOMAIN t = 1..Len(t) /\ DOMAIN u = 1..Len(u) /\ Len(t) \in Nat /\ Len(u) \in Nat
  BY LenProperties
<1>2. \A i \in 1..n : i \in Ends(t) <=> i \in Ends(u)
  BY <1>1 DEF Ends
<1>3. \A i \in 0..n : Boundary(t, i) <=> Boundary(u, i)
  BY <1>2 DEF Boundary
<1> DEFINE et == {e \in Ends(t) : e <= n}
           eu == {e \in Ends(u) : e <= n}
<1>4. et = eu /\ et \subseteq 1..n
  BY <1>2, EndsType
<1> HIDE DEF et, eu
<1>5. \A x \in Pieces(0, et) : PieceAt(t, x[1], x[2]) = PieceAt(u, x[1], x[2])
  <2> TAKE x \in Pieces(0, et)
  <2>1. x[1] \in {0} \cup et /\ x[2] \in et
    BY PieceType
  <2> DEFINE a == x[1]
             b == x[2]
  <2> HIDE DEF a, b
  <2>2. a \in 0..n /\ b \in 1..n
    <3>1. a \in {0} \cup et /\ b \in et
      BY <2>1 DEF a, b
    <3> QED
      BY <1>4, <3>1
  <2> QED
    BY <1>3, <2>2 DEF PieceAt, a, b
<1>6. RecordsRead(t, 0, et) = RecordsRead(u, 0, eu)
  BY <1>4, <1>5 DEF RecordsRead
<1> QED
  BY <1>3, <1>6 DEF LinesUpTo, et, eu

LEMMA LinesGrow ==
  ASSUME NEW t \in Seq(Byte), NEW n \in Nat, NEW m \in Nat, n <= m
  PROVE  LinesUpTo(t, n) \subseteq LinesUpTo(t, m)
<1> DEFINE en == {e \in Ends(t) : e <= n}
           em == {e \in Ends(t) : e <= m}
<1>1. \A e \in Ends(t) : e \in Nat
  BY EndsType
<1>2. Pieces(0, en) \subseteq Pieces(0, em)
  BY <1>1 DEF Pieces
<1> HIDE DEF en, em
<1>3. RecordsRead(t, 0, en) \subseteq RecordsRead(t, 0, em)
  BY <1>2 DEF RecordsRead
<1> QED
  BY <1>3 DEF LinesUpTo, en, em

LEMMA LinesToNone ==
  ASSUME NEW t \in Seq(Byte)
  PROVE  LinesUpTo(t, 0) = {}
BY EndsType DEF LinesUpTo, RecordsRead, Pieces

LEMMA AppendText ==
  ASSUME NEW t \in Seq(Byte), NEW x \in Byte
  PROVE  LET u == Append(t, x) IN
         /\ u \in Seq(Byte) /\ Len(u) = Len(t) + 1
         /\ \A n \in Nat : n <= Len(t) => LinesUpTo(u, n) = LinesUpTo(t, n)
         /\ \A n \in Nat : Boundary(t, n) => Boundary(u, n)
<1> DEFINE u == Append(t, x)
<1>1. /\ u \in Seq(Byte) /\ Len(u) = Len(t) + 1 /\ Len(t) \in Nat
      /\ \A i \in 1..Len(t) : t[i] = u[i]
  BY AppendProperties, LenProperties
<1> HIDE DEF u
<1>2. ASSUME NEW n \in Nat, n <= Len(t)
      PROVE  LinesUpTo(u, n) = LinesUpTo(t, n) /\ (Boundary(t, n) => Boundary(u, n))
  <2>1. n <= Len(u) /\ (\A i \in 1..n : t[i] = u[i]) /\ n \in 0..n
    BY <1>1, <1>2
  <2> QED
    BY <1>1, <1>2, <2>1, LinesAgree
<1>3. \A n \in Nat : Boundary(t, n) => n <= Len(t)
  BY EndsType
<1> QED
  BY <1>1, <1>2, <1>3 DEF u

LEMMA CutText ==
  ASSUME NEW t \in Seq(Byte), NEW n \in Nat, n < Len(t)
  PROVE  LET u == SubSeq(t, 1, n) IN
         /\ u \in Seq(Byte) /\ Len(u) = n
         /\ \A m \in Nat : m <= n => LinesUpTo(u, m) = LinesUpTo(t, m)
         /\ \A m \in Nat : m <= n => (Boundary(u, m) <=> Boundary(t, m))
<1> DEFINE u == SubSeq(t, 1, n)
<1>1. \A i \in 1..n : t[i] \in Byte
  BY ElementOfSeq, LenProperties
<1>2. /\ u \in Seq(Byte)
      /\ Len(u) = IF 1 <= n THEN n - 1 + 1 ELSE 0
      /\ \A i \in 1..(n - 1 + 1) : u[i] = t[1 + i - 1]
  BY <1>1, SubSeqProperties
<1> HIDE DEF u
<1>3. Len(u) = n /\ \A i \in 1..n : u[i] = t[i]
  <2>1. \A i \in 1..n : 1 + i - 1 = i /\ i \in 1..(n - 1 + 1)
    OBVIOUS
  <2> QED
    BY <1>2, <2>1
<1>4. ASSUME NEW m \in Nat, m <= n
      PROVE  LinesUpTo(u, m) = LinesUpTo(t, m) /\ (Boundary(u, m) <=> Boundary(t, m))
  <2>1. m <= Len(t) /\ m <= Len(u) /\ (\A i \in 1..m : u[i] = t[i]) /\ m \in 0..m
    BY <1>3, <1>4, EndsType
  <2> QED
    BY <1>2, <1>4, <2>1, LinesAgree
<1> QED
  BY <1>2, <1>3, <1>4 DEF u

----------------------------------------------------------------------------
(* Passes.                                                                  *)

LEMMA AtType ==
  ASSUME NEW step \in Steps \cup {"idle"}, NEW s \in Nat
  PROVE  /\ At(step, s) \in Pass
         /\ At(step, s).step = step
         /\ At(step, s).source = s
BY DEF At, Pass, Start, Cursor, Record

LEMMA IdleType == Idle \in Pass /\ Idle.step = "idle"
BY AtType DEF Idle

LEMMA PassType ==
  ASSUME Typed, NEW p \in Services
  PROVE  /\ pass[p] \in Pass
         /\ pass[p].step # "idle" => pass[p].source \in Sources
BY DEF Typed, TypeOK

LEMMA SourceFileType ==
  ASSUME Typed, NEW s \in Sources
  PROVE  /\ file[s] \in File
         /\ file[s].text \in Seq(Byte)
         /\ s \in Nat \ {0}
BY SourcesAssumption DEF Typed, TypeOK, File

(* A pass that moves on leaves the types as they were ...                   *)
LEMMA BecomesTyped ==
  ASSUME Typed, NEW p \in Services, NEW r \in Pass, Becomes(p, r),
         r.step # "idle" => r.source \in Sources,
         r.step \in {"read", "commit"} => r.id > 0
  PROVE  /\ pass' \in [Services -> Pass]
         /\ \A q \in Services : pass'[q].step # "idle" => pass'[q].source \in Sources
         /\ \A q \in Services : pass'[q].step \in {"read", "commit"} => pass'[q].id > 0
BY DEF Typed, TypeOK, IdsPositive, Becomes

(* ... and so does one that goes to the next source, with nothing to commit. *)
LEMMA NextSourceBecomes ==
  ASSUME Typed, NEW p \in Services, pass[p].step # "idle", NextSource(p)
  PROVE  \E r \in Pass : /\ Becomes(p, r)
                         /\ r.step \in {"idle", "load"}
                         /\ r.step # "idle" => r.source \in Sources
<1> DEFINE s == pass[p].source
<1>0. s \in Sources
  BY PassType
<1> HIDE DEF s
<1>1. s \in Nat /\ s + 1 \in Nat
  BY <1>0, SourcesAssumption
<1>2. CASE s + 1 \in Sources
  <2>1. Becomes(p, At("load", s + 1))
    BY <1>2 DEF NextSource, s
  <2>2. /\ At("load", s + 1) \in Pass
        /\ At("load", s + 1).step = "load"
        /\ At("load", s + 1).source = s + 1
    BY <1>1, AtType DEF Steps
  <2> QED
    BY <2>1, <2>2, <1>2
<1>3. CASE s + 1 \notin Sources
  <2>1. Becomes(p, Idle)
    BY <1>3 DEF NextSource, s
  <2> QED
    BY <2>1, IdleType
<1> QED
  BY <1>2, <1>3
----------------------------------------------------------------------------
(* The types, step by step.                                                 *)

Rest == <<file, events, quarantine, gaps, cursor, drift, bounds, written, cut, shadowed, shifted,
          lost>>

LEMMA SkipTyped ==
  ASSUME Typed, NEW p \in Services, pass[p].step # "idle", NextSource(p),
         UNCHANGED Rest, UNCHANGED overlap
  PROVE  Typed'
BY NextSourceBecomes, BecomesTyped DEF Typed, TypeOK, IdsPositive, Rest

LEMMA AdvanceTyped ==
  ASSUME Typed, NEW p \in Services, NEW r \in Pass, Becomes(p, r),
         UNCHANGED Rest, overlap' \in BOOLEAN,
         r.step # "idle" => r.source \in Sources,
         r.step \in {"read", "commit"} => r.id > 0
  PROVE  Typed'
<1>1. /\ pass' \in [Services -> Pass]
      /\ \A q \in Services : pass'[q].step # "idle" => pass'[q].source \in Sources
      /\ \A q \in Services : pass'[q].step \in {"read", "commit"} => pass'[q].id > 0
  BY BecomesTyped
<1> QED
  BY <1>1 DEF Typed, TypeOK, IdsPositive, Rest
----------------------------------------------------------------------------
(* What a pass reads and what it commits.                                   *)

LEMMA StartOffsetType ==
  ASSUME NEW r \in Pass
  PROVE  StartOffset(r) \in Nat
BY DEF StartOffset, Pass, Cursor

LEMMA ReadableType ==
  ASSUME Typed, NEW s \in Sources, NEW start \in Nat
  PROVE  /\ Readable(s, start) \in SUBSET Ends(file[s].text)
         /\ \A e \in {start} \cup Readable(s, start) : e \in Nat /\ start <= e
         /\ RecordsRead(file[s].text, start, Readable(s, start)) \in SUBSET Record
<1>1. file[s].text \in Seq(Byte)
  BY SourceFileType
<1>2. Readable(s, start) \in SUBSET Ends(file[s].text)
  BY DEF Readable
<1>3. \A e \in {start} \cup Readable(s, start) : e \in Nat /\ start <= e
  BY <1>1, EndsType DEF Readable
<1> QED
  BY <1>1, <1>2, <1>3, RecordsType

(* What a read finds is whole if it starts at a boundary, and otherwise but *)
(* for the first record.                                                    *)
LEMMA ReadPieces ==
  ASSUME Typed, NEW s \in Sources, NEW start \in Nat
  PROVE  LET batch == RecordsRead(file[s].text, start, Readable(s, start)) IN
         /\ batch \subseteq Lines(s) \cup {[offset |-> start, content |-> Torn]}
         /\ Boundary(file[s].text, start) => batch \subseteq Lines(s)
<1> DEFINE t == file[s].text
           ends == Readable(s, start)
           all == {e \in Ends(t) : e <= Len(t)}
<1>1. /\ t \in Seq(Byte)
      /\ \A e \in Ends(t) : e \in Nat /\ 0 < e /\ e <= Len(t)
  BY SourceFileType, EndsType
<1>2. /\ ends \subseteq all
      /\ \A b \in ends, e \in all : start < e /\ e < b => e \in ends
      /\ \A b \in ends : start < b
  BY <1>1, RowsAssumption DEF Readable
<1> HIDE DEF ends
<1>3. Lines(s) = RecordsRead(t, 0, all)
  BY DEF Lines, LinesUpTo
<1>4. ASSUME NEW x \in Pieces(start, ends), Boundary(t, x[1])
      PROVE  PieceAt(t, x[1], x[2]) \in Lines(s)
  <2>1. /\ x[1] \in {0} \cup all /\ x[2] \in all /\ x = <<x[1], x[2]>>
        /\ x[1] < x[2] /\ start <= x[1] /\ x[2] \in ends
    BY <1>1, <1>2, <1>4 DEF Pieces, Boundary
  <2>2. \A e \in all : ~(x[1] < e /\ e < x[2])
    BY <1>1, <1>2, <2>1 DEF Pieces
  <2>3. x \in Pieces(0, all)
    BY <2>1, <2>2 DEF Pieces
  <2> QED
    BY <1>3, <2>3 DEF RecordsRead
<1>5. ASSUME NEW x \in Pieces(start, ends), ~Boundary(t, x[1])
      PROVE  x[1] = start /\ PieceAt(t, x[1], x[2]) = [offset |-> start, content |-> Torn]
  BY <1>2, <1>5 DEF Pieces, PieceAt, Boundary
<1> QED
  BY <1>4, <1>5 DEF RecordsRead, t, ends

(* What is read goes on where what is covered ends.                         *)
LEMMA ReadCovers ==
  ASSUME Typed, NEW s \in Sources, NEW start \in Nat, Boundary(file[s].text, start),
         NEW end \in {start} \cup Readable(s, start),
         \A e \in Readable(s, start) : e <= end
  PROVE  /\ Boundary(file[s].text, end)
         /\ LinesUpTo(file[s].text, end)
              \subseteq LinesUpTo(file[s].text, start)
                \cup RecordsRead(file[s].text, start, Readable(s, start))
<1> DEFINE t == file[s].text
           ends == Readable(s, start)
           es == {e \in Ends(t) : e <= start}
           ee == {e \in Ends(t) : e <= end}
<1>1. /\ \A e \in Ends(t) : e \in Nat /\ 0 < e /\ e <= Len(t)
      /\ end \in Nat /\ start <= end /\ ends \subseteq Ends(t)
  BY SourceFileType, EndsType, ReadableType
<1>2. \A e \in Ends(t) : start < e /\ e <= end => e \in ends
  BY <1>1, RowsAssumption DEF Readable
<1>3. \A e \in ends : start < e
  BY DEF Readable
<1>4. Boundary(t, end)
  BY <1>1 DEF Boundary
<1> HIDE DEF ends
<1>5. ASSUME NEW x \in Pieces(0, ee), x[2] <= start
      PROVE  PieceAt(t, x[1], x[2]) \in LinesUpTo(t, start)
  <2>1. x \in Pieces(0, es)
    BY <1>1, <1>5 DEF Pieces
  <2> QED
    BY <2>1 DEF LinesUpTo, RecordsRead
<1>6. ASSUME NEW x \in Pieces(0, ee), ~(x[2] <= start)
      PROVE  PieceAt(t, x[1], x[2]) \in RecordsRead(t, start, ends)
  <2>1. /\ x = <<x[1], x[2]>> /\ x[1] \in {0} \cup ee /\ x[2] \in ee /\ x[1] < x[2]
        /\ \A e \in ee : ~(x[1] < e /\ e < x[2])
    BY DEF Pieces
  <2>2. start <= x[1]
    BY <1>1, <1>6, <2>1 DEF Boundary
  <2>3. x[1] \in {start} \cup ends /\ x[2] \in ends
    BY <1>1, <1>2, <1>6, <2>1, <2>2
  <2>4. \A e \in ends : ~(x[1] < e /\ e < x[2])
    BY <1>1, <2>1
  <2>5. x \in Pieces(start, ends)
    BY <2>1, <2>3, <2>4 DEF Pieces
  <2> QED
    BY <2>5 DEF RecordsRead
<1>7. LinesUpTo(t, end) \subseteq LinesUpTo(t, start) \cup RecordsRead(t, start, ends)
  <2>1. LinesUpTo(t, end) = RecordsRead(t, 0, ee)
    BY DEF LinesUpTo
  <2> HIDE DEF ee
  <2> QED
    BY <1>5, <1>6, <2>1 DEF RecordsRead
<1> QED
  BY <1>4, <1>7 DEF t, ends

LEMMA NextCursorType ==
  ASSUME NEW r \in Pass
  PROVE  NextCursor(r) \in Cursor /\ r.end \in Nat /\ r.batch \in SUBSET Record
BY DEF NextCursor, Pass, Cursor

LEMMA ReadLeaves ==
  ASSUME NEW p \in Services, Read(p)
  PROVE  pass[p].step = "read" /\ UNCHANGED <<file, ledger, bounds, history>>
BY Zenon DEF Read, Doing

(* A read ends the visit or leaves a batch to commit.                       *)
LEMMA ReadBecomes ==
  ASSUME Typed, NEW p \in Services, Read(p)
  PROVE  LET r == pass[p]
             start == StartOffset(r)
             ends == Readable(r.source, start)
         IN
         /\ r \in Pass /\ r.source \in Sources /\ r.step = "read" /\ r.id > 0 /\ start \in Nat
         /\ \/ NextSource(p)
            \/ \E end \in {start} \cup ends : \E n \in Pass :
                 /\ \A e \in ends : e <= end
                 /\ Becomes(p, n)
                 /\ n.step = "commit" /\ n.source = r.source /\ n.cursor = r.cursor
                 /\ n.id = r.id /\ n.size = r.size /\ n.end = end
                 /\ n.batch = RecordsRead(file[r.source].text, start, ends)
<1> DEFINE r == pass[p]
           start == StartOffset(r)
           ends == Readable(r.source, start)
           batch == RecordsRead(file[r.source].text, start, ends)
<1>1. r \in Pass /\ r.source \in Sources /\ r.step = "read" /\ r.id > 0 /\ start \in Nat
  BY PassType, StartOffsetType, ReadLeaves DEF Typed, IdsPositive
<1>2. batch \in SUBSET Record /\ \A end \in {start} \cup ends : end \in Nat
  BY <1>1, ReadableType
<1>3. CASE ends = {} /\ ~Rotated(r)
  <2>1. NextSource(p)
    BY <1>3, Zenon DEF Read
  <2> QED
    BY <1>1, <2>1
<1>4. CASE ~(ends = {} /\ ~Rotated(r))
  <2>1. PICK end \in {start} \cup ends :
          /\ \A e \in ends : e <= end
          /\ Becomes(p, [r EXCEPT !.step = "commit", !.end = end, !.batch = batch])
    BY <1>4, Zenon DEF Read
  <2> DEFINE n == [r EXCEPT !.step = "commit", !.end = end, !.batch = batch]
  <2> HIDE DEF batch
  <2>2. /\ n \in Pass /\ n.step = "commit" /\ n.source = r.source /\ n.cursor = r.cursor
        /\ n.id = r.id /\ n.size = r.size /\ n.end = end /\ n.batch = batch
    BY <1>1, <1>2 DEF Pass, Steps
  <2> HIDE DEF n
  <2>3. Becomes(p, n)
    BY <2>1 DEF n
  <2> QED
    BY <1>1, <2>1, <2>2, <2>3 DEF batch
<1> QED
  BY <1>3, <1>4

LEMMA CommitTyped ==
  ASSUME Typed, NEW p \in Services, Commit(p)
  PROVE  Typed'
<1> DEFINE r == pass[p]
           s == r.source
<1>1. r \in Pass /\ s \in Sources /\ r.id \in Nat /\ r.id > 0 /\ r.cursor \in Cursor
  BY PassType DEF Commit, Doing, Typed, IdsPositive, Pass
<1>2. r.batch \in SUBSET Record /\ NextCursor(r) \in Cursor
  BY <1>1, NextCursorType
<1>3. NextCursor(r) \in Cursor /\ NextCursor(r).id # 0
  BY <1>1, <1>2 DEF NextCursor
<1>4. GapsAfter(s, r) \subseteq [from : Nat, to : Nat]
  BY <1>1 DEF GapsAfter, Typed, TypeOK, Cursor
<1>5. Quarantined(s, r) \in [0..MaxBytes -> Nat]
  <2>1. quarantine[s] \in [0..MaxBytes -> Nat]
    BY <1>1 DEF Typed, TypeOK
  <2> DEFINE rows == quarantine[s]
             bad == MalformedOffsets(r)
  <2>2. Quarantined(s, r) = [o \in 0..MaxBytes |-> IF o \in bad THEN rows[o] + 1 ELSE rows[o]]
    BY DEF Quarantined
  <2>3. rows \in [0..MaxBytes -> Nat]
    BY <2>1
  <2> HIDE DEF rows, bad
  <2> QED
    BY <2>2, <2>3
<1>6. PICK n \in Pass : /\ Becomes(p, n)
                        /\ n.step \in {"idle", "load"}
                        /\ n.step # "idle" => n.source \in Sources
  BY NextSourceBecomes DEF Commit, Doing
<1>7. /\ pass' \in [Services -> Pass]
      /\ \A q \in Services : pass'[q].step # "idle" => pass'[q].source \in Sources
      /\ \A q \in Services : pass'[q].step \in {"read", "commit"} => pass'[q].id > 0
  BY <1>6, BecomesTyped
<1>8. /\ events' = [events EXCEPT ![s] = @ \cup r.batch]
      /\ quarantine' = [quarantine EXCEPT ![s] = Quarantined(s, r)]
      /\ gaps' = [gaps EXCEPT ![s] = GapsAfter(s, r)]
      /\ cursor' = [cursor EXCEPT ![s] = NextCursor(r)]
      /\ UNCHANGED <<file, drift, bounds, written, shifted, lost, overlap>>
  BY DEF Commit
<1>9. cut' \subseteq Sources /\ shadowed' \subseteq Sources
  BY DEF Commit, SettlesCut, Typed, TypeOK
<1> HIDE DEF r, s
<1>10. /\ events' \in [Sources -> SUBSET Record]
       /\ quarantine' \in [Sources -> [0..MaxBytes -> Nat]]
       /\ gaps' \in [Sources -> SUBSET [from : Nat, to : Nat]]
  BY <1>1, <1>2, <1>4, <1>5, <1>8 DEF Typed, TypeOK
<1>11. cursor' \in [Sources -> Cursor] /\ \A q \in Sources : cursor'[q].id = 0 => cursor'[q] = Start
  BY <1>1, <1>3, <1>8 DEF Typed, TypeOK
<1> QED
  BY <1>7, <1>8, <1>9, <1>10, <1>11 DEF Typed, TypeOK, IdsPositive

(* A pass.                                                                  *)
LEMMA PassTyped ==
  ASSUME Typed, NEW p \in Services,
         Proceeds(p) \/ SourceFails(p) \/ PassFails(p)
  PROVE  Typed'
<1>1. /\ pass[p] \in Pass /\ (pass[p].step # "idle" => pass[p].source \in Sources)
      /\ overlap \in BOOLEAN
  BY PassType DEF Typed, TypeOK
<1>2. CASE StartPass(p)
  <2>1. At("load", 1) \in Pass /\ At("load", 1).step = "load" /\ At("load", 1).source = 1
    BY AtType DEF Steps
  <2>2. overlap' \in BOOLEAN
    BY <1>2 DEF StartPass
  <2> QED
    BY <1>2, <2>1, <2>2, AdvanceTyped, SourcesAssumption DEF StartPass, Rest, ledger
<1>3. CASE LoadCursor(p)
  <2> DEFINE r == [pass[p] EXCEPT !.step = "fingerprint", !.cursor = cursor[pass[p].source]]
  <2>1. /\ r \in Pass /\ r.step = "fingerprint" /\ r.source \in Sources /\ Becomes(p, r)
    BY <1>1, <1>3 DEF LoadCursor, Doing, Pass, Steps, Typed, TypeOK
  <2> QED
    BY <1>1, <1>3, <2>1, AdvanceTyped DEF LoadCursor, Rest, ledger, history
<1>4. CASE CompareSchema(p)
  <2> DEFINE s == pass[p].source
             r == [pass[p] EXCEPT !.step = "inspect"]
  <2>1. s \in Sources /\ r \in Pass /\ r.step = "inspect" /\ r.source \in Sources
    BY <1>1, <1>4 DEF CompareSchema, Doing, Pass, Steps
  <2>2. CASE drift[s] # NoDrift /\ ~file[s].reviewed
    BY <1>4, <2>2, SkipTyped DEF CompareSchema, Doing, Rest, history
  <2>3. CASE ~(drift[s] # NoDrift /\ ~file[s].reviewed)
    <3>1. Becomes(p, r) /\ drift' = [drift EXCEPT ![s] = NoDrift]
      BY <1>4, <2>3 DEF CompareSchema
    <3>2. drift' \in [Sources -> Cursor \cup {NoDrift}]
      BY <3>1, <2>1 DEF Typed, TypeOK
    <3>3. /\ pass' \in [Services -> Pass]
          /\ \A q \in Services : pass'[q].step # "idle" => pass'[q].source \in Sources
          /\ \A q \in Services : pass'[q].step \in {"read", "commit"} => pass'[q].id > 0
      BY <2>1, <3>1, BecomesTyped
    <3> QED
      BY <1>4, <3>2, <3>3 DEF CompareSchema, Typed, TypeOK, IdsPositive, history
  <2> QED
    BY <2>2, <2>3
<1>5. CASE Inspect(p)
  <2> DEFINE r == [pass[p] EXCEPT !.step = "identify", !.size = Len(file[pass[p].source].text)]
  <2>1. pass[p].source \in Sources
    BY <1>1, <1>5 DEF Inspect, Doing
  <2>2. Len(file[pass[p].source].text) \in Nat
    BY <2>1, SourceFileType, LenProperties
  <2>3. r \in Pass /\ r.step = "identify" /\ r.source \in Sources /\ Becomes(p, r)
    BY <1>1, <1>5, <2>1, <2>2 DEF Inspect, Pass, Steps
  <2> QED
    BY <1>1, <1>5, <2>3, AdvanceTyped DEF Inspect, Rest, ledger, history
<1>6. CASE Recheck(p)
  <2> DEFINE s == pass[p].source
             r == [pass[p] EXCEPT !.step = "identify"]
  <2>1. /\ s \in Sources /\ pass[p].cursor \in Cursor /\ pass[p].step # "idle"
        /\ r \in Pass /\ r.step = "identify" /\ r.source \in Sources
    BY <1>1, <1>6 DEF Recheck, Doing, Pass, Steps
  <2>2. CASE file[s].reviewed
    BY <1>1, <1>6, <2>1, <2>2, AdvanceTyped DEF Recheck, Rest, history
  <2>3. CASE ~file[s].reviewed
    <3>1. NextSource(p) /\ drift' = [drift EXCEPT ![s] = pass[p].cursor]
      BY <1>6, <2>3 DEF Recheck
    <3>2. drift' \in [Sources -> Cursor \cup {NoDrift}]
      BY <3>1, <2>1 DEF Typed, TypeOK
    <3>3. /\ pass' \in [Services -> Pass]
          /\ \A q \in Services : pass'[q].step # "idle" => pass'[q].source \in Sources
          /\ \A q \in Services : pass'[q].step \in {"read", "commit"} => pass'[q].id > 0
      BY <2>1, <3>1, NextSourceBecomes, BecomesTyped
    <3> QED
      BY <1>6, <3>2, <3>3 DEF Recheck, Typed, TypeOK, IdsPositive, history
  <2> QED
    BY <2>2, <2>3
<1>7. CASE Identify(p)
  <2> DEFINE r == [pass[p] EXCEPT !.step = "read", !.id = file[pass[p].source].id]
  <2>1. pass[p].source \in Sources
    BY <1>1, <1>7 DEF Identify, Doing
  <2>2. file[pass[p].source].id \in Nat /\ file[pass[p].source].id > 0
    BY <2>1, SourceFileType DEF Typed, IdsPositive, File
  <2>3. r \in Pass /\ r.step = "read" /\ r.source \in Sources /\ r.id > 0 /\ Becomes(p, r)
    BY <1>1, <1>7, <2>1, <2>2 DEF Identify, Pass, Steps
  <2> QED
    BY <1>1, <1>7, <2>3, AdvanceTyped DEF Identify, Rest, ledger, history
<1>8. CASE Read(p)
  <2>1. UNCHANGED Rest /\ UNCHANGED overlap /\ pass[p].step # "idle"
    BY <1>8, ReadLeaves DEF Rest, ledger, history
  <2>2. CASE NextSource(p)
    BY <2>1, <2>2, SkipTyped
  <2>3. CASE ~NextSource(p)
    <3>1. PICK n \in Pass : /\ Becomes(p, n) /\ n.step = "commit"
                            /\ n.source = pass[p].source /\ n.id = pass[p].id
                            /\ n.source \in Sources /\ n.id > 0
      BY <1>8, <2>3, ReadBecomes
    <3> QED
      BY <1>1, <2>1, <3>1, AdvanceTyped
  <2> QED
    BY <2>2, <2>3
<1>9. CASE Commit(p)
  BY <1>9, CommitTyped
<1>10. CASE SourceFails(p)
  <2>1. bounds' \in [cuts : Nat, schemas : Nat, failures : Nat]
    BY <1>10 DEF SourceFails, Failure, Typed, TypeOK
  <2>2. /\ pass' \in [Services -> Pass]
        /\ \A q \in Services : pass'[q].step # "idle" => pass'[q].source \in Sources
        /\ \A q \in Services : pass'[q].step \in {"read", "commit"} => pass'[q].id > 0
    BY <1>10, NextSourceBecomes, BecomesTyped DEF SourceFails
  <2> QED
    BY <1>10, <2>1, <2>2 DEF SourceFails, Typed, TypeOK, IdsPositive, ledger, history
<1>11. CASE PassFails(p)
  <2>1. bounds' \in [cuts : Nat, schemas : Nat, failures : Nat]
    BY <1>11 DEF PassFails, Failure, Typed, TypeOK
  <2>2. /\ pass' \in [Services -> Pass]
        /\ \A q \in Services : pass'[q].step # "idle" => pass'[q].source \in Sources
        /\ \A q \in Services : pass'[q].step \in {"read", "commit"} => pass'[q].id > 0
    BY <1>11, IdleType, BecomesTyped DEF PassFails
  <2> QED
    BY <1>11, <2>1, <2>2 DEF PassFails, Typed, TypeOK, IdsPositive, ledger, history
<1> QED
  BY <1>2, <1>3, <1>4, <1>5, <1>6, <1>7, <1>8, <1>9, <1>10, <1>11 DEF Proceeds
----------------------------------------------------------------------------
(* What an agent does to a file, and to the records that were complete.     *)

(* What an agent leaves: files of the right type, whose lines were complete *)
(* now or before.                                                           *)
FilesKept ==
  /\ file' \in [Sources -> File]
  /\ \A s \in Sources : file'[s].id > 0
  /\ written' \in [Sources -> SUBSET Record]
  /\ \A s \in Sources : written[s] \subseteq written'[s]
  /\ LinesWritten'

LEMMA FileKept ==
  ASSUME Typed, LinesWritten, NEW s \in Sources, NEW f \in File, NEW records \in SUBSET Record,
         file' = [file EXCEPT ![s] = f], f.id > 0,
         written' = [written EXCEPT ![s] = @ \cup records],
         LinesUpTo(f.text, Len(f.text)) \subseteq written[s] \cup records
  PROVE  FilesKept
<1>1. /\ file \in [Sources -> File] /\ written \in [Sources -> SUBSET Record]
      /\ \A q \in Sources : file[q].id > 0
  BY DEF Typed, TypeOK, IdsPositive
<1>2. /\ file' \in [Sources -> File]
      /\ \A q \in Sources : file'[q].id > 0
      /\ written' \in [Sources -> SUBSET Record]
      /\ \A q \in Sources : written[q] \subseteq written'[q]
  BY <1>1
<1>3. \A q \in Sources : Lines(q)' \subseteq written'[q]
  <2> TAKE q \in Sources
  <2>1. CASE q = s
    BY <2>1, <1>1 DEF Lines
  <2>2. CASE q # s
    <3>1. file'[q] = file[q] /\ written'[q] = written[q]
      BY <2>2, <1>1
    <3> QED
      BY <3>1 DEF LinesWritten, Lines
  <2> QED
    BY <2>1, <2>2
<1> QED
  BY <1>2, <1>3 DEF FilesKept, LinesWritten

LEMMA FileKeptSame ==
  ASSUME Typed, LinesWritten, NEW s \in Sources, NEW f \in File,
         file' = [file EXCEPT ![s] = f], f.id > 0, written' = written,
         LinesUpTo(f.text, Len(f.text)) \subseteq written[s]
  PROVE  FilesKept
<1>1. written' = [written EXCEPT ![s] = @ \cup {}]
  BY DEF Typed, TypeOK
<1>2. {} \in SUBSET Record /\ LinesUpTo(f.text, Len(f.text)) \subseteq written[s] \cup {}
  OBVIOUS
<1> QED
  BY <1>1, <1>2, FileKept

LEMMA NoLines ==
  /\ <<>> \in Seq(Byte) /\ Len(<<>>) = 0 /\ LinesUpTo(<<>>, 0) = {}
  /\ \A n : Boundary(<<>>, n) <=> n = 0
<1>1. <<>> \in Seq(Byte) /\ Len(<<>>) = 0 /\ DOMAIN <<>> = {}
  BY EmptySeq
<1>2. Ends(<<>>) = {}
  BY <1>1 DEF Ends
<1> QED
  BY <1>1, <1>2 DEF LinesUpTo, RecordsRead, Pieces, Boundary

(* A written byte is appended, and may end a line.                          *)
LEMMA WriteText ==
  ASSUME Typed, NEW s \in Sources, NEW c \in Contents, Write(s, c)
  PROVE  \E x \in Byte :
           LET new == Append(file[s].text, x)
               hidden == s \in cut /\ (Len(new) >= cursor[s].offset
                                        \/ \E p \in Services : InFlight(p, s))
           IN
           /\ file' = [file EXCEPT ![s] = [file[s] EXCEPT !.text = new]]
           /\ written' = [written EXCEPT ![s] = @ \cup LinesUpTo(new, Len(new))]
           /\ shadowed' = IF hidden THEN shadowed \cup {s} ELSE shadowed
           /\ shifted' = IF hidden THEN [shifted EXCEPT ![s] = @ \cup OffsetsAt(s)] ELSE shifted
           /\ UNCHANGED <<ledger, pass, bounds, cut, lost, overlap>>
<1> DEFINE t == file[s].text
           whole == Boundary(t, Len(t))
           left == IF whole THEN LineWidth(s, c) ELSE t[Len(t)].left
           x == [of |-> c, left |-> left - 1]
<1>1. t \in Seq(Byte) /\ Len(t) \in Nat /\ DOMAIN t = 1..Len(t)
  BY SourceFileType, LenProperties
<1>2. left \in Nat \ {0}
  <2>1. CASE whole
    BY <2>1, ContentsAssumption DEF LineWidth
  <2>2. CASE ~whole
    <3>1. Len(t) \in DOMAIN t /\ t[Len(t)].left # 0
      BY <1>1, <2>2 DEF Boundary, Ends
    <3>2. t[Len(t)] \in Byte
      BY <1>1, <3>1, ElementOfSeq
    <3> QED
      BY <2>2, <3>1, <3>2 DEF Byte
  <2> QED
    BY <2>1, <2>2
<1>3. x \in Byte
  <2>1. left - 1 \in Nat
    BY <1>2
  <2> HIDE DEF left
  <2> QED
    BY <2>1 DEF Byte
<1>4. file \in [Sources -> File]
  BY DEF Typed, TypeOK
<1>5. file' = [file EXCEPT ![s] = [file[s] EXCEPT !.text = Append(file[s].text, x)]]
  BY <1>4 DEF Write
<1>6. LET new == Append(file[s].text, x)
          hidden == s \in cut /\ (Len(new) >= cursor[s].offset
                                   \/ \E p \in Services : InFlight(p, s))
      IN
      /\ written' = [written EXCEPT ![s] = @ \cup LinesUpTo(new, Len(new))]
      /\ shadowed' = IF hidden THEN shadowed \cup {s} ELSE shadowed
      /\ shifted' = IF hidden THEN [shifted EXCEPT ![s] = @ \cup OffsetsAt(s)] ELSE shifted
      /\ UNCHANGED <<ledger, pass, bounds, cut, lost, overlap>>
  BY DEF Write
<1> HIDE DEF x
<1> QED
  BY <1>3, <1>5, <1>6

LEMMA WriteLeaves ==
  ASSUME NEW s, NEW c, Write(s, c)
  PROVE  UNCHANGED <<ledger, pass, bounds, cut, lost, overlap>>
BY Zenon DEF Write

LEMMA ReplaceLeaves ==
  ASSUME NEW s, NEW copied, Replace(s, copied)
  PROVE  /\ UNCHANGED <<ledger, pass, bounds, written, overlap>>
         /\ cut' = cut \ {s} /\ shadowed' = shadowed \ {s}
BY Zenon DEF Replace

LEMMA AgentLeaves ==
  ASSUME AgentNext
  PROVE  UNCHANGED <<ledger, pass, overlap>>
BY WriteLeaves, ReplaceLeaves DEF AgentNext, Truncate, ChangeSchema, history

(* What every action of an agent does to the files and the records.         *)
LEMMA AgentLines ==
  ASSUME Typed, LinesWritten, AgentNext
  PROVE  FilesKept /\ UNCHANGED <<ledger, pass>>
<1>1. file \in [Sources -> File]
  BY DEF Typed, TypeOK
<1>2. ASSUME NEW s \in Sources
      PROVE  /\ file[s] \in File /\ file[s].id > 0 /\ file[s].id \in Nat
             /\ file[s].text \in Seq(Byte) /\ Len(file[s].text) \in Nat
             /\ LinesUpTo(file[s].text, Len(file[s].text)) \subseteq written[s]
  BY SourceFileType, LenProperties DEF Typed, TypeOK, IdsPositive, File, LinesWritten, Lines
<1>3. ASSUME NEW s \in Sources, NEW c \in Contents, Write(s, c) PROVE FilesKept
  <2>1. PICK x \in Byte :
          LET new == Append(file[s].text, x) IN
          /\ file' = [file EXCEPT ![s] = [file[s] EXCEPT !.text = new]]
          /\ written' = [written EXCEPT ![s] = @ \cup LinesUpTo(new, Len(new))]
    BY <1>3, WriteText
  <2> DEFINE new == Append(file[s].text, x)
             f == [file[s] EXCEPT !.text = new]
  <2>2. new \in Seq(Byte)
    BY <1>2, AppendText
  <2>3. LinesUpTo(new, Len(new)) \in SUBSET Record
    BY <2>2, LinesType
  <2>4. file' = [file EXCEPT ![s] = f]
    BY <2>1
  <2>5. written' = [written EXCEPT ![s] = @ \cup LinesUpTo(new, Len(new))]
    BY <2>1
  <2> HIDE DEF new
  <2>6. f \in File /\ f.id > 0 /\ f.text = new
    BY <1>2, <2>2 DEF File
  <2> HIDE DEF f
  <2> QED
    BY <2>3, <2>4, <2>5, <2>6, FileKept
<1>4. ASSUME NEW s \in Sources, ChangeSchema(s) PROVE FilesKept
  <2> DEFINE f == [file[s] EXCEPT !.reviewed = ~@]
  <2>1. file' = [file EXCEPT ![s] = f] /\ written' = written
    BY <1>4 DEF ChangeSchema, history
  <2>2. f \in File /\ f.id = file[s].id /\ f.text = file[s].text
    BY <1>2 DEF File
  <2> HIDE DEF f
  <2> QED
    BY <1>2, <2>1, <2>2, FileKeptSame
<1>5. ASSUME NEW s \in Sources, NEW copied \in BOOLEAN, Replace(s, copied) PROVE FilesKept
  <2> DEFINE new == IF copied THEN file[s].text ELSE <<>>
             f == [file[s] EXCEPT !.id = @ + 1, !.text = new]
  <2>1. file' = [file EXCEPT ![s] = f] /\ written' = written
    BY <1>5 DEF Replace
  <2>2. new \in Seq(Byte) /\ LinesUpTo(new, Len(new)) \subseteq written[s]
    BY <1>2, NoLines
  <2> HIDE DEF new
  <2>3. file[s].id + 1 \in Nat /\ file[s].id + 1 > 0
    BY <1>2
  <2>4. f \in File /\ f.id > 0 /\ f.text = new
    BY <1>2, <2>2, <2>3 DEF File
  <2> HIDE DEF f
  <2> QED
    BY <2>1, <2>2, <2>4, FileKeptSame
<1>6. ASSUME NEW s \in Sources, NEW n \in 0..MaxBytes, Truncate(s, n) PROVE FilesKept
  <2> DEFINE t == file[s].text
             new == SubSeq(t, 1, n)
             f == [file[s] EXCEPT !.text = new]
  <2>1. file' = [file EXCEPT ![s] = f] /\ written' = written
    BY <1>1, <1>6 DEF Truncate
  <2>2. n \in Nat /\ n < Len(t)
    BY <1>6, BoundsAssumption DEF Truncate
  <2>3. new \in Seq(Byte) /\ Len(new) = n /\ LinesUpTo(new, n) = LinesUpTo(t, n)
    BY <1>2, <2>2, CutText
  <2>4. LinesUpTo(t, n) \subseteq LinesUpTo(t, Len(t))
    BY <1>2, <2>2, LinesGrow
  <2>5. LinesUpTo(new, Len(new)) \subseteq written[s]
    BY <1>2, <2>3, <2>4
  <2> HIDE DEF new
  <2>6. f \in File /\ f.id > 0 /\ f.text = new
    BY <1>2, <2>3 DEF File
  <2> HIDE DEF f
  <2> QED
    BY <2>1, <2>5, <2>6, FileKeptSame
<1> QED
  BY <1>3, <1>4, <1>5, <1>6, AgentLeaves DEF AgentNext

LEMMA OffsetsType ==
  ASSUME Typed, NEW s \in Sources
  PROVE  /\ OffsetsAt(s) \in SUBSET Nat
         /\ \A p \in Services : pass[p].cursor.offset \in Nat
BY PassType DEF OffsetsAt, Typed, TypeOK, Cursor, Pass

LEMMA AgentTyped ==
  ASSUME Typed, LinesWritten, AgentNext
  PROVE  Typed'
<1>1. /\ file' \in [Sources -> File]
      /\ \A s \in Sources : file'[s].id > 0
      /\ written' \in [Sources -> SUBSET Record]
      /\ UNCHANGED <<ledger, pass>>
  BY AgentLines DEF FilesKept
<1>2. bounds' \in [cuts : Nat, schemas : Nat, failures : Nat]
  <2>1. bounds \in [cuts : Nat, schemas : Nat, failures : Nat]
    BY DEF Typed, TypeOK
  <2>2. \/ bounds' = bounds
        \/ bounds' = [bounds EXCEPT !.cuts = @ + 1]
        \/ bounds' = [bounds EXCEPT !.schemas = @ + 1]
    BY WriteLeaves, ReplaceLeaves DEF AgentNext, Truncate, ChangeSchema
  <2> QED
    BY <2>1, <2>2
<1>3. cut' \subseteq Sources /\ shadowed' \subseteq Sources
  <2>1. ASSUME NEW s \in Sources, NEW c \in Contents, Write(s, c)
        PROVE  cut' \subseteq Sources /\ shadowed' \subseteq Sources
    <3>1. shadowed' \in {shadowed, shadowed \cup {s}}
      BY <2>1, WriteText
    <3>2. cut' = cut /\ cut \subseteq Sources /\ shadowed \subseteq Sources
      BY <2>1, WriteLeaves DEF Typed, TypeOK
    <3> QED
      BY <3>1, <3>2
  <2> QED
    BY <2>1, ReplaceLeaves DEF AgentNext, Truncate, ChangeSchema, history, Typed, TypeOK
<1>4. shifted' \in [Sources -> SUBSET Nat]
  <2>1. shifted \in [Sources -> SUBSET Nat]
    BY DEF Typed, TypeOK
  <2>2. ASSUME NEW s \in Sources, NEW offsets \in SUBSET Nat,
               shifted' = [shifted EXCEPT ![s] = @ \cup offsets]
        PROVE  shifted' \in [Sources -> SUBSET Nat]
    BY <2>1, <2>2
  <2>3. ASSUME NEW s \in Sources, NEW copied \in BOOLEAN, Replace(s, copied)
        PROVE  shifted' \in [Sources -> SUBSET Nat]
    <3> DEFINE reading == {p \in Services : Doing(p, "read") /\ pass[p].source = s}
    <3>1. {pass[p].cursor.offset : p \in reading} \in SUBSET Nat
      BY OffsetsType
    <3> QED
      BY <2>2, <2>3, <3>1 DEF Replace
  <2>4. ASSUME NEW s \in Sources, NEW c \in Contents, Write(s, c)
        PROVE  shifted' \in [Sources -> SUBSET Nat]
    BY <2>1, <2>2, <2>4, OffsetsType, WriteText
  <2>5. CASE UNCHANGED shifted
    BY <2>1, <2>5
  <2> QED
    BY <2>3, <2>4, <2>5 DEF AgentNext, Truncate, ChangeSchema, history
<1>5. lost' \in [Sources -> SUBSET [id : Nat, offset : Nat]]
  <2>1. ASSUME NEW s \in Sources, NEW copied \in BOOLEAN, Replace(s, copied)
        PROVE  lost' \in [Sources -> SUBSET [id : Nat, offset : Nat]]
    <3>1. file[s].id \in Nat /\ Uncaptured(s) \in SUBSET Record
      BY SourceFileType, LinesType DEF File, Uncaptured, Lines
    <3>2. {[id |-> file[s].id, offset |-> e.offset] : e \in Uncaptured(s)}
            \subseteq [id : Nat, offset : Nat]
      BY <3>1 DEF Record
    <3>3. lost \in [Sources -> SUBSET [id : Nat, offset : Nat]]
      BY DEF Typed, TypeOK
    <3> QED
      BY <2>1, <3>2, <3>3 DEF Replace
  <2>2. CASE UNCHANGED lost
    BY <2>2 DEF Typed, TypeOK
  <2> QED
    BY <2>1, <2>2, WriteLeaves DEF AgentNext, Truncate, ChangeSchema, history
<1>6. overlap' \in BOOLEAN
  BY AgentLeaves DEF Typed, TypeOK
<1> QED
  BY <1>1, <1>2, <1>3, <1>4, <1>5, <1>6 DEF Typed, TypeOK, IdsPositive, ledger

----------------------------------------------------------------------------
LEMMA InvInit == Init => Inv
<1> SUFFICES ASSUME Init PROVE Inv
  OBVIOUS
<1>1. [o \in 0..MaxBytes |-> 0] \in [0..MaxBytes -> Nat]
  OBVIOUS
<1>2. file \in [Sources -> File] /\ \A s \in Sources : file[s].text = <<>> /\ file[s].id > 0
  BY NoLines DEF Init, File
<1>3. pass \in [Services -> Pass] /\ \A p \in Services : pass[p].step = "idle"
  BY IdleType DEF Init
<1>4. Start \in Cursor
  BY DEF Start, Cursor
<1>5. LinesWritten
  BY <1>2, NoLines DEF LinesWritten, Lines
<1>6. Typed
  BY <1>1, <1>2, <1>3, <1>4 DEF Init, Typed, TypeOK, IdsPositive, Start
<1> QED
  BY <1>5, <1>6 DEF Inv

LEMMA InvNext == Inv /\ [Next]_vars => Inv'
<1> SUFFICES ASSUME Inv, [Next]_vars PROVE Inv'
  OBVIOUS
<1>1. Typed /\ LinesWritten
  BY DEF Inv
<1>2. ASSUME NEW p \in Services, Proceeds(p) \/ SourceFails(p) \/ PassFails(p)
      PROVE  Inv'
  <2>1. UNCHANGED <<file, written>>
    BY <1>2, ReadLeaves DEF Proceeds, StartPass, LoadCursor, CompareSchema, Inspect, Recheck,
                            Identify, Commit, SourceFails, PassFails, history
  <2> QED
    BY <1>1, <1>2, <2>1, PassTyped DEF Inv, LinesWritten, Lines
<1>3. CASE AgentNext
  BY <1>1, <1>3, AgentLines, AgentTyped DEF Inv, FilesKept
<1>4. CASE UNCHANGED vars
  BY <1>1, <1>4 DEF Inv, Typed, TypeOK, IdsPositive, LinesWritten, Lines, vars, ledger, history
<1> QED
  BY <1>2, <1>3, <1>4 DEF Next

LEMMA Invariant == Spec => []Inv
BY InvInit, InvNext, PTL DEF Spec

(* Every variable of Capture keeps its type, and no cursor has an offset in *)
(* a file it does not name (SourceCursor::for_file).                        *)
THEOREM TypeCorrect == Spec => []TypeOK
<1>1. Inv => TypeOK
  BY DEF Inv, Typed
<1> QED
  BY <1>1, Invariant, PTL
----------------------------------------------------------------------------
(* No record is skipped.  NoRecordSkipped is about the cursors committed;   *)
(* the strengthening says the same of those that passes have loaded and of  *)
(* those they are about to commit, which another service's commit, a growth *)
(* of the file and its replacement must not falsify either.  Of a file that *)
(* was not cut it says more: it is as long as the cursor says, so that what *)
(* is appended to it lies beyond.                                           *)

(* What cursor c has passed in file f is whole lines, and in records ...    *)
Covered(f, c, records) ==
  c.id = f.id /\ c.offset <= Len(f.text) =>
    Boundary(f.text, c.offset) /\ LinesUpTo(f.text, c.offset) \subseteq records

(* ... and the file is as long as it says.                                  *)
Reached(f, c) == c.id = f.id => c.offset <= Len(f.text)

Sound(s, c, records) ==
  s \notin shadowed =>
    /\ Covered(file[s], c, records)
    /\ s \notin cut => Reached(file[s], c)

CursorSound(s) == cursor[s].id <= file[s].id /\ Sound(s, cursor[s], events[s])

Loaded(r) == r.step \notin {"idle", "load"}

(* A pass names no file that is yet to come, and what it loaded and what it *)
(* will commit are sound.                                                   *)
PassSound(r) ==
  Loaded(r) =>
    /\ r.cursor.id <= file[r.source].id
    /\ r.cursor.id = 0 => r.cursor.offset = 0
    /\ Sound(r.source, r.cursor, events[r.source])
    /\ r.step \in {"read", "commit"} => r.id <= file[r.source].id
    /\ r.step = "commit" => Sound(r.source, NextCursor(r), events[r.source] \cup r.batch)

SInv ==
  /\ \A s \in Sources : CursorSound(s)
  /\ \A p \in Services : PassSound(pass[p])

----------------------------------------------------------------------------
(* Files that grow, are cut or replaced.                                    *)

LEMMA GrowthCovers ==
  ASSUME NEW f \in File, NEW g, NEW x \in Byte, g.id = f.id, g.text = Append(f.text, x),
         NEW c \in Cursor, NEW records, Covered(f, c, records)
  PROVE  /\ Reached(f, c) => Covered(g, c, records) /\ Reached(g, c)
         /\ c.offset > Len(f.text) + 1 => Covered(g, c, records)
<1>1. /\ f.text \in Seq(Byte) /\ Len(f.text) \in Nat /\ c.offset \in Nat
  BY LenProperties DEF File, Cursor
<1>2. /\ Len(g.text) = Len(f.text) + 1
      /\ \A n \in Nat : n <= Len(f.text) => LinesUpTo(g.text, n) = LinesUpTo(f.text, n)
      /\ \A n \in Nat : Boundary(f.text, n) => Boundary(g.text, n)
  BY <1>1, AppendText
<1> QED
  BY <1>1, <1>2 DEF Covered, Reached

LEMMA CutCovers ==
  ASSUME NEW f \in File, NEW g, NEW n \in Nat, n < Len(f.text), g.id = f.id,
         g.text = SubSeq(f.text, 1, n),
         NEW c \in Cursor, NEW records, Covered(f, c, records)
  PROVE  /\ Covered(g, c, records)
         /\ c.offset <= n => Reached(g, c)
<1>1. /\ f.text \in Seq(Byte) /\ Len(f.text) \in Nat /\ c.offset \in Nat
  BY LenProperties DEF File, Cursor
<1>2. /\ Len(g.text) = n
      /\ \A m \in Nat : m <= n => LinesUpTo(g.text, m) = LinesUpTo(f.text, m)
      /\ \A m \in Nat : m <= n => (Boundary(g.text, m) <=> Boundary(f.text, m))
  BY <1>1, CutText
<1> QED
  BY <1>1, <1>2 DEF Covered, Reached

LEMMA NewerCovers ==
  ASSUME NEW f \in File, NEW g, g.id = f.id + 1, NEW c \in Cursor, c.id <= f.id, NEW records
  PROVE  Covered(g, c, records) /\ Reached(g, c)
<1>1. f.id \in Nat /\ c.id \in Nat
  BY DEF File, Cursor
<1> QED
  BY <1>1 DEF Covered, Reached

LEMMA MoreCovers ==
  ASSUME NEW f, NEW c, NEW records, NEW more, records \subseteq more, Covered(f, c, records)
  PROVE  Covered(f, c, more)
BY DEF Covered

----------------------------------------------------------------------------
(* Steps of a pass.                                                         *)

LEMMA PassStepSound ==
  ASSUME Typed, SInv, NEW p \in Services, NEW r, Becomes(p, r), PassSound(r),
         UNCHANGED <<file, events, cursor, cut, shadowed>>
  PROVE  SInv'
<1>1. \A q \in Services : pass'[q] = IF q = p THEN r ELSE pass[q]
  BY DEF Becomes, Typed, TypeOK
<1>2. \A q \in Services : PassSound(pass'[q])
  BY <1>1 DEF SInv
<1>3. \A q \in Services : PassSound(pass[q])'
  BY <1>2 DEF PassSound, Loaded, Sound, NextCursor, StartOffset, Rotated
<1>4. \A s \in Sources : CursorSound(s)'
  BY DEF SInv, CursorSound, Sound
<1> QED
  BY <1>3, <1>4 DEF SInv

LEMMA NextSourceSound ==
  ASSUME Typed, SInv, NEW p \in Services, pass[p].step # "idle", NextSource(p),
         UNCHANGED <<file, events, cursor, cut, shadowed>>
  PROVE  SInv'
<1>1. PICK r \in Pass : Becomes(p, r) /\ r.step \in {"idle", "load"}
  BY NextSourceBecomes
<1>2. PassSound(r)
  BY <1>1 DEF PassSound, Loaded
<1> QED
  BY <1>1, <1>2, PassStepSound

LEMMA EarlyStepsSound ==
  ASSUME Typed, SInv, NEW p \in Services,
         \/ StartPass(p) \/ LoadCursor(p) \/ CompareSchema(p) \/ Inspect(p) \/ Recheck(p)
         \/ Identify(p) \/ SourceFails(p) \/ PassFails(p)
  PROVE  SInv'
<1> DEFINE r == pass[p]
           s == r.source
<1>1. UNCHANGED <<file, events, cursor, cut, shadowed>>
  BY DEF StartPass, LoadCursor, CompareSchema, Inspect, Recheck, Identify, SourceFails,
         PassFails, ledger, history
<1>2. r \in Pass /\ (r.step # "idle" => s \in Sources) /\ PassSound(r)
  BY PassType DEF SInv
<1>3. CASE StartPass(p)
  <2>1. Becomes(p, At("load", 1)) /\ At("load", 1).step = "load"
    BY <1>3, AtType DEF StartPass, At
  <2>2. PassSound(At("load", 1))
    BY <2>1 DEF PassSound, Loaded
  <2> QED
    BY <1>1, <2>1, <2>2, PassStepSound
<1>4. CASE LoadCursor(p)
  <2> DEFINE n == [r EXCEPT !.step = "fingerprint", !.cursor = cursor[s]]
  <2>1. Becomes(p, n) /\ s \in Sources
    BY <1>2, <1>4 DEF LoadCursor, Doing
  <2>2. n.step = "fingerprint" /\ n.cursor = cursor[s] /\ n.source = s
    BY <1>2 DEF Pass
  <2>3. CursorSound(s) /\ (cursor[s].id = 0 => cursor[s].offset = 0)
    BY <2>1 DEF SInv, Typed, TypeOK, Start
  <2> HIDE DEF n, s
  <2>4. PassSound(n)
    BY <2>2, <2>3 DEF PassSound, CursorSound
  <2> QED
    BY <1>1, <2>1, <2>4, PassStepSound
<1>5. ASSUME NEW n, Becomes(p, n), n.cursor = r.cursor, n.source = s,
             n.step \in {"inspect", "identify"}, r.step \in {"fingerprint", "inspect"}
      PROVE  SInv'
  <2> HIDE DEF r, s
  <2>1. PassSound(n)
    BY <1>2, <1>5 DEF PassSound, Loaded, s
  <2> QED
    BY <1>1, <1>5, <2>1, PassStepSound
<1>6. CASE CompareSchema(p)
  <2> DEFINE n == [r EXCEPT !.step = "inspect"]
  <2>1. /\ r.step = "fingerprint"
        /\ n.step = "inspect" /\ n.cursor = r.cursor /\ n.source = s
    BY <1>2, <1>6 DEF CompareSchema, Doing, Pass
  <2>2. CASE NextSource(p)
    BY <1>1, <2>1, <2>2, NextSourceSound
  <2>3. CASE Becomes(p, n)
    <3> HIDE DEF n
    <3> QED
      BY <1>5, <2>1, <2>3
  <2> QED
    BY <1>6, <2>2, <2>3 DEF CompareSchema
<1>7. CASE Inspect(p)
  <2> DEFINE n == [r EXCEPT !.step = "identify", !.size = Len(file[s].text)]
  <2>1. /\ r.step = "inspect" /\ Becomes(p, n)
        /\ n.step = "identify" /\ n.cursor = r.cursor /\ n.source = s
    BY <1>2, <1>7 DEF Inspect, Doing, Pass
  <2> HIDE DEF n
  <2> QED
    BY <1>5, <2>1
<1>8. CASE Recheck(p)
  <2> DEFINE n == [r EXCEPT !.step = "identify"]
  <2>1. /\ r.step = "inspect"
        /\ n.step = "identify" /\ n.cursor = r.cursor /\ n.source = s
    BY <1>2, <1>8 DEF Recheck, Doing, Pass
  <2>2. CASE NextSource(p)
    BY <1>1, <2>1, <2>2, NextSourceSound
  <2>3. CASE Becomes(p, n)
    <3> HIDE DEF n
    <3> QED
      BY <1>5, <2>1, <2>3
  <2> QED
    BY <1>8, <2>2, <2>3 DEF Recheck
<1>9. CASE Identify(p)
  <2> DEFINE n == [r EXCEPT !.step = "read", !.id = file[s].id]
  <2>1. Becomes(p, n) /\ r.step = "identify" /\ s \in Sources
    BY <1>2, <1>9 DEF Identify, Doing
  <2>2. n.step = "read" /\ n.cursor = r.cursor /\ n.source = s /\ n.id = file[s].id
    BY <1>2 DEF Pass
  <2>3. file[s].id <= file[s].id
    BY <2>1 DEF Typed, TypeOK, File
  <2> HIDE DEF n, r, s
  <2>4. PassSound(n)
    BY <1>2, <2>1, <2>2, <2>3 DEF PassSound, Loaded, s
  <2> QED
    BY <1>1, <2>1, <2>4, PassStepSound
<1>10. CASE SourceFails(p)
  BY <1>1, <1>10, NextSourceSound DEF SourceFails
<1>11. CASE PassFails(p)
  <2>1. Becomes(p, Idle) /\ PassSound(Idle)
    BY <1>11, IdleType DEF PassFails, PassSound, Loaded
  <2> QED
    BY <1>1, <2>1, PassStepSound
<1> QED
  BY <1>3, <1>4, <1>6, <1>7, <1>8, <1>9, <1>10, <1>11

(* What is read goes on where what is covered ends.                         *)
LEMMA ReadSound ==
  ASSUME Typed, SInv, NEW p \in Services, Read(p)
  PROVE  SInv'
<1> DEFINE r == pass[p]
           s == r.source
           f == file[s]
           start == StartOffset(r)
           ends == Readable(s, start)
<1>1. /\ r \in Pass /\ s \in Sources /\ r.step = "read"
      /\ PassSound(r) /\ start \in Nat
      /\ UNCHANGED <<file, events, cursor, cut, shadowed>>
  BY ReadLeaves, ReadBecomes DEF SInv, ledger, history
<1>2. CASE NextSource(p)
  BY <1>1, <1>2, NextSourceSound
<1>3. CASE ~NextSource(p)
  <2>1. PICK end \in {start} \cup ends :
          \E n \in Pass :
            /\ \A e \in ends : e <= end
            /\ Becomes(p, n)
            /\ n.step = "commit" /\ n.source = s /\ n.cursor = r.cursor /\ n.id = r.id
            /\ n.end = end /\ n.batch = RecordsRead(f.text, start, ends)
    BY <1>3, ReadBecomes
  <2>2. PICK n \in Pass :
          /\ \A e \in ends : e <= end
          /\ Becomes(p, n)
          /\ n.step = "commit" /\ n.source = s /\ n.cursor = r.cursor /\ n.id = r.id
          /\ n.end = end /\ n.batch = RecordsRead(f.text, start, ends)
    BY <2>1
  <2>3. /\ f.text \in Seq(Byte) /\ Len(f.text) \in Nat /\ f.id \in Nat
        /\ \A e \in ends : e \in Nat /\ start < e /\ e <= Len(f.text)
        /\ end \in Nat /\ start <= end
    <3>1. /\ f.text \in Seq(Byte) /\ Len(f.text) \in Nat /\ f.id \in Nat
          /\ \A e \in Ends(f.text) : e \in Nat /\ e <= Len(f.text)
      BY <1>1, SourceFileType, EndsType DEF File
    <3>2. \A e \in ends : e \in Nat /\ start < e /\ e <= Len(f.text)
      BY <3>1 DEF Readable
    <3> QED
      BY <1>1, <2>1, <3>1, <3>2
  <2>4. NextCursor(n) = [id |-> r.id, offset |-> end]
    BY <2>2 DEF NextCursor
  <2>5. ASSUME s \notin shadowed, r.id = f.id
        PROVE  /\ s \notin cut => start <= Len(f.text)
               /\ start <= Len(f.text) =>
                    Boundary(f.text, start) /\ LinesUpTo(f.text, start) \subseteq events[s]
    <3>1. CASE start = 0
      <4>1. LinesUpTo(f.text, 0) = {}
        BY <2>3, LinesToNone
      <4> QED
        BY <2>3, <3>1, <4>1 DEF Boundary
    <3>2. CASE start # 0
      <4>1. ~Rotated(r) /\ start = r.cursor.offset
        BY <3>2 DEF StartOffset
      <4>2. r.cursor.id = r.id
        BY <1>1, <3>2, <4>1 DEF PassSound, Loaded, Rotated
      <4>3. Covered(f, r.cursor, events[s]) /\ (s \notin cut => Reached(f, r.cursor))
        BY <1>1, <2>5 DEF PassSound, Loaded, Sound
      <4> QED
        BY <2>5, <4>1, <4>2, <4>3 DEF Covered, Reached
    <3> QED
      BY <3>1, <3>2
  <2>6. ASSUME s \notin shadowed, r.id = f.id
        PROVE  /\ s \notin cut => end <= Len(f.text)
               /\ end <= Len(f.text) =>
                    /\ Boundary(f.text, end)
                    /\ LinesUpTo(f.text, end) \subseteq events[s] \cup n.batch
    <3>1. s \notin cut => end <= Len(f.text)
      BY <2>1, <2>3, <2>5, <2>6
    <3>2. ASSUME end <= Len(f.text)
          PROVE  Boundary(f.text, end) /\ LinesUpTo(f.text, end) \subseteq events[s] \cup n.batch
      <4>1. Boundary(f.text, start) /\ LinesUpTo(f.text, start) \subseteq events[s]
        BY <1>1, <2>3, <2>5, <2>6, <3>2
      <4>2. /\ Boundary(f.text, end)
            /\ LinesUpTo(f.text, end)
                 \subseteq LinesUpTo(f.text, start) \cup RecordsRead(f.text, start, ends)
        BY <1>1, <2>1, <2>2, <4>1, ReadCovers
      <4> QED
        BY <2>2, <4>1, <4>2
    <3> QED
      BY <3>1, <3>2
  <2>7. Sound(s, NextCursor(n), events[s] \cup n.batch)
    BY <2>4, <2>6 DEF Sound, Covered, Reached
  <2> HIDE DEF r, s, f, start, ends
  <2>8. PassSound(n)
    BY <1>1, <2>2, <2>7 DEF PassSound, Loaded, s
  <2> QED
    BY <1>1, <2>2, <2>8, PassStepSound
<1> QED
  BY <1>2, <1>3

----------------------------------------------------------------------------
(* A commit.                                                                *)

Settled(p) ==
  LET r == pass[p]
      s == r.source
  IN
  /\ Rotated(r) /\ r.id = file[s].id
  /\ Boundary(file[s].text, r.end)
  /\ r.batch = LinesUpTo(file[s].text, r.end)
  /\ \A q \in Services \ {p} : pass[q].source # s

(* What was read again from its start is all there.                         *)
LEMMA SettledCovers ==
  ASSUME Typed, NEW p \in Services, Doing(p, "commit"), Settled(p)
  PROVE  LET r == pass[p] IN
         /\ Covered(file[r.source], NextCursor(r), r.batch)
         /\ Reached(file[r.source], NextCursor(r))
<1>1. pass[p].source \in Sources
  BY PassType DEF Doing
<1>2. file[pass[p].source].text \in Seq(Byte)
  BY <1>1, SourceFileType
<1> QED
  BY <1>2, EndsType DEF Settled, Covered, Reached, NextCursor

LEMMA CommitSound ==
  ASSUME Typed, SInv, NEW p \in Services, Commit(p)
  PROVE  SInv'
<1> DEFINE r == pass[p]
           s == r.source
           records == r.batch
           next == NextCursor(r)
<1>1. /\ r \in Pass /\ s \in Sources /\ r.step = "commit" /\ Doing(p, "commit")
      /\ PassSound(r)
  BY PassType DEF Commit, Doing, SInv
<1>2. /\ file' = file
      /\ events' = [events EXCEPT ![s] = @ \cup records]
      /\ cursor' = [cursor EXCEPT ![s] = next]
  BY DEF Commit
<1>3. /\ events'[s] = events[s] \cup records /\ cursor'[s] = next
      /\ \A t \in Sources : t # s => events'[t] = events[t] /\ cursor'[t] = cursor[t]
  BY <1>1, <1>2 DEF Typed, TypeOK
<1>4. /\ cut' = IF Settled(p) THEN cut \ {s} ELSE cut
      /\ shadowed' = IF Settled(p) THEN shadowed \ {s} ELSE shadowed
  BY DEF Commit, SettlesCut, Settled
<1>5. \A t \in Sources : t # s => (t \in cut' <=> t \in cut) /\ (t \in shadowed' <=> t \in shadowed)
  BY <1>4
<1>6. next.id = r.id /\ r.id <= file[s].id
  BY <1>1 DEF NextCursor, PassSound, Loaded
<1>7. s \notin shadowed' =>
        Covered(file[s], next, events[s] \cup records) /\ (s \notin cut' => Reached(file[s], next))
  <2>1. CASE Settled(p)
    <3>1. Covered(file[s], next, records) /\ Reached(file[s], next)
      BY <1>1, <2>1, SettledCovers
    <3> QED
      BY <3>1, MoreCovers
  <2>2. CASE ~Settled(p)
    BY <1>1, <1>4, <2>2 DEF PassSound, Loaded, Sound
  <2> QED
    BY <2>1, <2>2
<1>8. PICK new \in Pass : Becomes(p, new) /\ new.step \in {"idle", "load"}
  BY <1>1, NextSourceBecomes DEF Commit
<1>9. \A q \in Services : pass'[q] = IF q = p THEN new ELSE pass[q]
  BY <1>8 DEF Becomes, Typed, TypeOK
<1> HIDE DEF records, next
<1>10. \A t \in Sources : CursorSound(t)'
  <2>1. \A t \in Sources : t = s => CursorSound(t)'
    BY <1>2, <1>3, <1>6, <1>7 DEF CursorSound, Sound
  <2>2. \A t \in Sources : t # s => CursorSound(t)'
    BY <1>2, <1>3, <1>5 DEF SInv, CursorSound, Sound
  <2> QED
    BY <2>1, <2>2
<1>11. ASSUME NEW q \in Services
       PROVE  PassSound(pass[q])'
  <2>1. CASE q = p
    BY <1>8, <1>9, <2>1 DEF PassSound, Loaded
  <2>2. CASE q # p
    <3> DEFINE x == pass[q]
               t == x.source
    <3>1. pass'[q] = x /\ PassSound(x) /\ (x.step # "idle" => t \in Sources)
      BY <1>9, <2>2, PassType DEF SInv
    <3>2. CASE ~Loaded(x)
      BY <3>1, <3>2 DEF PassSound, Loaded
    <3>3. CASE Loaded(x) /\ t # s
      <4>1. t \in Sources /\ events'[t] = events[t]
        BY <1>3, <3>1, <3>3 DEF Loaded
      <4>2. (t \in cut' <=> t \in cut) /\ (t \in shadowed' <=> t \in shadowed)
        BY <1>5, <3>3, <4>1
      <4> HIDE DEF x
      <4> QED
        BY <1>2, <3>1, <4>1, <4>2
           DEF PassSound, Loaded, Sound, NextCursor, StartOffset, Rotated
    <3>4. CASE Loaded(x) /\ t = s
      <4>1. ~Settled(p)
        BY <2>2, <3>4 DEF Settled
      <4>2. cut' = cut /\ shadowed' = shadowed
        BY <1>4, <4>1
      <4>3. events[t] \subseteq events'[t]
        BY <1>3, <3>4
      <4>4. \A c : Sound(t, c, events[t]) => Sound(t, c, events'[t])
        BY <4>3, MoreCovers DEF Sound
      <4>5. Sound(t, NextCursor(x), events[t] \cup x.batch)
              => Sound(t, NextCursor(x), events'[t] \cup x.batch)
        <5>1. events[t] \cup x.batch \subseteq events'[t] \cup x.batch
          BY <4>3
        <5> QED
          BY <5>1, MoreCovers DEF Sound
      <4> HIDE DEF x, t
      <4>6. /\ x.cursor.id <= file[t].id
            /\ x.cursor.id = 0 => x.cursor.offset = 0
            /\ Sound(t, x.cursor, events'[t])
            /\ x.step \in {"read", "commit"} => x.id <= file[t].id
            /\ x.step = "commit" => Sound(t, NextCursor(x), events'[t] \cup x.batch)
        BY <3>1, <3>4, <4>4, <4>5 DEF PassSound, t
      <4> QED
        BY <1>2, <3>1, <4>2, <4>6
           DEF PassSound, Sound, NextCursor, StartOffset, Rotated, t
    <3> QED
      BY <3>2, <3>3, <3>4
  <2> QED
    BY <2>1, <2>2
<1> QED
  BY <1>10, <1>11 DEF SInv

----------------------------------------------------------------------------
(* Steps of an agent.                                                       *)

(* A pass that may yet commit what it found at s.                           *)
Visits(p, s) == pass[p].source = s /\ Loaded(pass[p])

LEMMA VisitsInFlight ==
  ASSUME NEW p \in Services, NEW s, Visits(p, s)
  PROVE  InFlight(p, s)
BY DEF Visits, InFlight, Loaded, Doing

(* One file changes: the cursors and the passes at its source are looked at *)
(* one by one, the others are what they were.                               *)
LEMMA FileSound ==
  ASSUME Typed, SInv, NEW s \in Sources, NEW g, file' = [file EXCEPT ![s] = g],
         UNCHANGED <<ledger, pass>>, g.id \in Nat, file[s].id <= g.id,
         \A t \in Sources : t # s =>
           (t \in cut' <=> t \in cut) /\ (t \in shadowed' <=> t \in shadowed),
         s \notin shadowed' =>
           /\ Covered(g, cursor[s], events[s])
           /\ s \notin cut' => Reached(g, cursor[s]),
         \A p \in Services : Visits(p, s) /\ s \notin shadowed' =>
           /\ Covered(g, pass[p].cursor, events[s])
           /\ s \notin cut' => Reached(g, pass[p].cursor)
           /\ Doing(p, "commit") =>
                /\ Covered(g, NextCursor(pass[p]), events[s] \cup pass[p].batch)
                /\ s \notin cut' => Reached(g, NextCursor(pass[p]))
  PROVE  SInv'
<1>1. /\ events' = events /\ cursor' = cursor /\ pass' = pass
      /\ file'[s] = g /\ \A t \in Sources : t # s => file'[t] = file[t]
      /\ file[s].id \in Nat
      /\ \A t \in Sources : cursor[t].id \in Nat
  BY DEF ledger, Typed, TypeOK, File, Cursor
<1>2. CursorSound(s)'
  <2>1. cursor[s].id <= g.id
    BY <1>1 DEF SInv, CursorSound
  <2> QED
    BY <1>1, <2>1 DEF CursorSound, Sound
<1>3. \A t \in Sources : t # s => CursorSound(t)'
  BY <1>1 DEF SInv, CursorSound, Sound
<1>4. ASSUME NEW p \in Services
      PROVE  PassSound(pass[p])'
  <2> DEFINE x == pass[p]
             t == x.source
  <2>1. PassSound(x) /\ (x.step # "idle" => t \in Sources) /\ x \in Pass
    BY PassType DEF SInv
  <2>2. CASE ~Loaded(x)
    BY <1>1, <2>2 DEF PassSound, Loaded
  <2>3. CASE Loaded(x) /\ t # s
    <3>1. t \in Sources /\ file'[t] = file[t]
      BY <1>1, <2>1, <2>3 DEF Loaded
    <3>2. (t \in cut' <=> t \in cut) /\ (t \in shadowed' <=> t \in shadowed)
      BY <2>3, <3>1
    <3> HIDE DEF x
    <3>3. PassSound(x)'
      BY <1>1, <2>1, <3>1, <3>2
         DEF PassSound, Loaded, Sound, NextCursor, StartOffset, Rotated, x
    <3> QED
      BY <3>3 DEF x
  <2>4. CASE Loaded(x) /\ t = s
    <3>1. Visits(p, s)
      BY <2>4 DEF Visits
    <3>2. /\ x.cursor.id \in Nat /\ x.id \in Nat
      BY <2>1 DEF Pass, Cursor
    <3>3. /\ x.cursor.id <= g.id
          /\ x.step \in {"read", "commit"} => x.id <= g.id
      BY <1>1, <2>1, <2>4, <3>2 DEF PassSound
    <3>4. /\ x.cursor.id = 0 => x.cursor.offset = 0
      BY <2>1, <2>4 DEF PassSound
    <3>5. x.step = "commit" => Doing(p, "commit")
      BY DEF Doing
    <3>6. x' = x /\ t' = s
      BY <1>1, <2>4
    <3>7. /\ NextCursor(x)' = NextCursor(x) /\ x.batch' = x.batch
      BY <3>6 DEF NextCursor, StartOffset, Rotated
    <3>8. Sound(s, x.cursor, events[s])'
      BY <1>1, <3>1, <3>6 DEF Sound
    <3>9. x.step = "commit" => Sound(s, NextCursor(x), events[s] \cup x.batch)'
      BY <1>1, <3>1, <3>5, <3>7 DEF Sound
    <3> HIDE DEF x, t
    <3>10. PassSound(x)'
      BY <1>1, <2>4, <3>3, <3>4, <3>6, <3>8, <3>9 DEF PassSound, t
    <3> QED
      BY <3>10 DEF x
  <2> QED
    BY <2>2, <2>3, <2>4
<1> QED
  BY <1>2, <1>3, <1>4 DEF SInv

(* What SInv says of one source and of the passes at it.                    *)
LEMMA AtSource ==
  ASSUME Typed, SInv, NEW s \in Sources
  PROVE  /\ file[s] \in File /\ file[s].id \in Nat /\ cursor[s] \in Cursor
         /\ Len(file[s].text) \in Nat
         /\ cursor[s].id <= file[s].id
         /\ Sound(s, cursor[s], events[s])
         /\ \A p \in Services : Visits(p, s) =>
              /\ pass[p].cursor \in Cursor /\ pass[p].cursor.id <= file[s].id
              /\ Sound(s, pass[p].cursor, events[s])
              /\ Doing(p, "commit") =>
                   /\ NextCursor(pass[p]) \in Cursor
                   /\ NextCursor(pass[p]).id <= file[s].id
                   /\ Sound(s, NextCursor(pass[p]), events[s] \cup pass[p].batch)
<1>1. /\ file[s] \in File /\ file[s].id \in Nat /\ cursor[s] \in Cursor /\ Len(file[s].text) \in Nat
      /\ cursor[s].id <= file[s].id /\ Sound(s, cursor[s], events[s])
  BY SourceFileType, LenProperties DEF Typed, TypeOK, File, SInv, CursorSound
<1>2. ASSUME NEW p \in Services, Visits(p, s)
      PROVE  /\ pass[p].cursor \in Cursor /\ pass[p].cursor.id <= file[s].id
             /\ Sound(s, pass[p].cursor, events[s])
             /\ Doing(p, "commit") =>
                  /\ NextCursor(pass[p]) \in Cursor
                  /\ NextCursor(pass[p]).id <= file[s].id
                  /\ Sound(s, NextCursor(pass[p]), events[s] \cup pass[p].batch)
  <2>1. /\ pass[p] \in Pass /\ pass[p].source = s /\ PassSound(pass[p]) /\ Loaded(pass[p])
    BY <1>2, PassType DEF Visits, SInv
  <2>2. NextCursor(pass[p]) \in Cursor /\ NextCursor(pass[p]).id = pass[p].id
    BY <2>1, NextCursorType DEF NextCursor
  <2> QED
    BY <2>1, <2>2 DEF PassSound, Pass, Doing
<1> QED
  BY <1>1, <1>2

(* A byte is added behind whatever covers the file; one that was cut is     *)
(* still shorter than its cursor, and nobody is reading it.                 *)
LEMMA WriteSound ==
  ASSUME Typed, SInv, NEW s \in Sources, NEW c \in Contents, Write(s, c)
  PROVE  SInv'
<1>0. PICK x \in Byte :
        LET new == Append(file[s].text, x) IN
        /\ file' = [file EXCEPT ![s] = [file[s] EXCEPT !.text = new]]
        /\ shadowed' = IF s \in cut /\ (Len(new) >= cursor[s].offset
                                         \/ \E p \in Services : InFlight(p, s))
                         THEN shadowed \cup {s} ELSE shadowed
        /\ UNCHANGED <<ledger, pass, cut>>
  BY WriteText
<1> DEFINE f == file[s]
           g == [f EXCEPT !.text = Append(f.text, x)]
<1>1. /\ file' = [file EXCEPT ![s] = g] /\ UNCHANGED <<ledger, pass, cut>>
      /\ shadowed' = IF s \in cut /\ (Len(f.text) + 1 >= cursor[s].offset
                                       \/ \E p \in Services : InFlight(p, s))
                       THEN shadowed \cup {s} ELSE shadowed
  <2>1. Len(Append(f.text, x)) = Len(f.text) + 1
    BY SourceFileType, AppendText
  <2> QED
    BY <1>0, <2>1
<1>2. f \in File /\ f.id \in Nat /\ Len(f.text) \in Nat /\ cursor[s] \in Cursor
  BY AtSource
<1>3. g.id = f.id /\ g.text = Append(f.text, x)
  BY <1>2 DEF File
<1>4. cursor[s].offset \in Nat
  BY <1>2 DEF Cursor
<1> HIDE DEF f, g
<1>5. ASSUME s \notin shadowed'
      PROVE  /\ s \notin shadowed
             /\ s \in cut => /\ cursor[s].offset > Len(f.text) + 1
                             /\ \A p \in Services : ~Visits(p, s)
  <2>1. s \notin shadowed
    BY <1>1, <1>5
  <2>2. ASSUME s \in cut
        PROVE  /\ ~(Len(f.text) + 1 >= cursor[s].offset)
               /\ \A p \in Services : ~InFlight(p, s)
    BY <1>1, <1>5, <2>2
  <2> QED
    BY <1>2, <1>4, <2>1, <2>2, VisitsInFlight
<1>6. ASSUME NEW k \in Cursor, NEW records, Sound(s, k, records), s \notin shadowed',
             s \in cut => k.offset > Len(f.text) + 1
      PROVE  Covered(g, k, records) /\ (s \notin cut' => Reached(g, k))
  <2>1. Covered(f, k, records) /\ (s \notin cut => Reached(f, k))
    BY <1>5, <1>6 DEF Sound, f
  <2> QED
    BY <1>1, <1>2, <1>3, <1>6, <2>1, GrowthCovers
<1>7. s \notin shadowed' =>
        Covered(g, cursor[s], events[s]) /\ (s \notin cut' => Reached(g, cursor[s]))
  BY <1>2, <1>5, <1>6, AtSource
<1>8. \A p \in Services : Visits(p, s) /\ s \notin shadowed' =>
        /\ Covered(g, pass[p].cursor, events[s])
        /\ s \notin cut' => Reached(g, pass[p].cursor)
        /\ Doing(p, "commit") =>
             /\ Covered(g, NextCursor(pass[p]), events[s] \cup pass[p].batch)
             /\ s \notin cut' => Reached(g, NextCursor(pass[p]))
  BY <1>5, <1>6, AtSource
<1>9. \A t \in Sources : t # s =>
        (t \in cut' <=> t \in cut) /\ (t \in shadowed' <=> t \in shadowed)
  BY <1>1
<1>10. g.id \in Nat /\ file[s].id <= g.id
  BY <1>2, <1>3 DEF f
<1> QED
  BY <1>1, <1>7, <1>8, <1>9, <1>10, FileSound

LEMMA TruncateSound ==
  ASSUME Typed, SInv, NEW s \in Sources, NEW n \in Nat, Truncate(s, n)
  PROVE  SInv'
<1> DEFINE f == file[s]
           g == [f EXCEPT !.text = SubSeq(f.text, 1, n)]
<1>1. /\ file' = [file EXCEPT ![s] = g] /\ UNCHANGED <<ledger, pass, shadowed>>
      /\ cut' = IF n < cursor[s].offset \/ \E p \in Services : InFlight(p, s)
                  THEN cut \cup {s} ELSE cut
      /\ n < Len(f.text)
  BY DEF Truncate, Typed, TypeOK
<1>2. f \in File /\ f.id \in Nat /\ Len(f.text) \in Nat /\ cursor[s] \in Cursor
  BY AtSource
<1>3. g.id = f.id /\ g.text = SubSeq(f.text, 1, n)
  BY <1>2 DEF File
<1>4. cursor[s].offset \in Nat
  BY <1>2 DEF Cursor
<1> HIDE DEF f, g
<1>5. ASSUME s \notin cut'
      PROVE  /\ cursor[s].offset <= n
             /\ \A p \in Services : ~Visits(p, s)
  <2>1. /\ ~(n < cursor[s].offset)
        /\ \A p \in Services : ~InFlight(p, s)
    BY <1>1, <1>5
  <2> QED
    BY <1>4, <2>1, VisitsInFlight
<1>6. ASSUME NEW c \in Cursor, NEW records, Sound(s, c, records), s \notin shadowed',
             s \notin cut' => c.offset <= n
      PROVE  Covered(g, c, records) /\ (s \notin cut' => Reached(g, c))
  <2>1. Covered(f, c, records)
    BY <1>1, <1>6 DEF Sound, f
  <2> QED
    BY <1>1, <1>2, <1>3, <1>6, <2>1, CutCovers
<1>7. s \notin shadowed' =>
        Covered(g, cursor[s], events[s]) /\ (s \notin cut' => Reached(g, cursor[s]))
  BY <1>2, <1>5, <1>6, AtSource
<1>8. \A p \in Services : Visits(p, s) /\ s \notin shadowed' =>
        /\ Covered(g, pass[p].cursor, events[s])
        /\ s \notin cut' => Reached(g, pass[p].cursor)
        /\ Doing(p, "commit") =>
             /\ Covered(g, NextCursor(pass[p]), events[s] \cup pass[p].batch)
             /\ s \notin cut' => Reached(g, NextCursor(pass[p]))
  BY <1>5, <1>6, AtSource
<1>9. \A t \in Sources : t # s =>
        (t \in cut' <=> t \in cut) /\ (t \in shadowed' <=> t \in shadowed)
  BY <1>1
<1>10. g.id \in Nat /\ file[s].id <= g.id
  BY <1>2, <1>3 DEF f
<1> QED
  BY <1>1, <1>7, <1>8, <1>9, <1>10, FileSound

(* No cursor is of a file that has just taken the path.                     *)
LEMMA ReplaceSound ==
  ASSUME Typed, SInv, NEW s \in Sources, NEW copied \in BOOLEAN, Replace(s, copied)
  PROVE  SInv'
<1> DEFINE f == file[s]
           new == IF copied THEN f.text ELSE <<>>
           g == [f EXCEPT !.id = @ + 1, !.text = new]
<1>1. /\ file' = [file EXCEPT ![s] = g] /\ UNCHANGED <<ledger, pass>>
      /\ cut' = cut \ {s} /\ shadowed' = shadowed \ {s}
  BY DEF Replace
<1>2. f \in File /\ f.id \in Nat /\ cursor[s] \in Cursor /\ cursor[s].id <= f.id
  BY AtSource
<1> HIDE DEF new
<1>3. g.id = f.id + 1
  BY <1>2 DEF File
<1> HIDE DEF g
<1>4. Covered(g, cursor[s], events[s]) /\ Reached(g, cursor[s])
  BY <1>2, <1>3, NewerCovers
<1>5. \A p \in Services : Visits(p, s) =>
        /\ Covered(g, pass[p].cursor, events[s]) /\ Reached(g, pass[p].cursor)
        /\ Doing(p, "commit") =>
             /\ Covered(g, NextCursor(pass[p]), events[s] \cup pass[p].batch)
             /\ Reached(g, NextCursor(pass[p]))
  BY <1>2, <1>3, AtSource, NewerCovers
<1>6. \A t \in Sources : t # s =>
        (t \in cut' <=> t \in cut) /\ (t \in shadowed' <=> t \in shadowed)
  BY <1>1
<1>7. g.id \in Nat /\ file[s].id <= g.id
  BY <1>2, <1>3
<1> QED
  BY <1>1, <1>4, <1>5, <1>6, <1>7, FileSound

(* A schema is nothing to a cursor.                                         *)
LEMMA SchemaSound ==
  ASSUME Typed, SInv, NEW s \in Sources, ChangeSchema(s)
  PROVE  SInv'
<1> DEFINE g == [file[s] EXCEPT !.reviewed = ~@]
<1>1. file' = [file EXCEPT ![s] = g]
  BY DEF ChangeSchema
<1>2. UNCHANGED <<ledger, pass, cut, shadowed>>
  BY DEF ChangeSchema, history
<1>3. file[s] \in File /\ file[s].id \in Nat
  BY AtSource
<1>4. g.id = file[s].id /\ g.text = file[s].text
  BY <1>3 DEF File
<1> HIDE DEF g
<1>5. \A c, records : Sound(s, c, records) /\ s \notin shadowed' =>
        Covered(g, c, records) /\ (s \notin cut' => Reached(g, c))
  BY <1>2, <1>4 DEF Sound, Covered, Reached
<1>6. s \notin shadowed' =>
        Covered(g, cursor[s], events[s]) /\ (s \notin cut' => Reached(g, cursor[s]))
  BY <1>5, AtSource
<1>7. \A p \in Services : Visits(p, s) /\ s \notin shadowed' =>
        /\ Covered(g, pass[p].cursor, events[s])
        /\ s \notin cut' => Reached(g, pass[p].cursor)
        /\ Doing(p, "commit") =>
             /\ Covered(g, NextCursor(pass[p]), events[s] \cup pass[p].batch)
             /\ s \notin cut' => Reached(g, NextCursor(pass[p]))
  BY <1>5, AtSource
<1>8. g.id \in Nat /\ file[s].id <= g.id
  BY <1>3, <1>4
<1>9. \A t \in Sources : t # s =>
        (t \in cut' <=> t \in cut) /\ (t \in shadowed' <=> t \in shadowed)
  BY <1>2
<1> QED
  BY <1>1, <1>2, <1>6, <1>7, <1>8, <1>9, FileSound

----------------------------------------------------------------------------
LEMMA SInvInit == Init => SInv
<1> SUFFICES ASSUME Init PROVE SInv
  OBVIOUS
<1>1. \A s \in Sources : cursor[s].id = 0 /\ file[s].id = 1
  BY DEF Init, Start
<1>2. \A s \in Sources : CursorSound(s)
  BY <1>1 DEF CursorSound, Sound, Covered, Reached
<1>3. \A p \in Services : pass[p].step = "idle"
  <2>1. pass = [p \in Services |-> Idle]
    BY Zenon DEF Init
  <2>2. \A p \in Services : pass[p] = Idle
    BY <2>1, Zenon
  <2>3. ASSUME NEW p \in Services PROVE pass[p].step = "idle"
    <3>1. pass[p] = Idle /\ Idle.step = "idle"
      BY <2>2, IdleType
    <3> QED
      BY <3>1
  <2> QED
    BY <2>3, Zenon
<1> QED
  BY <1>2, <1>3 DEF SInv, PassSound, Loaded

LEMMA SInvNext == Inv /\ SInv /\ [Next]_vars => SInv'
<1> SUFFICES ASSUME Typed, SInv, [Next]_vars PROVE SInv'
  BY DEF Inv
<1>1. ASSUME NEW p \in Services, Read(p) PROVE SInv'
  BY <1>1, ReadSound
<1>2. ASSUME NEW p \in Services, Commit(p) PROVE SInv'
  BY <1>2, CommitSound
<1>3. ASSUME NEW p \in Services,
             \/ StartPass(p) \/ LoadCursor(p) \/ CompareSchema(p) \/ Inspect(p) \/ Recheck(p)
             \/ Identify(p) \/ SourceFails(p) \/ PassFails(p)
      PROVE  SInv'
  BY <1>3, EarlyStepsSound
<1>4. ASSUME NEW s \in Sources, NEW c \in Contents, Write(s, c) PROVE SInv'
  BY <1>4, WriteSound
<1>5. ASSUME NEW s \in Sources, ChangeSchema(s) PROVE SInv'
  BY <1>5, SchemaSound
<1>6. ASSUME NEW s \in Sources, NEW copied \in BOOLEAN, Replace(s, copied) PROVE SInv'
  BY <1>6, ReplaceSound
<1>7. ASSUME NEW s \in Sources, NEW n \in 0..MaxBytes, Truncate(s, n) PROVE SInv'
  <2>1. n \in Nat
    BY BoundsAssumption
  <2> QED
    BY <1>7, <2>1, TruncateSound
<1>8. CASE UNCHANGED vars
  <2>1. UNCHANGED <<file, events, cursor, pass, cut, shadowed>>
    BY <1>8 DEF vars, ledger, history
  <2>2. \A s \in Sources : CursorSound(s)'
    BY <2>1 DEF SInv, CursorSound, Sound
  <2>3. ASSUME NEW p \in Services
        PROVE  PassSound(pass[p])'
    <3> DEFINE r == pass[p]
    <3>1. PassSound(r) /\ r' = r
      BY <2>1 DEF SInv
    <3>2. NextCursor(r)' = NextCursor(r) /\ r.batch' = r.batch
      BY <3>1 DEF NextCursor, StartOffset, Rotated
    <3> HIDE DEF r
    <3>3. PassSound(r)'
      BY <2>1, <3>1, <3>2 DEF PassSound, Loaded, Sound
    <3> QED
      BY <3>3 DEF r
  <2> QED
    BY <2>2, <2>3 DEF SInv
<1> QED
  BY <1>1, <1>2, <1>3, <1>4, <1>5, <1>6, <1>7, <1>8 DEF Next, Proceeds, AgentNext

(* A committed cursor passes no record that is not in the ledger, for any   *)
(* number of services that read and commit while the agents write, replace  *)
(* and cut the files, and wherever they fail.                               *)
THEOREM NothingSkipped == Spec => []NoRecordSkipped
<1>1. SInv => NoRecordSkipped
  BY DEF SInv, CursorSound, Sound, Covered, NoRecordSkipped, Covers
<1>2. Spec => []SInv
  BY SInvInit, SInvNext, Invariant, PTL DEF Spec
<1> QED
  BY <1>1, <1>2, PTL
----------------------------------------------------------------------------
(* Only lines become events.  What a read makes of a file depends on where  *)
(* it begins; Placed is what is true of every offset that is stored, loaded *)
(* or about to be stored for the file now at the path.                      *)

Placed(s, o) ==
  \/ Boundary(file[s].text, o)
  \/ o \in shifted[s]
  \/ o > Len(file[s].text) /\ s \in cut

OnlyLines(s, records) ==
  records \subseteq written[s] \cup [offset : shifted[s], content : {Torn}]

PassPlaced(r) ==
  Loaded(r) =>
    /\ r.cursor.id = file[r.source].id => Placed(r.source, r.cursor.offset)
    /\ r.step = "read" /\ r.id # file[r.source].id => r.cursor.offset \in shifted[r.source]
    /\ r.step = "commit" =>
         /\ r.id = file[r.source].id => Placed(r.source, r.end)
         /\ OnlyLines(r.source, r.batch)

TInv ==
  /\ \A s \in Sources : cursor[s].id = file[s].id => Placed(s, cursor[s].offset)
  /\ \A p \in Services : PassPlaced(pass[p])
  /\ \A s \in Sources : OnlyLines(s, events[s])

(* A step of a pass: what it becomes is all there is to look at.            *)
LEMMA PassStepPlaced ==
  ASSUME Typed, TInv, NEW p \in Services, NEW r, Becomes(p, r), PassPlaced(r),
         UNCHANGED <<file, events, cursor, written, cut, shifted>>
  PROVE  TInv'
<1>1. \A q \in Services : pass'[q] = IF q = p THEN r ELSE pass[q]
  BY DEF Becomes, Typed, TypeOK
<1>2. \A q \in Services : PassPlaced(pass'[q])
  BY <1>1 DEF TInv
<1>3. \A q \in Services : PassPlaced(pass[q])'
  BY <1>2 DEF PassPlaced, Loaded, Placed, OnlyLines
<1> QED
  BY <1>3 DEF TInv, Placed, OnlyLines

LEMMA NextSourcePlaced ==
  ASSUME Typed, TInv, NEW p \in Services, pass[p].step # "idle", NextSource(p),
         UNCHANGED <<file, events, cursor, written, cut, shifted>>
  PROVE  TInv'
<1>1. PICK r \in Pass : Becomes(p, r) /\ r.step \in {"idle", "load"}
  BY NextSourceBecomes
<1>2. PassPlaced(r)
  BY <1>1 DEF PassPlaced, Loaded
<1> QED
  BY <1>1, <1>2, PassStepPlaced

LEMMA EarlyStepsPlaced ==
  ASSUME Typed, TInv, NEW p \in Services,
         \/ StartPass(p) \/ LoadCursor(p) \/ CompareSchema(p) \/ Inspect(p) \/ Recheck(p)
         \/ Identify(p) \/ SourceFails(p) \/ PassFails(p)
  PROVE  TInv'
<1> DEFINE r == pass[p]
           s == r.source
<1>1. UNCHANGED <<file, events, cursor, written, cut, shifted>>
  BY DEF StartPass, LoadCursor, CompareSchema, Inspect, Recheck, Identify, SourceFails,
         PassFails, ledger, history
<1>2. r \in Pass /\ (r.step # "idle" => s \in Sources) /\ PassPlaced(r)
  BY PassType DEF TInv
<1>3. CASE pass[p].step # "idle" /\ NextSource(p)
  BY <1>1, <1>3, NextSourcePlaced
<1>4. CASE StartPass(p)
  <2>1. Becomes(p, At("load", 1)) /\ PassPlaced(At("load", 1))
    BY <1>4, AtType DEF StartPass, At, PassPlaced, Loaded
  <2> QED
    BY <1>1, <2>1, PassStepPlaced
<1>5. CASE LoadCursor(p)
  <2> DEFINE n == [r EXCEPT !.step = "fingerprint", !.cursor = cursor[s]]
  <2>1. Becomes(p, n) /\ s \in Sources
    BY <1>2, <1>5 DEF LoadCursor, Doing
  <2>2. n.step = "fingerprint" /\ n.cursor = cursor[s] /\ n.source = s
    BY <1>2 DEF Pass
  <2> HIDE DEF n, s
  <2>3. PassPlaced(n)
    BY <2>1, <2>2 DEF PassPlaced, TInv
  <2> QED
    BY <1>1, <2>1, <2>3, PassStepPlaced
<1>6. ASSUME NEW n, Becomes(p, n), n.cursor = r.cursor, n.source = s,
             n.step \in {"inspect", "identify"}, r.step \in {"fingerprint", "inspect"}
      PROVE  TInv'
  <2> HIDE DEF r, s
  <2>1. PassPlaced(n)
    BY <1>2, <1>6 DEF PassPlaced, Loaded, s
  <2> QED
    BY <1>1, <1>6, <2>1, PassStepPlaced
<1>7. CASE CompareSchema(p)
  <2> DEFINE n == [r EXCEPT !.step = "inspect"]
  <2>1. /\ r.step = "fingerprint"
        /\ n.step = "inspect" /\ n.cursor = r.cursor /\ n.source = s
    BY <1>2, <1>7 DEF CompareSchema, Doing, Pass
  <2>2. CASE Becomes(p, n)
    <3> HIDE DEF n
    <3> QED
      BY <1>6, <2>1, <2>2
  <2> QED
    BY <1>3, <1>7, <2>1, <2>2 DEF CompareSchema
<1>8. CASE Inspect(p)
  <2> DEFINE n == [r EXCEPT !.step = "identify", !.size = Len(file[s].text)]
  <2>1. /\ r.step = "inspect" /\ Becomes(p, n)
        /\ n.step = "identify" /\ n.cursor = r.cursor /\ n.source = s
    BY <1>2, <1>8 DEF Inspect, Doing, Pass
  <2> HIDE DEF n
  <2> QED
    BY <1>6, <2>1
<1>9. CASE Recheck(p)
  <2> DEFINE n == [r EXCEPT !.step = "identify"]
  <2>1. /\ r.step = "inspect"
        /\ n.step = "identify" /\ n.cursor = r.cursor /\ n.source = s
    BY <1>2, <1>9 DEF Recheck, Doing, Pass
  <2>2. CASE Becomes(p, n)
    <3> HIDE DEF n
    <3> QED
      BY <1>6, <2>1, <2>2
  <2> QED
    BY <1>3, <1>9, <2>1, <2>2 DEF Recheck
<1>10. CASE Identify(p)
  <2> DEFINE n == [r EXCEPT !.step = "read", !.id = file[s].id]
  <2>1. Becomes(p, n) /\ r.step = "identify"
    BY <1>10 DEF Identify, Doing
  <2>2. n.step = "read" /\ n.cursor = r.cursor /\ n.source = s /\ n.id = file[s].id
    BY <1>2 DEF Pass
  <2> HIDE DEF n, r, s
  <2>3. PassPlaced(n)
    BY <1>2, <2>1, <2>2 DEF PassPlaced, Loaded, s
  <2> QED
    BY <1>1, <2>1, <2>3, PassStepPlaced
<1>11. CASE SourceFails(p)
  BY <1>3, <1>11 DEF SourceFails
<1>12. CASE PassFails(p)
  <2>1. Becomes(p, Idle) /\ PassPlaced(Idle)
    BY <1>12, IdleType DEF PassFails, PassPlaced, Loaded
  <2> QED
    BY <1>1, <2>1, PassStepPlaced
<1> QED
  BY <1>4, <1>5, <1>7, <1>8, <1>9, <1>10, <1>11, <1>12

(* A read that does not begin at a boundary begins where a file changed     *)
(* under the pass, or beyond the end of the file and finds nothing.         *)
LEMMA ReadPlaced ==
  ASSUME Typed, LinesWritten, SInv, TInv, NEW p \in Services, Read(p)
  PROVE  TInv'
<1> DEFINE r == pass[p]
           s == r.source
           text == file[s].text
           start == StartOffset(r)
           ends == Readable(s, start)
<1>1. /\ r \in Pass /\ s \in Sources /\ r.step = "read" /\ r.id > 0 /\ start \in Nat
      /\ PassPlaced(r) /\ PassSound(r) /\ Loaded(r)
      /\ UNCHANGED <<file, events, cursor, written, cut, shifted>>
  BY ReadLeaves, ReadBecomes DEF TInv, SInv, Loaded, ledger, history
<1>2. CASE NextSource(p)
  BY <1>1, <1>2, NextSourcePlaced
<1>3. CASE ~NextSource(p)
  <2>1. PICK end \in {start} \cup ends :
          \E n \in Pass :
            /\ Becomes(p, n)
            /\ n.step = "commit" /\ n.source = s /\ n.cursor = r.cursor /\ n.id = r.id
            /\ n.end = end /\ n.batch = RecordsRead(text, start, ends)
    BY <1>3, ReadBecomes
  <2>2. PICK n \in Pass :
          /\ Becomes(p, n)
          /\ n.step = "commit" /\ n.source = s /\ n.cursor = r.cursor /\ n.id = r.id
          /\ n.end = end /\ n.batch = RecordsRead(text, start, ends)
    BY <2>1
  <2>3. Placed(s, start)
    <3>1. CASE start = 0
      BY <3>1 DEF Placed, Boundary
    <3>2. CASE start # 0
      <4>1. start = r.cursor.offset /\ r.cursor.id = r.id
        BY <1>1, <3>2 DEF StartOffset, Rotated, PassSound
      <4> QED
        BY <1>1, <4>1 DEF PassPlaced, Placed
    <3> QED
      BY <3>1, <3>2
  <2>4. OnlyLines(s, n.batch)
    <3>1. /\ n.batch \subseteq Lines(s) \cup {[offset |-> start, content |-> Torn]}
          /\ Boundary(text, start) => n.batch \subseteq Lines(s)
      BY <1>1, <2>2, ReadPieces
    <3>2. Lines(s) \subseteq written[s]
      BY <1>1 DEF LinesWritten
    <3>3. CASE Boundary(text, start)
      BY <3>1, <3>2, <3>3 DEF OnlyLines
    <3>4. CASE start \in shifted[s]
      BY <3>1, <3>2, <3>4 DEF OnlyLines
    <3>5. CASE start > Len(text)
      <4>1. ends = {}
        BY <1>1, <3>5, SourceFileType, EndsType DEF Readable
      <4>2. n.batch = {}
        BY <2>2, <4>1 DEF RecordsRead, Pieces
      <4> QED
        BY <4>2 DEF OnlyLines
    <3> QED
      BY <2>3, <3>3, <3>4, <3>5 DEF Placed
  <2>5. Placed(s, end)
    <3>1. end \in ends => Boundary(text, end)
      BY DEF Readable, Boundary
    <3> QED
      BY <2>1, <2>3, <3>1 DEF Placed
  <2> HIDE DEF r, s, start, ends
  <2>6. PassPlaced(n)
    BY <1>1, <2>2, <2>4, <2>5 DEF PassPlaced, Loaded, s
  <2> QED
    BY <1>1, <2>2, <2>6, PassStepPlaced
<1> QED
  BY <1>2, <1>3

(* The commit may settle a truncation; it then leaves the cursor at a       *)
(* boundary, and nobody else is at the source.                              *)
LEMMA CommitPlaced ==
  ASSUME Typed, TInv, NEW p \in Services, Commit(p)
  PROVE  TInv'
<1> DEFINE r == pass[p]
           s == r.source
           next == NextCursor(r)
<1>1. /\ r \in Pass /\ s \in Sources /\ r.step = "commit"
      /\ r.id = file[s].id => Placed(s, r.end)
      /\ OnlyLines(s, r.batch)
  BY PassType DEF Commit, Doing, TInv, PassPlaced, Loaded
<1>2. /\ events' = [events EXCEPT ![s] = @ \cup r.batch]
      /\ cursor' = [cursor EXCEPT ![s] = next]
      /\ UNCHANGED <<file, written, shifted>>
      /\ cut' = IF Settled(p) THEN cut \ {s} ELSE cut
  BY DEF Commit, SettlesCut, Settled
<1>3. /\ events'[s] = events[s] \cup r.batch /\ cursor'[s] = next
      /\ \A t \in Sources : t # s => events'[t] = events[t] /\ cursor'[t] = cursor[t]
  BY <1>1, <1>2 DEF Typed, TypeOK
<1>4. PICK new \in Pass : Becomes(p, new) /\ new.step \in {"idle", "load"}
  BY <1>1, NextSourceBecomes DEF Commit
<1>5. \A q \in Services : pass'[q] = IF q = p THEN new ELSE pass[q]
  BY <1>4 DEF Becomes, Typed, TypeOK
<1>6. \A t \in Sources : \A o : t # s /\ Placed(t, o) => Placed(t, o)'
  BY <1>2 DEF Placed
<1>7. \A t \in Sources : \A o : ~Settled(p) /\ Placed(t, o) => Placed(t, o)'
  BY <1>2 DEF Placed
<1>8. \A t \in Sources : OnlyLines(t, events[t])'
  BY <1>1, <1>2, <1>3 DEF TInv, OnlyLines
<1>9. \A t \in Sources : (cursor[t].id = file[t].id => Placed(t, cursor[t].offset))'
  <2> TAKE t \in Sources
  <2>1. CASE t # s
    BY <1>2, <1>3, <1>6, <2>1 DEF TInv, Placed
  <2>2. CASE t = s /\ Settled(p)
    <3>1. Boundary(file[s].text, r.end)
      BY <2>2 DEF Settled
    <3> QED
      BY <1>2, <1>3, <2>2, <3>1 DEF NextCursor, Placed
  <2>3. CASE t = s /\ ~Settled(p)
    BY <1>1, <1>2, <1>3, <1>7, <2>3 DEF NextCursor, Placed
  <2> QED
    BY <2>1, <2>2, <2>3
<1> HIDE DEF r, s, next
<1>10. \A q \in Services : PassPlaced(pass[q])'
  <2> TAKE q \in Services
  <2>1. CASE q = p
    BY <1>4, <1>5, <2>1 DEF PassPlaced, Loaded
  <2>2. CASE q # p
    <3> DEFINE x == pass[q]
               t == x.source
    <3>1. x' = x /\ PassPlaced(x) /\ (x.step # "idle" => t \in Sources)
      BY <1>5, <2>2, PassType DEF TInv
    <3>2. t = s => ~Settled(p)
      BY <2>2 DEF Settled, s, r
    <3> HIDE DEF x
    <3>3. Loaded(x) => \A o : Placed(t, o) => Placed(t, o)'
      BY <1>6, <1>7, <3>1, <3>2 DEF Loaded, Placed
    <3>4. PassPlaced(x)'
      BY <1>2, <3>1, <3>3 DEF PassPlaced, Loaded, Placed, OnlyLines
    <3> QED
      BY <3>4 DEF x
  <2> QED
    BY <2>1, <2>2
<1> QED
  BY <1>8, <1>9, <1>10 DEF TInv

(* A file grows or is cut: it is still the same file, and every offset that *)
(* somebody is at stays placed.                                             *)
LEMMA FilePlaced ==
  ASSUME Typed, TInv, NEW s \in Sources, NEW g, file' = [file EXCEPT ![s] = g],
         g.id = file[s].id, UNCHANGED <<events, cursor, pass>>,
         \A t \in Sources : written[t] \subseteq written'[t] /\ shifted[t] \subseteq shifted'[t],
         \A t \in Sources : t # s => (t \in cut' <=> t \in cut),
         \A o \in OffsetsAt(s) : Placed(s, o) => Placed(s, o)'
  PROVE  TInv'
<1>1. file \in [Sources -> File]
  BY DEF Typed, TypeOK
<1>2. \A t \in Sources : file'[t].id = file[t].id /\ (t # s => file'[t] = file[t])
  BY <1>1
<1>3. \A t \in Sources : \A o : t # s /\ Placed(t, o) => Placed(t, o)'
  BY <1>2 DEF Placed
<1>4. \A t \in Sources : OnlyLines(t, events[t])'
  <2> TAKE t \in Sources
  <2>1. OnlyLines(t, events[t])
    BY DEF TInv
  <2> QED
    BY <2>1 DEF OnlyLines
<1>5. \A t \in Sources : (cursor[t].id = file[t].id => Placed(t, cursor[t].offset))'
  <2> TAKE t \in Sources
  <2>1. cursor[t].id = file[t].id => Placed(t, cursor[t].offset)
    BY DEF TInv
  <2>2. t = s => cursor[t].offset \in OffsetsAt(s)
    BY DEF OffsetsAt
  <2>3. cursor[t].id = file[t].id => Placed(t, cursor[t].offset)'
    <3>1. Placed(t, cursor[t].offset) => Placed(t, cursor[t].offset)'
      BY <1>3, <2>2 DEF Placed
    <3> QED
      BY <2>1, <3>1
  <2> QED
    BY <1>2, <2>3
<1>6. \A q \in Services : PassPlaced(pass[q])'
  <2> TAKE q \in Services
  <2> DEFINE x == pass[q]
             t == x.source
  <2>1. x' = x /\ PassPlaced(x) /\ (x.step # "idle" => t \in Sources)
    BY PassType DEF TInv
  <2>2. t = s /\ Loaded(x) => x.cursor.offset \in OffsetsAt(s) /\ x.end \in OffsetsAt(s)
    BY DEF OffsetsAt, InFlight, Loaded, Doing
  <2>3. Loaded(x) /\ Placed(t, x.cursor.offset) => Placed(t, x.cursor.offset)'
    BY <1>3, <2>1, <2>2 DEF Loaded, Placed
  <2>4. Loaded(x) /\ Placed(t, x.end) => Placed(t, x.end)'
    BY <1>3, <2>1, <2>2 DEF Loaded, Placed
  <2>5. Loaded(x) /\ OnlyLines(t, x.batch) => OnlyLines(t, x.batch)'
    BY <2>1 DEF Loaded, OnlyLines
  <2>6. Loaded(x) => file'[t].id = file[t].id /\ shifted[t] \subseteq shifted'[t]
    BY <1>2, <2>1 DEF Loaded
  <2> HIDE DEF x
  <2>7. PassPlaced(x)'
    BY <2>1, <2>3, <2>4, <2>5, <2>6 DEF PassPlaced, Loaded
  <2> QED
    BY <2>7 DEF x
<1> QED
  BY <1>4, <1>5, <1>6 DEF TInv

(* A file that was cut may grow to an offset beyond its end: somebody who   *)
(* is at that offset finds it shifted.                                      *)
LEMMA WritePlaced ==
  ASSUME Typed, LinesWritten, TInv, NEW s \in Sources, NEW c \in Contents, Write(s, c)
  PROVE  TInv'
<1>1. PICK x \in Byte :
        LET new == Append(file[s].text, x)
            hidden == s \in cut /\ (Len(new) >= cursor[s].offset
                                     \/ \E p \in Services : InFlight(p, s))
        IN
        /\ file' = [file EXCEPT ![s] = [file[s] EXCEPT !.text = new]]
        /\ written' = [written EXCEPT ![s] = @ \cup LinesUpTo(new, Len(new))]
        /\ shifted' = IF hidden THEN [shifted EXCEPT ![s] = @ \cup OffsetsAt(s)] ELSE shifted
        /\ UNCHANGED <<ledger, pass, cut>>
  BY WriteText
<1> DEFINE text == file[s].text
           new == Append(text, x)
           g == [file[s] EXCEPT !.text = new]
           hidden == s \in cut /\ (Len(new) >= cursor[s].offset
                                    \/ \E p \in Services : InFlight(p, s))
<1>2. /\ text \in Seq(Byte) /\ Len(text) \in Nat /\ file \in [Sources -> File]
      /\ written \in [Sources -> SUBSET Record] /\ shifted \in [Sources -> SUBSET Nat]
  BY SourceFileType, LenProperties DEF Typed, TypeOK
<1>3. /\ Len(new) = Len(text) + 1
      /\ \A n \in Nat : Boundary(text, n) => Boundary(new, n)
  BY <1>2, AppendText
<1>4. g.id = file[s].id /\ g.text = new
  <2>1. file[s] \in File
    BY <1>2
  <2> HIDE DEF new
  <2> QED
    BY <2>1 DEF File
<1>5. /\ file' = [file EXCEPT ![s] = g] /\ UNCHANGED <<events, cursor, pass, cut>>
      /\ shifted' = IF hidden THEN [shifted EXCEPT ![s] = @ \cup OffsetsAt(s)] ELSE shifted
  BY <1>1 DEF ledger
<1>6. \A t \in Sources : written[t] \subseteq written'[t]
  BY <1>1, <1>2
<1>7. /\ \A t \in Sources : shifted[t] \subseteq shifted'[t]
      /\ hidden => OffsetsAt(s) \subseteq shifted'[s]
  BY <1>2, <1>5
<1>8. file'[s].text = new
  BY <1>2, <1>4, <1>5
<1> HIDE DEF g, new
<1>9. ASSUME NEW o \in OffsetsAt(s), Placed(s, o)
      PROVE  Placed(s, o)'
  <2>1. o \in Nat
    BY OffsetsType
  <2>2. CASE Boundary(text, o)
    BY <1>3, <1>8, <2>1, <2>2 DEF Placed
  <2>3. CASE o \in shifted[s]
    BY <1>7, <2>3 DEF Placed
  <2>4. CASE o > Len(text) /\ s \in cut
    <3>1. CASE o > Len(new)
      BY <1>5, <1>8, <2>4, <3>1 DEF Placed
    <3>2. CASE ~(o > Len(new))
      <4>1. hidden
        <5>1. o = cursor[s].offset \/ \E p \in Services : InFlight(p, s)
          BY DEF OffsetsAt
        <5> QED
          BY <1>2, <1>3, <2>1, <2>4, <3>2, <5>1
      <4> QED
        BY <1>7, <4>1 DEF Placed
    <3> QED
      BY <3>1, <3>2
  <2> QED
    BY <1>9, <2>2, <2>3, <2>4 DEF Placed
<1> QED
  BY <1>4, <1>5, <1>6, <1>7, <1>9, FilePlaced

LEMMA TruncatePlaced ==
  ASSUME Typed, TInv, NEW s \in Sources, NEW n \in Nat, Truncate(s, n)
  PROVE  TInv'
<1> DEFINE text == file[s].text
           new == SubSeq(text, 1, n)
           g == [file[s] EXCEPT !.text = new]
<1>1. /\ text \in Seq(Byte) /\ Len(text) \in Nat /\ file \in [Sources -> File]
  BY SourceFileType, LenProperties DEF Typed, TypeOK
<1>2. /\ file' = [file EXCEPT ![s] = g] /\ n < Len(text)
      /\ UNCHANGED <<ledger, pass, written, shifted>>
      /\ cut' = IF n < cursor[s].offset \/ \E p \in Services : InFlight(p, s)
                  THEN cut \cup {s} ELSE cut
  BY <1>1 DEF Truncate
<1>3. /\ Len(new) = n
      /\ \A m \in Nat : m <= n => (Boundary(new, m) <=> Boundary(text, m))
  BY <1>1, <1>2, CutText
<1> HIDE DEF new
<1>4. g.id = file[s].id /\ g.text = new
  <2>1. file[s] \in File
    BY <1>1
  <2> QED
    BY <2>1 DEF File
<1> HIDE DEF g
<1>5. file'[s].text = new
  BY <1>1, <1>2, <1>4
<1>6. ASSUME NEW o \in OffsetsAt(s), Placed(s, o)
      PROVE  Placed(s, o)'
  <2>1. o \in Nat
    BY OffsetsType
  <2>2. CASE o <= n
    BY <1>1, <1>2, <1>3, <1>5, <1>6, <2>1, <2>2 DEF Placed
  <2>3. CASE ~(o <= n)
    <3>1. o = cursor[s].offset \/ \E p \in Services : InFlight(p, s)
      BY DEF OffsetsAt
    <3>2. s \in cut'
      BY <1>2, <2>1, <2>3, <3>1
    <3> QED
      BY <1>3, <1>5, <2>1, <2>3, <3>2 DEF Placed
  <2> QED
    BY <2>2, <2>3
<1>7. UNCHANGED <<events, cursor, pass>> /\ \A t \in Sources : t # s => (t \in cut' <=> t \in cut)
  BY <1>2 DEF ledger
<1> QED
  BY <1>2, <1>4, <1>6, <1>7, FilePlaced

(* No cursor is of a file that has just taken the path, and a pass that has *)
(* identified the one before finds its offset shifted.                      *)
LEMMA ReplacePlaced ==
  ASSUME Typed, SInv, TInv, NEW s \in Sources, NEW copied \in BOOLEAN, Replace(s, copied)
  PROVE  TInv'
<1> DEFINE reading == {p \in Services : Doing(p, "read") /\ pass[p].source = s}
           offsets == {pass[p].cursor.offset : p \in reading}
<1>1. /\ UNCHANGED <<events, cursor, pass, written>>
      /\ shifted' = [shifted EXCEPT ![s] = @ \cup offsets]
      /\ cut' = cut \ {s}
  BY DEF Replace, ledger
<1>2. shifted'[s] = shifted[s] \cup offsets /\ \A t \in Sources : t # s => shifted'[t] = shifted[t]
  BY <1>1 DEF Typed, TypeOK
<1>3. /\ file'[s].id = file[s].id + 1
      /\ \A t \in Sources : t # s => file'[t] = file[t]
  BY DEF Replace, Typed, TypeOK, File
<1> HIDE DEF offsets
<1>4. \A t \in Sources : \A o : t # s /\ Placed(t, o) => Placed(t, o)'
  BY <1>1, <1>2, <1>3 DEF Placed
<1>5. \A t \in Sources : OnlyLines(t, events[t])'
  <2> TAKE t \in Sources
  <2>1. OnlyLines(t, events[t]) /\ shifted[t] \subseteq shifted'[t]
    BY <1>2 DEF TInv
  <2> QED
    BY <1>1, <2>1 DEF OnlyLines
<1>6. \A t \in Sources : (cursor[t].id = file[t].id => Placed(t, cursor[t].offset))'
  <2> TAKE t \in Sources
  <2>1. CASE t = s
    <3>1. cursor[s].id # file'[s].id
      BY <1>3, AtSource DEF Cursor
    <3> QED
      BY <1>1, <2>1, <3>1
  <2>2. CASE t # s
    BY <1>1, <1>3, <1>4, <2>2 DEF TInv, Placed
  <2> QED
    BY <2>1, <2>2
<1>7. \A q \in Services : PassPlaced(pass[q])'
  <2> TAKE q \in Services
  <2> DEFINE x == pass[q]
             t == x.source
  <2>1. x' = x /\ PassPlaced(x) /\ PassSound(x) /\ (x.step # "idle" => t \in Sources) /\ x \in Pass
    BY <1>1, PassType DEF TInv, SInv
  <2>2. Loaded(x) /\ OnlyLines(t, x.batch) => OnlyLines(t, x.batch)'
    BY <1>1, <1>2, <2>1 DEF Loaded, OnlyLines
  <2>3. CASE ~Loaded(x)
    BY <1>1, <2>3 DEF PassPlaced, Loaded
  <2>4. CASE Loaded(x) /\ t # s
    <3>1. \A o : Placed(t, o) => Placed(t, o)'
      BY <1>4, <2>1, <2>4 DEF Loaded, Placed
    <3>2. file'[t] = file[t] /\ shifted'[t] = shifted[t]
      BY <1>2, <1>3, <2>1, <2>4 DEF Loaded
    <3> HIDE DEF x
    <3>3. PassPlaced(x)'
      BY <2>1, <2>2, <2>4, <3>1, <3>2 DEF PassPlaced, Loaded, Placed
    <3> QED
      BY <3>3 DEF x
  <2>5. CASE Loaded(x) /\ t = s
    <3>1. /\ x.cursor.id # file'[s].id
          /\ x.step = "commit" => x.id # file'[s].id
      BY <1>3, <2>1, <2>5, AtSource DEF PassSound, Pass, Cursor
    <3>2. x.step = "read" => x.cursor.offset \in shifted'[s]
      BY <1>2, <2>5 DEF offsets, Doing
    <3>3. x.step = "commit" => OnlyLines(s, x.batch)'
      BY <2>1, <2>2, <2>5 DEF PassPlaced
    <3> HIDE DEF x
    <3>4. PassPlaced(x)'
      BY <2>1, <2>5, <3>1, <3>2, <3>3 DEF PassPlaced, OnlyLines
    <3> QED
      BY <3>4 DEF x
  <2> QED
    BY <2>3, <2>4, <2>5
<1> QED
  BY <1>5, <1>6, <1>7 DEF TInv

LEMMA SchemaPlaced ==
  ASSUME Typed, TInv, NEW s \in Sources, ChangeSchema(s)
  PROVE  TInv'
<1> DEFINE g == [file[s] EXCEPT !.reviewed = ~@]
<1>1. file' = [file EXCEPT ![s] = g] /\ UNCHANGED <<events, cursor, pass, written, cut, shifted>>
  BY DEF ChangeSchema, ledger, history
<1>2. file[s] \in File /\ file \in [Sources -> File]
  BY DEF Typed, TypeOK
<1>3. g.id = file[s].id /\ g.text = file[s].text
  BY <1>2 DEF File
<1> HIDE DEF g
<1>4. file'[s].text = file[s].text
  BY <1>1, <1>2, <1>3
<1>5. \A o \in OffsetsAt(s) : Placed(s, o) => Placed(s, o)'
  BY <1>1, <1>4 DEF Placed
<1> QED
  BY <1>1, <1>3, <1>5, FilePlaced

LEMMA TInvInit == Init => TInv
<1> SUFFICES ASSUME Init PROVE TInv
  OBVIOUS
<1>1. \A s \in Sources : cursor[s].id = 0 /\ file[s].id = 1 /\ events[s] = {}
  BY DEF Init, Start
<1>2. \A p \in Services : pass[p].step = "idle"
  <2>1. pass = [p \in Services |-> Idle]
    BY Zenon DEF Init
  <2>2. \A p \in Services : pass[p] = Idle
    BY <2>1, Zenon
  <2>3. ASSUME NEW p \in Services PROVE pass[p].step = "idle"
    <3>1. pass[p] = Idle /\ Idle.step = "idle"
      BY <2>2, IdleType
    <3> QED
      BY <3>1
  <2> QED
    BY <2>3, Zenon
<1> QED
  BY <1>1, <1>2 DEF TInv, PassPlaced, Loaded, OnlyLines

LEMMA TInvNext == Inv /\ SInv /\ TInv /\ [Next]_vars => TInv'
<1> SUFFICES ASSUME Typed, LinesWritten, SInv, TInv, [Next]_vars PROVE TInv'
  BY DEF Inv
<1>1. ASSUME NEW p \in Services, Read(p) PROVE TInv'
  BY <1>1, ReadPlaced
<1>2. ASSUME NEW p \in Services, Commit(p) PROVE TInv'
  BY <1>2, CommitPlaced
<1>3. ASSUME NEW p \in Services,
             \/ StartPass(p) \/ LoadCursor(p) \/ CompareSchema(p) \/ Inspect(p) \/ Recheck(p)
             \/ Identify(p) \/ SourceFails(p) \/ PassFails(p)
      PROVE  TInv'
  BY <1>3, EarlyStepsPlaced
<1>4. ASSUME NEW s \in Sources, NEW c \in Contents, Write(s, c) PROVE TInv'
  BY <1>4, WritePlaced
<1>5. ASSUME NEW s \in Sources, ChangeSchema(s) PROVE TInv'
  BY <1>5, SchemaPlaced
<1>6. ASSUME NEW s \in Sources, NEW copied \in BOOLEAN, Replace(s, copied) PROVE TInv'
  BY <1>6, ReplacePlaced
<1>7. ASSUME NEW s \in Sources, NEW n \in 0..MaxBytes, Truncate(s, n) PROVE TInv'
  <2>1. n \in Nat
    BY BoundsAssumption
  <2> QED
    BY <1>7, <2>1, TruncatePlaced
<1>8. CASE UNCHANGED vars
  <2>1. UNCHANGED <<file, events, cursor, pass, written, cut, shifted>>
    BY <1>8 DEF vars, ledger, history
  <2>2. \A p \in Services : PassPlaced(pass[p])'
    BY <2>1 DEF TInv, PassPlaced, Loaded, Placed, OnlyLines
  <2> QED
    BY <2>1, <2>2 DEF TInv, Placed, OnlyLines
<1> QED
  BY <1>1, <1>2, <1>3, <1>4, <1>5, <1>6, <1>7, <1>8 DEF Next, Proceeds, AgentNext

(* Only lines become events, for any number of services that read while the *)
(* agents write, cut and replace the files, but for the first record that   *)
(* is read where a file changed under a pass: no other record is torn.      *)
THEOREM EventsComplete == Spec => []NoTornRecord
<1>1. TInv => NoTornRecord
  BY DEF TInv, OnlyLines, NoTornRecord
<1>2. Spec => []TInv
  BY InvInit, InvNext, SInvInit, SInvNext, TInvInit, TInvNext, PTL DEF Spec
<1> QED
  BY <1>1, <1>2, PTL
----------------------------------------------------------------------------
(* One service at a time.                                                   *)
(*                                                                          *)
(* Losses, drifts and the cursor's way forward are promises about services  *)
(* that do not run beside each other.  As long as none did, the visit of a  *)
(* pass is the only one there is: the cursor it loaded is the committed     *)
(* one, and from the comparison of the schema on no drift is active.        *)

Solo == \A p, q \in Services : pass[p] # Idle /\ pass[q] # Idle => p = q

VisitSound(r, c, d) ==
  Loaded(r) => /\ r.cursor = c[r.source]
               /\ r.step # "fingerprint" => d[r.source] = NoDrift
               /\ r.step = "commit" => StartOffset(r) <= r.end

(* Only a file that some cursor was of has lost records.                    *)
LostHadCursor == \A s \in Sources : lost[s] # {} => cursor[s].id # 0

AloneInv ==
  /\ LostHadCursor
  /\ ~overlap => /\ Solo
                 /\ \A p \in Services : VisitSound(pass[p], cursor, drift)
  /\ DriftHoldsCursor
  /\ LossRecorded

(* A pass that moves on, alone: what it becomes is all there is to look at. *)
LEMMA SoloBecomes ==
  ASSUME Typed, AloneInv, ~overlap, NEW p \in Services, pass[p] # Idle,
         NEW r \in Pass, Becomes(p, r), VisitSound(r, cursor', drift')
  PROVE  Solo' /\ \A q \in Services : VisitSound(pass'[q], cursor', drift')
<1>1. pass \in [Services -> Pass] /\ Solo
  BY DEF Typed, TypeOK, AloneInv
<1>2. \A q \in Services \ {p} : pass'[q] = Idle
  BY <1>1 DEF Solo, Becomes
<1>3. pass'[p] = r
  BY <1>1 DEF Becomes
<1> QED
  BY <1>2, <1>3, IdleType DEF Solo, VisitSound, Loaded

(* Steps that commit nothing, record no drift and change no file.           *)
LEMMA QuietStepAlone ==
  ASSUME Typed, AloneInv, NEW p \in Services, pass[p] # Idle, NEW r \in Pass, Becomes(p, r),
         UNCHANGED <<file, gaps, cursor, drift, lost, overlap>>,
         ~overlap => VisitSound(r, cursor, drift)
  PROVE  AloneInv'
<1>1. ~overlap => Solo' /\ \A q \in Services : VisitSound(pass'[q], cursor', drift')
  BY SoloBecomes
<1> QED
  BY <1>1 DEF AloneInv, LostHadCursor, DriftHoldsCursor, LossRecorded

LEMMA SkipAlone ==
  ASSUME Typed, AloneInv, NEW p \in Services, pass[p].step # "idle", NextSource(p),
         UNCHANGED <<file, gaps, cursor, drift, lost, overlap>>
  PROVE  AloneInv'
<1>1. PICK r \in Pass : Becomes(p, r) /\ r.step \in {"idle", "load"}
  BY NextSourceBecomes
<1>2. VisitSound(r, cursor, drift) /\ pass[p] # Idle
  BY <1>1, IdleType DEF VisitSound, Loaded
<1> QED
  BY <1>1, <1>2, QuietStepAlone

(* The schema is compared: no drift is active from there on.                *)
LEMMA CompareAlone ==
  ASSUME Typed, AloneInv, NEW p \in Services, CompareSchema(p)
  PROVE  AloneInv'
<1> DEFINE s == pass[p].source
           r == [pass[p] EXCEPT !.step = "inspect"]
<1>1. /\ pass[p] \in Pass /\ pass[p].step = "fingerprint" /\ s \in Sources /\ pass[p] # Idle
      /\ UNCHANGED <<file, gaps, cursor, lost, overlap>>
  BY PassType, IdleType DEF CompareSchema, Doing, history
<1>2. CASE NextSource(p) /\ UNCHANGED drift
  BY <1>1, <1>2, SkipAlone
<1>3. CASE Becomes(p, r) /\ drift' = [drift EXCEPT ![s] = NoDrift]
  <2>1. /\ r \in Pass /\ r.step = "inspect" /\ r.source = s /\ r.cursor = pass[p].cursor
        /\ drift \in [Sources -> Cursor \cup {NoDrift}]
    BY <1>1 DEF Pass, Steps, Typed, TypeOK
  <2>2. ~overlap => VisitSound(r, cursor', drift')
    BY <1>1, <1>3, <2>1 DEF AloneInv, VisitSound, Loaded
  <2> HIDE DEF r, s
  <2>3. ~overlap => Solo' /\ \A q \in Services : VisitSound(pass'[q], cursor', drift')
    BY <1>1, <1>3, <2>1, <2>2, SoloBecomes
  <2>4. \A t \in Sources : drift'[t] \in {NoDrift, drift[t]}
    BY <1>1, <1>3, <2>1
  <2>5. DriftHoldsCursor'
    BY <1>1, <2>4 DEF AloneInv, DriftHoldsCursor
  <2> QED
    BY <1>1, <2>3, <2>5 DEF AloneInv, LostHadCursor, LossRecorded
<1> QED
  BY <1>2, <1>3 DEF CompareSchema

(* The schema has changed since: the drift keeps the committed cursor.      *)
LEMMA RecheckAlone ==
  ASSUME Typed, AloneInv, NEW p \in Services, Recheck(p)
  PROVE  AloneInv'
<1> DEFINE s == pass[p].source
           r == [pass[p] EXCEPT !.step = "identify"]
<1>1. /\ pass[p] \in Pass /\ pass[p].step = "inspect" /\ s \in Sources /\ pass[p] # Idle
      /\ UNCHANGED <<file, gaps, cursor, lost, overlap>>
  BY PassType, IdleType DEF Recheck, Doing, history
<1>2. ~overlap => pass[p].cursor = cursor[s] /\ drift[s] = NoDrift
  BY <1>1 DEF AloneInv, VisitSound, Loaded
<1>3. CASE Becomes(p, r) /\ UNCHANGED drift
  <2>1. r \in Pass /\ r.step = "identify" /\ r.source = s /\ r.cursor = pass[p].cursor
    BY <1>1 DEF Pass, Steps
  <2>2. ~overlap => VisitSound(r, cursor, drift)
    BY <1>2, <2>1 DEF VisitSound
  <2> HIDE DEF r
  <2> QED
    BY <1>1, <1>3, <2>1, <2>2, QuietStepAlone
<1>4. CASE NextSource(p) /\ drift' = [drift EXCEPT ![s] = pass[p].cursor]
  <2>1. PICK n \in Pass : Becomes(p, n) /\ n.step \in {"idle", "load"}
    BY <1>1, <1>4, NextSourceBecomes
  <2>2. VisitSound(n, cursor', drift')
    BY <2>1 DEF VisitSound, Loaded
  <2>3. ~overlap => Solo' /\ \A q \in Services : VisitSound(pass'[q], cursor', drift')
    BY <1>1, <2>1, <2>2, SoloBecomes
  <2>4. DriftHoldsCursor'
    BY <1>1, <1>2, <1>4 DEF AloneInv, DriftHoldsCursor, Typed, TypeOK
  <2> QED
    BY <1>1, <2>3, <2>4 DEF AloneInv, LostHadCursor, LossRecorded
<1> QED
  BY <1>3, <1>4 DEF Recheck

(* A commit of a batch of another file than the cursor's records the gap,   *)
(* so that whatever was lost between the two files is spanned by it.        *)
LEMMA CommitAlone ==
  ASSUME Typed, AloneInv, NEW p \in Services, Commit(p)
  PROVE  AloneInv'
<1> DEFINE r == pass[p]
           s == pass[p].source
<1>1. /\ r \in Pass /\ r.step = "commit" /\ s \in Sources /\ r # Idle
      /\ r.id \in Nat /\ r.id > 0 /\ r.cursor.id \in Nat
  BY PassType, IdleType DEF Commit, Doing, Typed, IdsPositive, Pass, Cursor
<1>2. /\ gaps' = [gaps EXCEPT ![s] = GapsAfter(s, r)]
      /\ cursor' = [cursor EXCEPT ![s] = NextCursor(r)]
      /\ NextSource(p) /\ UNCHANGED <<file, drift, lost, overlap>>
  BY DEF Commit
<1>3. cursor'[s].id = r.id /\ \A t \in Sources \ {s} : cursor'[t] = cursor[t] /\ gaps'[t] = gaps[t]
  BY <1>1, <1>2 DEF NextCursor, Typed, TypeOK
<1>4. gaps'[s] = GapsAfter(s, r)
  BY <1>1, <1>2 DEF Typed, TypeOK
<1>5. ~overlap => r.cursor = cursor[s] /\ drift[s] = NoDrift
  BY <1>1 DEF AloneInv, VisitSound, Loaded
<1>6. LostHadCursor'
  BY <1>1, <1>2, <1>3 DEF AloneInv, LostHadCursor
<1>7. ~overlap => Solo' /\ \A q \in Services : VisitSound(pass'[q], cursor', drift')
  <2>1. PICK n \in Pass : Becomes(p, n) /\ n.step \in {"idle", "load"}
    BY <1>1, <1>2, NextSourceBecomes
  <2> QED
    BY <1>1, <2>1, SoloBecomes DEF VisitSound, Loaded
<1>8. DriftHoldsCursor'
  BY <1>2, <1>3, <1>5 DEF AloneInv, DriftHoldsCursor
<1> HIDE DEF r, s
<1>9. LossRecorded'
  <2> SUFFICES ASSUME ~overlap, NEW t \in Sources, NEW l \in lost[t]
               PROVE  \/ \E g \in gaps'[t] : g.from <= l.id /\ l.id < g.to
                      \/ cursor'[t].id <= l.id /\ l.id < file[t].id
    BY <1>2 DEF LossRecorded
  <2>1. \/ \E g \in gaps[t] : g.from <= l.id /\ l.id < g.to
        \/ cursor[t].id <= l.id /\ l.id < file[t].id
    BY DEF AloneInv, LossRecorded
  <2>2. CASE t # s
    BY <1>3, <2>1, <2>2
  <2>3. CASE t = s /\ \E g \in gaps[t] : g.from <= l.id /\ l.id < g.to
    BY <1>4, <2>3 DEF GapsAfter
  <2>4. CASE t = s /\ cursor[t].id <= l.id /\ l.id < file[t].id
    <3>1. cursor[s].id # 0 /\ l.id \in Nat
      BY <2>4 DEF AloneInv, LostHadCursor, Typed, TypeOK
    <3>2. CASE r.id <= l.id
      BY <1>3, <2>4, <3>2
    <3>3. CASE ~(r.id <= l.id)
      <4>1. r.cursor = cursor[s] /\ l.id < r.id
        BY <1>1, <1>5, <3>1, <3>3
      <4>2. Rotated(r)
        BY <2>4, <3>1, <4>1, <1>1 DEF Rotated
      <4>3. [from |-> r.cursor.id, to |-> r.id] \in gaps'[t]
        BY <1>4, <2>4, <4>2 DEF GapsAfter
      <4> QED
        BY <2>4, <4>1, <4>3
    <3> QED
      BY <3>2, <3>3
  <2> QED
    BY <2>1, <2>2, <2>3, <2>4
<1> QED
  BY <1>2, <1>6, <1>7, <1>8, <1>9 DEF AloneInv

LEMMA PassAlone ==
  ASSUME Typed, AloneInv, NEW p \in Services,
         Proceeds(p) \/ SourceFails(p) \/ PassFails(p)
  PROVE  AloneInv'
<1>1. pass[p] \in Pass /\ (pass[p].step # "idle" => pass[p].source \in Sources /\ pass[p] # Idle)
  BY PassType, IdleType
<1>2. CASE StartPass(p)
  <2>1. At("load", 1) \in Pass /\ At("load", 1).step = "load"
    BY AtType DEF Steps
  <2>2. UNCHANGED <<file, gaps, cursor, drift, lost>>
    BY <1>2 DEF StartPass, ledger
  <2>3. ~overlap' => ~overlap /\ \A q \in Services : pass[q] = Idle
    BY <1>2 DEF StartPass
  <2>4. pass' = [pass EXCEPT ![p] = At("load", 1)] /\ pass \in [Services -> Pass]
    BY <1>2 DEF StartPass, Becomes, Typed, TypeOK
  <2>5. ~overlap' => Solo' /\ \A q \in Services : VisitSound(pass'[q], cursor', drift')
    BY <2>1, <2>3, <2>4, IdleType DEF Solo, VisitSound, Loaded
  <2> QED
    BY <2>2, <2>3, <2>5 DEF AloneInv, LostHadCursor, DriftHoldsCursor, LossRecorded
<1>3. CASE LoadCursor(p)
  <2> DEFINE r == [pass[p] EXCEPT !.step = "fingerprint", !.cursor = cursor[pass[p].source]]
  <2>1. /\ r \in Pass /\ Becomes(p, r) /\ pass[p] # Idle
        /\ VisitSound(r, cursor, drift)
    BY <1>1, <1>3 DEF LoadCursor, Doing, Pass, Steps, Typed, TypeOK, VisitSound
  <2> HIDE DEF r
  <2> QED
    BY <1>3, <2>1, QuietStepAlone DEF LoadCursor, ledger, history
<1>4. CASE CompareSchema(p)
  BY <1>4, CompareAlone
<1>5. CASE Inspect(p)
  <2> DEFINE r == [pass[p] EXCEPT !.step = "identify", !.size = Len(file[pass[p].source].text)]
  <2>1. pass[p].step = "inspect" /\ Len(file[pass[p].source].text) \in Nat
    BY <1>1, <1>5, SourceFileType, LenProperties DEF Inspect, Doing
  <2>2. /\ r \in Pass /\ Becomes(p, r) /\ pass[p] # Idle
        /\ ~overlap => VisitSound(r, cursor, drift)
    BY <1>1, <1>5, <2>1 DEF Inspect, Pass, Steps, AloneInv, VisitSound, Loaded
  <2> HIDE DEF r
  <2> QED
    BY <1>5, <2>2, QuietStepAlone DEF Inspect, ledger, history
<1>6. CASE Recheck(p)
  BY <1>6, RecheckAlone
<1>7. CASE Identify(p)
  <2> DEFINE r == [pass[p] EXCEPT !.step = "read", !.id = file[pass[p].source].id]
  <2>1. pass[p].step = "identify" /\ file[pass[p].source].id \in Nat
    BY <1>1, <1>7, SourceFileType DEF Identify, Doing, File
  <2>2. /\ r \in Pass /\ Becomes(p, r) /\ pass[p] # Idle
        /\ ~overlap => VisitSound(r, cursor, drift)
    BY <1>1, <1>7, <2>1 DEF Identify, Pass, Steps, AloneInv, VisitSound, Loaded
  <2> HIDE DEF r
  <2> QED
    BY <1>7, <2>2, QuietStepAlone DEF Identify, ledger, history
<1>8. CASE Read(p)
  <2>1. UNCHANGED <<file, gaps, cursor, drift, lost, overlap>> /\ pass[p].step = "read"
    BY <1>8, ReadLeaves DEF ledger, history
  <2>2. CASE NextSource(p)
    BY <2>1, <2>2, SkipAlone
  <2>3. CASE ~NextSource(p)
    <3> DEFINE start == StartOffset(pass[p])
    <3>1. PICK end \in {start} \cup Readable(pass[p].source, start) :
            \E n \in Pass :
              /\ Becomes(p, n)
              /\ n.step = "commit" /\ n.source = pass[p].source /\ n.cursor = pass[p].cursor
              /\ n.id = pass[p].id /\ n.size = pass[p].size /\ n.end = end
      BY <1>8, <2>3, ReadBecomes
    <3>2. PICK n \in Pass :
            /\ Becomes(p, n)
            /\ n.step = "commit" /\ n.source = pass[p].source /\ n.cursor = pass[p].cursor
            /\ n.id = pass[p].id /\ n.size = pass[p].size /\ n.end = end
      BY <3>1
    <3>3. start <= end /\ StartOffset(n) = start
      BY <1>1, <2>1, <3>2, StartOffsetType, ReadableType DEF StartOffset, Rotated
    <3>4. ~overlap => VisitSound(n, cursor, drift)
      BY <2>1, <3>2, <3>3 DEF AloneInv, VisitSound, Loaded
    <3> QED
      BY <1>1, <2>1, <3>2, <3>4, QuietStepAlone
  <2> QED
    BY <2>2, <2>3
<1>9. CASE Commit(p)
  BY <1>9, CommitAlone
<1>10. CASE SourceFails(p)
  BY <1>10, SkipAlone DEF SourceFails, ledger, history
<1>11. CASE PassFails(p)
  <2>1. Idle \in Pass /\ VisitSound(Idle, cursor, drift)
    BY IdleType DEF VisitSound, Loaded
  <2> QED
    BY <1>11, <2>1, QuietStepAlone DEF PassFails, ledger, history
<1> QED
  BY <1>2, <1>3, <1>4, <1>5, <1>6, <1>7, <1>8, <1>9, <1>10, <1>11 DEF Proceeds

(* What agents do: records are lost to a file that is newer than any cursor. *)
LEMMA AgentAlone ==
  ASSUME Typed, SInv, AloneInv, AgentNext
  PROVE  AloneInv'
<1>1. UNCHANGED <<ledger, pass, overlap>>
  BY AgentLeaves
<1>2. ASSUME NEW s \in Sources, NEW copied \in BOOLEAN, Replace(s, copied)
      PROVE  LostHadCursor' /\ LossRecorded'
  <2>1. /\ file[s].id \in Nat /\ cursor[s].id \in Nat /\ cursor[s].id <= file[s].id
        /\ \A t \in Sources : \A l \in lost[t] : l.id \in Nat
    BY DEF Typed, TypeOK, File, Cursor, SInv, CursorSound
  <2>2. /\ file'[s].id = file[s].id + 1
        /\ \A t \in Sources \ {s} : file'[t] = file[t] /\ lost'[t] = lost[t]
    BY <1>2 DEF Replace, Typed, TypeOK, File
  <2>3. \A l \in lost'[s] : l \in lost[s] \/ (l.id = file[s].id /\ cursor[s].id # 0)
    BY <1>2 DEF Replace, Typed, TypeOK
  <2>4. LostHadCursor'
    BY <1>1, <2>2, <2>3 DEF AloneInv, LostHadCursor, ledger
  <2>5. LossRecorded'
    <3> SUFFICES ASSUME ~overlap, NEW t \in Sources, NEW l \in lost'[t]
                 PROVE  \/ \E g \in gaps[t] : g.from <= l.id /\ l.id < g.to
                        \/ cursor[t].id <= l.id /\ l.id < file'[t].id
      BY <1>1 DEF LossRecorded, ledger
    <3>1. CASE l \in lost[t]
      BY <2>1, <2>2, <3>1 DEF AloneInv, LossRecorded
    <3>2. CASE l \notin lost[t]
      <4>1. t = s /\ l.id = file[s].id
        BY <2>2, <2>3, <3>2
      <4> QED
        BY <2>1, <2>2, <4>1
    <3> QED
      BY <3>1, <3>2
  <2> QED
    BY <2>4, <2>5
<1>3. ASSUME UNCHANGED lost, \A s \in Sources : file'[s].id = file[s].id
      PROVE  LostHadCursor' /\ LossRecorded'
  BY <1>1, <1>3 DEF AloneInv, LostHadCursor, LossRecorded, ledger
<1>4. ASSUME NEW s \in Sources, NEW f, f.id = file[s].id, file' = [file EXCEPT ![s] = f]
      PROVE  \A t \in Sources : file'[t].id = file[t].id
  BY <1>4 DEF Typed, TypeOK
<1>5. ASSUME NEW s \in Sources,
             \/ \E c \in Contents : Write(s, c)
             \/ \E n \in 0..MaxBytes : Truncate(s, n)
             \/ ChangeSchema(s)
      PROVE  UNCHANGED lost /\ \A t \in Sources : file'[t].id = file[t].id
  <2>1. file[s] \in File /\ file \in [Sources -> File]
    BY DEF Typed, TypeOK
  <2>2. UNCHANGED lost
    BY <1>5, WriteLeaves DEF Truncate, ChangeSchema, history
  <2>3. \/ \E text : file' = [file EXCEPT ![s] = [file[s] EXCEPT !.text = text]]
        \/ \E reviewed : file' = [file EXCEPT ![s] = [file[s] EXCEPT !.reviewed = reviewed]]
    BY <1>5, <2>1, WriteText DEF Truncate, ChangeSchema
  <2>4. \E g : g.id = file[s].id /\ file' = [file EXCEPT ![s] = g]
    <3>1. ASSUME NEW text, file' = [file EXCEPT ![s] = [file[s] EXCEPT !.text = text]]
          PROVE  \E g : g.id = file[s].id /\ file' = [file EXCEPT ![s] = g]
      <4> DEFINE g == [file[s] EXCEPT !.text = text]
      <4>1. g.id = file[s].id
        BY <2>1 DEF File
      <4> QED
        BY <3>1, <4>1
    <3>2. ASSUME NEW reviewed,
                 file' = [file EXCEPT ![s] = [file[s] EXCEPT !.reviewed = reviewed]]
          PROVE  \E g : g.id = file[s].id /\ file' = [file EXCEPT ![s] = g]
      <4> DEFINE g == [file[s] EXCEPT !.reviewed = reviewed]
      <4>1. g.id = file[s].id
        BY <2>1 DEF File
      <4> QED
        BY <3>2, <4>1
    <3> QED
      BY <2>3, <3>1, <3>2
  <2> QED
    BY <1>4, <2>2, <2>4
<1>6. LostHadCursor' /\ LossRecorded'
  BY <1>2, <1>3, <1>5 DEF AgentNext
<1> QED
  BY <1>1, <1>6 DEF AloneInv, Solo, DriftHoldsCursor, ledger

LEMMA AloneInit == Init => AloneInv
<1> SUFFICES ASSUME Init PROVE AloneInv
  OBVIOUS
<1>1. \A p \in Services : pass[p] = Idle
  <2>1. pass = [p \in Services |-> Idle]
    BY Zenon DEF Init
  <2> QED
    BY <2>1, Zenon
<1>2. \A s \in Sources : lost[s] = {} /\ drift[s] = NoDrift
  BY DEF Init
<1> QED
  BY <1>1, <1>2, IdleType
     DEF AloneInv, LostHadCursor, Solo, VisitSound, Loaded, DriftHoldsCursor, LossRecorded

LEMMA AloneNext == Inv /\ SInv /\ AloneInv /\ [Next]_vars => AloneInv'
<1> SUFFICES ASSUME Typed, SInv, AloneInv, [Next]_vars PROVE AloneInv'
  BY DEF Inv
<1>1. CASE UNCHANGED vars
  BY <1>1 DEF vars, ledger, history, AloneInv, LostHadCursor, Solo, DriftHoldsCursor,
              LossRecorded
<1> QED
  BY <1>1, PassAlone, AgentAlone DEF Next

LEMMA AloneInvariant == Spec => [](Inv /\ SInv /\ AloneInv)
BY InvInit, InvNext, SInvInit, SInvNext, AloneInit, AloneNext, PTL DEF Spec

(* Records that were replaced before they were captured are spanned by a    *)
(* gap on record, or the next pass will record one, as long as no two       *)
(* services ever captured at the same time, wherever passes fail.           *)
THEOREM LossesOnRecord == Spec => []LossRecorded
<1>1. AloneInv => LossRecorded
  BY DEF AloneInv
<1> QED
  BY <1>1, AloneInvariant, PTL

(* While a schema drift is active, no commit moves the cursor of its source *)
(* and the one kept for the recovery is the committed one, through any      *)
(* number of drifts and rollbacks.                                          *)
THEOREM DriftsHoldCursors == Spec => []DriftHoldsCursor
<1>1. AloneInv => DriftHoldsCursor
  BY DEF AloneInv
<1> QED
  BY <1>1, AloneInvariant, PTL

(* Only a commit writes a cursor, and it goes back within a file only when  *)
(* the file was found shorter than the cursor: a rotation on record.        *)
LEMMA BackOnRecord ==
  ASSUME Typed, AloneInv, ~overlap, [Next]_vars, NEW s \in Sources
  PROVE  GoesBackOnRecord(s)
<1>1. ASSUME cursor' = cursor PROVE GoesBackOnRecord(s)
  <2>1. cursor[s].offset \in Nat
    BY DEF Typed, TypeOK, Cursor
  <2> QED
    BY <1>1, <2>1 DEF GoesBackOnRecord
<1>2. ASSUME NEW p \in Services, Commit(p) PROVE GoesBackOnRecord(s)
  <2> DEFINE r == pass[p]
             t == pass[p].source
  <2>1. /\ r \in Pass /\ r.step = "commit" /\ t \in Sources
        /\ r.cursor \in Cursor /\ r.end \in Nat
    BY <1>2, PassType DEF Commit, Doing, Pass
  <2>2. r.cursor = cursor[t] /\ StartOffset(r) <= r.end
    BY <2>1 DEF AloneInv, VisitSound, Loaded
  <2>3. /\ gaps' = [gaps EXCEPT ![t] = GapsAfter(t, r)]
        /\ cursor' = [cursor EXCEPT ![t] = NextCursor(r)]
    BY <1>2 DEF Commit
  <2> HIDE DEF r, t
  <2>4. CASE s # t
    <3>1. cursor'[s] = cursor[s] /\ cursor[s].offset \in Nat
      BY <2>3, <2>4 DEF Typed, TypeOK, Cursor
    <3> QED
      BY <3>1 DEF GoesBackOnRecord
  <2>5. CASE s = t
    <3>1. cursor'[s] = NextCursor(r) /\ gaps'[s] = GapsAfter(s, r)
      BY <2>1, <2>3, <2>5 DEF Typed, TypeOK
    <3>2. CASE Rotated(r)
      BY <2>2, <2>5, <3>1, <3>2 DEF GoesBackOnRecord, NextCursor, GapsAfter
    <3>3. CASE ~Rotated(r)
      <4>1. r.end \in Nat /\ r.cursor.offset \in Nat
        BY <2>1 DEF Cursor
      <4>2. /\ cursor'[s].offset \in Nat /\ cursor[s].offset \in Nat
            /\ cursor[s].offset <= cursor'[s].offset
        BY <2>2, <2>5, <3>1, <3>3, <4>1 DEF NextCursor, StartOffset
      <4> QED
        BY <4>2 DEF GoesBackOnRecord
    <3> QED
      BY <3>2, <3>3
  <2> QED
    BY <2>4, <2>5
<1>3. ASSUME NEW p \in Services,
             \/ StartPass(p) \/ LoadCursor(p) \/ CompareSchema(p) \/ Inspect(p) \/ Recheck(p)
             \/ Identify(p) \/ Read(p) \/ SourceFails(p) \/ PassFails(p)
      PROVE  cursor' = cursor
  BY <1>3, ReadLeaves DEF StartPass, LoadCursor, CompareSchema, Inspect, Recheck, Identify,
                          SourceFails, PassFails, ledger
<1>4. CASE AgentNext \/ UNCHANGED vars
  BY <1>1, <1>4, AgentLeaves DEF vars, ledger
<1> QED
  BY <1>1, <1>2, <1>3, <1>4 DEF Next, Proceeds

(* The committed cursor of a file is monotonic, except over a gap on        *)
(* record, for any sequence of passes, failures, cuts and replacements.     *)
THEOREM CursorForward == Spec => CursorMonotonic
<1>1. Inv /\ SInv /\ AloneInv /\ [Next]_vars
        => [~overlap => \A s \in Sources : GoesBackOnRecord(s)]_vars
  BY BackOnRecord DEF Inv
<1> QED
  BY <1>1, AloneInvariant, PTL DEF Spec, CursorMonotonic
=============================================================================
