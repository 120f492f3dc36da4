------------------------------- MODULE Capture -------------------------------
(***************************************************************************)
(* Capture of the agents' transcripts into one project's ledger:           *)
(* CaptureSupervisor::capture_once (crates/brain-service/src/capture.rs),  *)
(* the readers it calls (jsonl.rs and hermes.rs of crates/brain-adapters)  *)
(* and EventLedger::append_batch (crates/brain-store/src/ledger.rs).       *)
(*                                                                         *)
(* A pass visits the sources in order: it loads the committed cursor,      *)
(* compares the schema with the reviewed one, inspects the file, takes its *)
(* identity, opens and reads it, and commits what it read together with    *)
(* the new cursor.  The agent appends to the file, replaces it or cuts it  *)
(* between any two of these steps.  A service that runs beside another one *)
(* makes passes of its own.                                                *)
(*                                                                         *)
(* A file is its bytes, and sizes, cursors and offsets count them.  Of a   *)
(* byte is kept the content of the line it is of and how many bytes of the *)
(* line are left after it: none after the newline.  Lines of different     *)
(* contents differ in width, so that an offset that ended a line of one    *)
(* file may lie inside a line of the next; a row of a database is one byte *)
(* wide, for its cursor is the identifier of the row.  Identities of files *)
(* are numbered as the files appear.  What the pass enqueues is in         *)
(* JobEnqueue; whether a pass is made at all under disk pressure is in     *)
(* Pressure.                                                               *)
(***************************************************************************)
EXTENDS Integers, Sequences

CONSTANTS
  Services,       \* service processes
  Sources,        \* the bindings, 1..n in the order of a pass
  Jsonl,          \* the sources that are JSON Lines files, not SQLite databases
  Contents,       \* contents of a record
  Malformed,      \* the content of a line that is no JSON
  Width,          \* bytes of a line of each content, its newline among them
  Torn,           \* what a reader makes of a piece of a line
  MaxRows,        \* MAX_ROWS_PER_BATCH of a SQLite source
  MaxBytes,       \* bound: bytes of a file
  MaxIdentity,    \* bound: files at a source's path, one after the other
  MaxCuts,        \* bound: truncations in place
  MaxSchemas,     \* bound: schema changes
  MaxFailures     \* bound: failed reads, failed statements and crashes

ASSUME SourcesAssumption == 1 \in Sources /\ Sources \subseteq Nat \ {0} /\ Jsonl \subseteq Sources
ASSUME ContentsAssumption == Torn \notin Contents /\ Width \in [Contents -> Nat \ {0}]
ASSUME RowsAssumption == MaxRows \in Nat \ {0}
ASSUME BoundsAssumption ==
  /\ MaxBytes \in Nat /\ MaxIdentity \in Nat /\ MaxCuts \in Nat
  /\ MaxSchemas \in Nat /\ MaxFailures \in Nat

VARIABLES
  file,        \* the file at each source's path
  events,      \* events of each source, by what their idempotency key is made of
  quarantine,  \* how many rows of quarantine each offset has
  gaps,        \* capture_gaps
  cursor,      \* source_cursors
  drift,       \* the cursor kept in the active schema_drifts row, or NoDrift
  pass,        \* what each service is in the middle of
  bounds,      \* bound: cuts, schema changes and failures so far
  written,     \* history: records that were ever complete in the file
  cut,         \* history: sources whose file was truncated under a cursor
  shadowed,    \* history: and then grew beyond it before a pass looked
  shifted,     \* history: the offsets where a pass may then read another file's bytes
  lost,        \* history: records replaced before they were captured
  overlap      \* history: two services were making passes at the same time

ledger == <<events, quarantine, gaps, cursor, drift>>
history == <<written, cut, shadowed, shifted, lost, overlap>>
vars == <<file, ledger, pass, bounds, history>>

----------------------------------------------------------------------------
(* Types.                                                                  *)

(* Identity 0 is a cursor that no pass has written.                         *)
Cursor == [id : Nat, offset : Nat]

NoDrift == [id |-> 0, offset |-> -1]

Byte == [of : Contents, left : Nat]

File == [id : Nat, text : Seq(Byte), reviewed : BOOLEAN]

(* A record is what was read from an offset on, to the next newline.        *)
Record == [offset : Nat, content : Contents \cup {Torn}]

Steps == {"load", "fingerprint", "inspect", "identify", "read", "commit"}

(* A pass at one source: the cursor it loaded, the size and the identity it *)
(* found, the records it read and where the last of them ended.             *)
Pass == [step : Steps \cup {"idle"}, source : Nat, cursor : Cursor, size : Nat,
         id : Nat, batch : SUBSET Record, end : Nat]

Start == [id |-> 0, offset |-> 0]

At(step, s) ==
  [step |-> step, source |-> s, cursor |-> Start, size |-> 0, id |-> 0, batch |-> {},
   end |-> 0]

Idle == At("idle", 0)

TypeOK ==
  /\ file \in [Sources -> File]
  /\ events \in [Sources -> SUBSET Record]
  /\ quarantine \in [Sources -> [0..MaxBytes -> Nat]]
  /\ gaps \in [Sources -> SUBSET [from : Nat, to : Nat]]
  /\ cursor \in [Sources -> Cursor]
  /\ \A s \in Sources : cursor[s].id = 0 => cursor[s] = Start
  /\ drift \in [Sources -> Cursor \cup {NoDrift}]
  /\ pass \in [Services -> Pass]
  /\ \A p \in Services : pass[p].step # "idle" => pass[p].source \in Sources
  /\ bounds \in [cuts : Nat, schemas : Nat, failures : Nat]
  /\ written \in [Sources -> SUBSET Record]
  /\ cut \subseteq Sources /\ shadowed \subseteq Sources
  /\ shifted \in [Sources -> SUBSET Nat]
  /\ lost \in [Sources -> SUBSET [id : Nat, offset : Nat]] /\ overlap \in BOOLEAN

----------------------------------------------------------------------------
(* Texts: sequences of bytes.                                              *)

(* The places of the newlines.                                              *)
Ends(t) == {i \in DOMAIN t : t[i].left = 0}

Boundary(t, n) == n = 0 \/ n \in Ends(t)

(* The stretches that ends make of what follows offset start.               *)
Pieces(start, ends) ==
  {x \in ({start} \cup ends) \X ends :
     x[1] < x[2] /\ \A e \in ends : ~(x[1] < e /\ e < x[2])}

(* A piece between two boundaries is a line, any other is torn.             *)
PieceAt(t, a, b) ==
  [offset |-> a, content |-> IF Boundary(t, a) /\ Boundary(t, b) THEN t[b].of ELSE Torn]

RecordsRead(t, start, ends) == {PieceAt(t, x[1], x[2]) : x \in Pieces(start, ends)}

(* The complete lines of a text that end within its first n bytes.          *)
LinesUpTo(t, n) == RecordsRead(t, 0, {e \in Ends(t) : e <= n})

Lines(s) == LinesUpTo(file[s].text, Len(file[s].text))

----------------------------------------------------------------------------
(* A pass.                                                                 *)

Doing(p, step) == pass[p].step = step

Becomes(p, r) == pass' = [pass EXCEPT ![p] = r]

(* The pass goes on with the next binding, or is over.                      *)
NextSource(p) ==
  LET s == pass[p].source IN
  Becomes(p, IF s + 1 \in Sources THEN At("load", s + 1) ELSE Idle)

StartPass(p) ==
  /\ pass[p] = Idle
  /\ Becomes(p, At("load", 1))
  /\ overlap' = (overlap \/ \E q \in Services : pass[q] # Idle)
  /\ UNCHANGED <<file, ledger, bounds, written, cut, shadowed, shifted, lost>>

LoadCursor(p) ==
  /\ Doing(p, "load")
  /\ Becomes(p, [pass[p] EXCEPT !.step = "fingerprint", !.cursor = cursor[pass[p].source]])
  /\ UNCHANGED <<file, ledger, bounds, history>>

\* Mutant: a drift is not looked up.
CompareSchemaAlways(p) ==
  /\ Doing(p, "fingerprint")
  /\ Becomes(p, [pass[p] EXCEPT !.step = "inspect"])
  /\ UNCHANGED <<file, ledger, bounds, history>>

\* Mutant: an active drift is never resolved.
CompareSchemaNeverResolved(p) ==
  LET s == pass[p].source IN
  /\ Doing(p, "fingerprint")
  /\ IF drift[s] # NoDrift
       THEN NextSource(p)
       ELSE Becomes(p, [pass[p] EXCEPT !.step = "inspect"])
  /\ UNCHANGED <<file, ledger, bounds, history>>

(* The fingerprint, and the drift that is active for the source: the schema *)
(* is back to the reviewed one, and the drift is resolved, or the source is *)
(* not read.                                                                *)
CompareSchema(p) ==
  LET s == pass[p].source IN
  /\ Doing(p, "fingerprint")
  /\ IF drift[s] # NoDrift /\ ~file[s].reviewed
       THEN NextSource(p) /\ UNCHANGED drift
       ELSE /\ Becomes(p, [pass[p] EXCEPT !.step = "inspect"])
            /\ drift' = [drift EXCEPT ![s] = NoDrift]
  /\ UNCHANGED <<file, events, quarantine, gaps, cursor, bounds, history>>

(* read_jsonl_increment begins with the size of the file, an unfinished     *)
(* last line included ...                                                   *)
Inspect(p) ==
  LET s == pass[p].source IN
  /\ Doing(p, "inspect") /\ s \in Jsonl
  /\ Becomes(p, [pass[p] EXCEPT !.step = "identify", !.size = Len(file[s].text)])
  /\ UNCHANGED <<file, ledger, bounds, history>>

(* ... and read_increment of hermes.rs with another look at the schema: a   *)
(* drift is recorded with the cursor, which stays.                          *)
Recheck(p) ==
  LET s == pass[p].source IN
  /\ Doing(p, "inspect") /\ s \notin Jsonl
  /\ IF file[s].reviewed
       THEN Becomes(p, [pass[p] EXCEPT !.step = "identify"]) /\ UNCHANGED drift
       ELSE NextSource(p) /\ drift' = [drift EXCEPT ![s] = pass[p].cursor]
  /\ UNCHANGED <<file, events, quarantine, gaps, cursor, bounds, history>>

Identify(p) ==
  /\ Doing(p, "identify")
  /\ Becomes(p, [pass[p] EXCEPT !.step = "read", !.id = file[pass[p].source].id])
  /\ UNCHANGED <<file, ledger, bounds, history>>

\* Mutant: another file is taken for the one the cursor is of.
RotatedBySize(r) == r.source \in Jsonl /\ r.size < r.cursor.offset

(* The file is not the one the cursor is of, or is shorter than it was.     *)
Rotated(r) ==
  \/ r.cursor.id # 0 /\ r.cursor.id # r.id
  \/ r.source \in Jsonl /\ r.size < r.cursor.offset

StartOffset(r) == IF Rotated(r) THEN 0 ELSE r.cursor.offset

\* Mutant: an unfinished last line is read as a record.
ReadableWithTail(s, start) ==
  LET t == file[s].text IN
  {i \in DOMAIN t : /\ start < i /\ (t[i].left = 0 \/ i = Len(t))
                    /\ s \notin Jsonl => i <= start + MaxRows}

(* The newlines that a read from offset start on comes to: all there are,   *)
(* or the first MaxRows rows.                                               *)
Readable(s, start) ==
  {i \in Ends(file[s].text) : start < i /\ (s \notin Jsonl => i <= start + MaxRows)}

(* The file is opened, sought and read: whatever is at the offset now is    *)
(* the beginning of a record.  NoChange ends the visit.                     *)
Read(p) ==
  LET r == pass[p]
      start == StartOffset(r)
      ends == Readable(r.source, start)
  IN
  /\ Doing(p, "read")
  /\ IF ends = {} /\ ~Rotated(r)
       THEN NextSource(p)
       ELSE \E end \in {start} \cup ends :
              /\ \A e \in ends : e <= end
              /\ Becomes(p, [r EXCEPT !.step = "commit", !.end = end,
                                      !.batch = RecordsRead(file[r.source].text, start, ends)])
  /\ UNCHANGED <<file, ledger, bounds, history>>

NextCursor(r) == [id |-> r.id, offset |-> r.end]

(* What is no JSON, which the rest of a line is not either.                 *)
MalformedOffsets(r) == {e.offset : e \in {m \in r.batch : m.content \in {Malformed, Torn}}}

(* insert_quarantine: a row for every malformed record, whether or not it   *)
(* has one already.                                                         *)
Quarantined(s, r) ==
  [o \in 0..MaxBytes |->
     IF o \in MalformedOffsets(r) THEN quarantine[s][o] + 1 ELSE quarantine[s][o]]

\* Mutant: a rotation is not recorded.
GapsForgotten(s, r) == gaps[s]

GapsAfter(s, r) ==
  IF Rotated(r) THEN gaps[s] \cup {[from |-> r.cursor.id, to |-> r.id]} ELSE gaps[s]

(* A truncation is settled once the file was read again from its start, and *)
(* no pass holds what it found before.                                      *)
SettlesCut(p, s) ==
  LET r == pass[p]
      settled == /\ Rotated(r) /\ r.id = file[s].id
                 /\ Boundary(file[s].text, r.end)
                 /\ r.batch = LinesUpTo(file[s].text, r.end)
                 /\ \A q \in Services \ {p} : pass[q].source # s
  IN
  /\ cut' = IF settled THEN cut \ {s} ELSE cut
  /\ shadowed' = IF settled THEN shadowed \ {s} ELSE shadowed

\* Mutant: the events are in a transaction of their own, and fail.
CommitCursorOnly(p) ==
  LET r == pass[p]
      s == r.source
  IN
  /\ Doing(p, "commit")
  /\ \E stored \in {events[s], events[s] \cup r.batch} :
       events' = [events EXCEPT ![s] = stored]
  /\ quarantine' = [quarantine EXCEPT ![s] = Quarantined(s, r)]
  /\ gaps' = [gaps EXCEPT ![s] = GapsAfter(s, r)]
  /\ cursor' = [cursor EXCEPT ![s] = NextCursor(r)]
  /\ SettlesCut(p, s)
  /\ NextSource(p)
  /\ UNCHANGED <<file, drift, bounds, written, shifted, lost, overlap>>

(* append_batch: one transaction.                                           *)
Commit(p) ==
  LET r == pass[p]
      s == r.source
  IN
  /\ Doing(p, "commit")
  /\ events' = [events EXCEPT ![s] = @ \cup r.batch]
  /\ quarantine' = [quarantine EXCEPT ![s] = Quarantined(s, r)]
  /\ gaps' = [gaps EXCEPT ![s] = GapsAfter(s, r)]
  /\ cursor' = [cursor EXCEPT ![s] = NextCursor(r)]
  /\ SettlesCut(p, s)
  /\ NextSource(p)
  /\ UNCHANGED <<file, drift, bounds, written, shifted, lost, overlap>>

Failure == /\ bounds.failures < MaxFailures
           /\ bounds' = [bounds EXCEPT !.failures = @ + 1]

(* The file cannot be fingerprinted or read: the pass goes on without it.   *)
SourceFails(p) ==
  /\ pass[p].step \in {"fingerprint", "inspect", "identify", "read"}
  /\ Failure
  /\ NextSource(p)
  /\ UNCHANGED <<file, ledger, history>>

(* A statement on the ledger fails and ends the pass, or the service dies.  *)
PassFails(p) ==
  /\ pass[p] # Idle
  /\ Failure
  /\ Becomes(p, Idle)
  /\ UNCHANGED <<file, ledger, history>>

----------------------------------------------------------------------------
(* The agents (external).                                                  *)

(* The pass has loaded a cursor of the source and may yet commit another.   *)
InFlight(p, s) == pass[p].source = s /\ ~Doing(p, "load")

(* Offsets at which passes go on or will.                                   *)
OffsetsAt(s) ==
  {cursor[s].offset}
    \cup UNION {{pass[p].cursor.offset, pass[p].end} : p \in {q \in Services : InFlight(q, s)}}

LineWidth(s, c) == IF s \in Jsonl THEN Width[c] ELSE 1

(* The next byte of a line, or of the next line; a file that was cut may    *)
(* now hide it below a cursor.                                              *)
Write(s, c) ==
  LET t == file[s].text
      whole == Boundary(t, Len(t))
      left == IF whole THEN LineWidth(s, c) ELSE t[Len(t)].left
      new == Append(t, [of |-> c, left |-> left - 1])
      hidden == s \in cut /\ (Len(new) >= cursor[s].offset \/ \E p \in Services : InFlight(p, s))
  IN
  /\ Len(t) < MaxBytes
  /\ IF whole THEN c = Malformed => s \in Jsonl ELSE c = t[Len(t)].of
  /\ file' = [file EXCEPT ![s].text = new]
  /\ written' = [written EXCEPT ![s] = @ \cup LinesUpTo(new, Len(new))]
  /\ shadowed' = IF hidden THEN shadowed \cup {s} ELSE shadowed
  /\ shifted' = IF hidden THEN [shifted EXCEPT ![s] = @ \cup OffsetsAt(s)] ELSE shifted
  /\ UNCHANGED <<ledger, pass, bounds, cut, lost, overlap>>

Uncaptured(s) == Lines(s) \ events[s]

(* Another file takes the path: an empty one, or a copy.  A pass that has   *)
(* identified the old one opens the new one.                                *)
Replace(s, copied) ==
  LET f == file[s]
      new == IF copied THEN f.text ELSE <<>>
      reading == {p \in Services : Doing(p, "read") /\ pass[p].source = s}
  IN
  /\ f.id < MaxIdentity
  /\ file' = [file EXCEPT ![s] = [f EXCEPT !.id = @ + 1, !.text = new]]
  /\ lost' = IF copied \/ cursor[s].id = 0 THEN lost
             ELSE [lost EXCEPT ![s] = @ \cup {[id |-> f.id, offset |-> e.offset] : e \in Uncaptured(s)}]
  /\ cut' = cut \ {s} /\ shadowed' = shadowed \ {s}
  /\ shifted' = [shifted EXCEPT ![s] = @ \cup {pass[p].cursor.offset : p \in reading}]
  /\ UNCHANGED <<ledger, pass, bounds, written, overlap>>

(* The file is cut after a line.                                            *)
Truncate(s, n) ==
  LET f == file[s] IN
  /\ s \in Jsonl /\ Boundary(f.text, n) /\ n < Len(f.text) /\ bounds.cuts < MaxCuts
  /\ file' = [file EXCEPT ![s].text = SubSeq(f.text, 1, n)]
  /\ bounds' = [bounds EXCEPT !.cuts = @ + 1]
  /\ cut' = IF n < cursor[s].offset \/ \E p \in Services : InFlight(p, s)
              THEN cut \cup {s} ELSE cut
  /\ UNCHANGED <<ledger, pass, written, shadowed, shifted, lost, overlap>>

(* The agent is updated, or rolled back.                                    *)
ChangeSchema(s) ==
  /\ s \notin Jsonl /\ bounds.schemas < MaxSchemas
  /\ file' = [file EXCEPT ![s].reviewed = ~@]
  /\ bounds' = [bounds EXCEPT !.schemas = @ + 1]
  /\ UNCHANGED <<ledger, pass, history>>

----------------------------------------------------------------------------
Init ==
  /\ file = [s \in Sources |-> [id |-> 1, text |-> <<>>, reviewed |-> TRUE]]
  /\ events = [s \in Sources |-> {}] /\ quarantine = [s \in Sources |-> [o \in 0..MaxBytes |-> 0]]
  /\ gaps = [s \in Sources |-> {}]
  /\ cursor = [s \in Sources |-> Start]
  /\ drift = [s \in Sources |-> NoDrift]
  /\ pass = [p \in Services |-> Idle]
  /\ bounds = [cuts |-> 0, schemas |-> 0, failures |-> 0]
  /\ written = [s \in Sources |-> {}] /\ lost = [s \in Sources |-> {}]
  /\ cut = {} /\ shadowed = {} /\ shifted = [s \in Sources |-> {}] /\ overlap = FALSE

Proceeds(p) ==
  \/ StartPass(p) \/ LoadCursor(p) \/ CompareSchema(p) \/ Inspect(p) \/ Recheck(p)
  \/ Identify(p) \/ Read(p) \/ Commit(p)

AgentNext == \E s \in Sources :
  \/ \E c \in Contents : Write(s, c)
  \/ \E copied \in BOOLEAN : Replace(s, copied)
  \/ \E n \in 0..MaxBytes : Truncate(s, n)
  \/ ChangeSchema(s)

Next ==
  \/ \E p \in Services : Proceeds(p) \/ SourceFails(p) \/ PassFails(p)
  \/ AgentNext

Spec == Init /\ [][Next]_vars

(* The reconciliation loop makes a pass on every tick, whatever became of   *)
(* the one before (reconcile.rs, capture_without_stopping).                 *)
FairSpec == Spec /\ \A p \in Services : WF_vars(Proceeds(p))

----------------------------------------------------------------------------
(* Properties.                                                             *)

(* Every line a cursor has passed in the file it is of.                     *)
Covers(s, c) ==
  c.id = file[s].id /\ c.offset <= Len(file[s].text) =>
    LinesUpTo(file[s].text, c.offset) \subseteq events[s]

(* A committed cursor never passes a record that is not in the ledger,      *)
(* though the file was replaced, grew or was cut while it was read, and     *)
(* though another service commits beside.  Exempt is a file that was cut    *)
(* and has grown beyond the cursor again before a pass looked at it.        *)
NoRecordSkipped == \A s \in Sources \ shadowed : Covers(s, cursor[s])

(* "It commits only newline-complete records" (docs/schemas/codex-rollout-  *)
(* map.md): an event is a line that was complete in the file, never half of *)
(* one that the agent was still writing, and a pass that goes on at an      *)
(* offset goes on at the beginning of a line.  Two things break that in the *)
(* code, and only they are exempt: a file that was cut under a cursor and   *)
(* grew beyond it before a pass looked at its size, and one that was        *)
(* replaced between its identification and its opening, are read from the   *)
(* old offset on, in the middle of a line (shifted).  Even then the torn    *)
(* record is the first that was read, and those behind it are lines.        *)
NoTornRecord ==
  \A s \in Sources :
    events[s] \subseteq written[s] \cup [offset : shifted[s], content : {Torn}]

(* Records that were replaced before they were captured are not lost        *)
(* silently: a gap that spans their file is recorded, or the next pass will *)
(* find that the cursor is of another file.  This, and the two properties   *)
(* below, as long as no two services capture at the same time: they would   *)
(* overwrite each other's cursors.                                          *)
LossRecorded ==
  ~overlap =>
    \A s \in Sources : \A l \in lost[s] :
      \/ \E g \in gaps[s] : g.from <= l.id /\ l.id < g.to
      \/ cursor[s].id <= l.id /\ l.id < file[s].id

(* While a schema drift is active the cursor stays where it was when the    *)
(* drift was found: "The cursor is not advanced", and "capture resumes from *)
(* the preserved cursor" (docs/operations/schema-drift.md).                 *)
DriftHoldsCursor ==
  ~overlap => \A s \in Sources : drift[s] # NoDrift => drift[s] = cursor[s]

(* "A committed cursor is monotonic" (docs/schemas/source-adapter-          *)
(* contract.md): within one file it goes back only with a gap on record.    *)
GoesBackOnRecord(s) ==
  cursor'[s].id = cursor[s].id /\ cursor'[s].offset < cursor[s].offset
  => [from |-> cursor[s].id, to |-> cursor[s].id] \in gaps'[s]

CursorMonotonic == [][~overlap => \A s \in Sources : GoesBackOnRecord(s)]_vars

(* Every complete record of a file that stays is captured, in every source, *)
(* whatever becomes of the other sources, as long as the schema is the      *)
(* reviewed one.                                                            *)
EverythingCaptured ==
  \A s \in Sources :
    []<>(Uncaptured(s) = {} \/ ~file[s].reviewed \/ s \in shadowed)
=============================================================================
