-------------------------- MODULE BatchLoopProofs ---------------------------
(***************************************************************************)
(* The batch loop keeps its committed rows on the reference run, whatever  *)
(* the program, the batch size, the high-water mark, the retention window  *)
(* and the number and places of the crashes.                               *)
(***************************************************************************)
EXTENDS StepProofs, FiniteSetTheorems

-----------------------------------------------------------------------------
(* Retention, and the comparison that counts a batch's own boundaries. *)

\* Retention matches rows below its floor, so never the latest, and the
\* process moves on to the batch it has just flushed.
LEMMA RetentionStep ==
    ASSUME Recoverable, Retention
    PROVE  Recoverable'
<1> DEFINE old == {r \in batch_commit : r.batch_id < RetentionFloor(batch_id + 1)}
<1>1. /\ at = "retention" /\ at' = "compare" /\ doomed' = doomed \cup old
      /\ batch_id' = batch_id + 1 /\ icount' = seen.icount
      /\ UNCHANGED <<batch_commit, ram, framebuffer, palette, console_out, cpu_state, frames_out,
                     k, target, resume_icount, compared, interrupted, reached_target, recovering,
                     seen, life, insert>>
  BY DEF Retention
<1>2. Latest' = Latest
  BY <1>1 DEF Latest
<1>3. ~ recovering /\ \A r \in Latest : r.batch_id = batch_id + 1 /\ seen = r
  BY <1>1 DEF Recoverable, PositionKnown, Behind, Flushing
<1>4. TypeOK'
  BY <1>1, RowFields DEF Recoverable, TypeOK, life, insert
<1>5. RowsOnTrack' /\ OneRowPerBatch' /\ LatestExists' /\ RamIsKnown'
  BY <1>1, <1>2 DEF Recoverable, RowsOnTrack, OneRowPerBatch, LatestExists, RamIsKnown, RamWith
<1>6. DoomedIsOld'
  <2>1. batch_id \in Nat /\ RetentionN \in Nat
    BY LoopConstants DEF Recoverable, TypeOK
  <2>2. RetentionFloor(batch_id + 1) \in Nat /\ RetentionFloor(batch_id + 1) <= batch_id + 1
    BY <2>1 DEF RetentionFloor
  <2>3. \A r \in old : r \in batch_commit /\ r.batch_id \in Nat
    BY RowFields DEF Recoverable, TypeOK
  <2>4. \A r \in old : r.batch_id < batch_id + 1
    BY <2>1, <2>2, <2>3
  <2> HIDE DEF old
  <2> QED
    BY <1>1, <1>2, <1>3, <2>3, <2>4 DEF Recoverable, DoomedIsOld
<1>7. FlushedIsInRam' /\ FoldOnTrack'
  BY <1>1, <1>2 DEF Recoverable, FlushedIsInRam, RamFlushed, FoldOnTrack
<1>8. PositionKnown'
  BY <1>1, <1>2, <1>3 DEF PositionKnown, Behind, Flushing
<1> QED
  BY <1>4, <1>5, <1>6, <1>7, <1>8 DEF Recoverable

\* The server removes what a DELETE matched, whenever it gets round to it.
LEMMA DeleteDoomedStep ==
    ASSUME Recoverable, DeleteDoomed
    PROVE  Recoverable'
<1>1. /\ doomed # {} /\ batch_commit' = batch_commit \ doomed /\ doomed' = {}
      /\ UNCHANGED <<ram, framebuffer, palette, console_out, cpu_state, frames_out, at, locals,
                     life, insert>>
  BY DEF DeleteDoomed
<1>2. Latest' = Latest
  BY <1>1, DeleteKeepsLatest DEF Recoverable, TypeOK, LatestExists, DoomedIsOld, Latest
<1>3. batch_commit # {} /\ Latest # {}
  BY <1>1 DEF Recoverable, DoomedIsOld, LatestExists
<1>4. batch_commit' # {}
  BY <1>2, <1>3 DEF Latest, LatestOf
<1>5. TypeOK'
  BY <1>1 DEF Recoverable, TypeOK, locals, life, insert
<1>6. RowsOnTrack' /\ OneRowPerBatch'
  BY <1>1 DEF Recoverable, RowsOnTrack, OneRowPerBatch
<1>7. LatestExists' /\ DoomedIsOld'
  BY <1>1, <1>2, <1>3, <1>4 DEF LatestExists, DoomedIsOld
<1>8. RamIsKnown'
  BY <1>1, <1>2, <1>4 DEF Recoverable, RamIsKnown, RamWith
<1>9. FlushedIsInRam' /\ FoldOnTrack'
  BY <1>1, <1>2 DEF Recoverable, FlushedIsInRam, FoldOnTrack, locals, insert
<1>10. PositionKnown'
  BY <1>1, <1>2 DEF Recoverable, PositionKnown, RowsOf, locals
<1> QED
  BY <1>5, <1>6, <1>7, <1>8, <1>9, <1>10 DEF Recoverable

\* One row per batch has finitely many recorded boundaries.
LEMMA BoundaryCount ==
    ASSUME Recoverable, NEW b
    PROVE  Cardinality(UNION {{<<r, j>> : j \in DOMAIN r.cp} : r \in RowsOf(b)}) \in Nat
<1> DEFINE cps == UNION {{<<r, j>> : j \in DOMAIN r.cp} : r \in RowsOf(b)}
<1>1. CASE RowsOf(b) = {}
  <2>1. cps = {}
    BY <1>1
  <2> QED
    BY <2>1, FS_EmptySet
<1>2. CASE RowsOf(b) # {}
  <2>1. PICK r \in RowsOf(b) : TRUE
    BY <1>2
  <2>2. RowsOf(b) = {r}
    BY <2>1 DEF Recoverable, OneRowPerBatch, RowsOf
  <2>3. r.cp \in Seq(Checkpoint)
    BY <2>1 DEF Recoverable, TypeOK, RowsOf, Row
  <2> DEFINE n == Len(r.cp)
             f == [j \in 1 .. n |-> <<r, j>>]
  <2>4. n \in Nat /\ DOMAIN r.cp = 1 .. n
    BY <2>3
  <2> HIDE DEF n
  <2>5. cps = {<<r, j>> : j \in 1 .. n}
    BY <2>2, <2>4
  <2>6. f \in Surjection(1 .. n, cps)
    BY <2>5 DEF Surjection
  <2>7. IsFiniteSet(1 .. n)
    BY <2>4, FS_Interval
  <2>8. IsFiniteSet(cps)
    BY <2>6, <2>7, FS_Surjection
  <2> QED
    BY <2>8, FS_CardinalityType
<1> QED
  BY <1>1, <1>2

\* The batch's own boundaries are compared.
LEMMA CompareBatchStep ==
    ASSUME Recoverable, CompareBatch
    PROVE  Recoverable'
<1> DEFINE cps == UNION {{<<r, j>> : j \in DOMAIN r.cp} : r \in RowsOf(batch_id)}
<1>1. at = "compare" /\ UNCHANGED tables
  BY DEF CompareBatch
<1>2. \/ /\ compared' = compared + Cardinality(cps) /\ at' = "boundary"
         /\ UNCHANGED <<k, target, batch_id, icount, resume_icount, interrupted, reached_target,
                        recovering, seen, life, insert>>
      \/ Exit("CheckpointMismatch")
  BY DEF CompareBatch
<1>3. CASE Exit("CheckpointMismatch")
  BY <1>1, <1>3, GoneStep DEF Exit, Recoverable, TypeOK
<1>4. CASE /\ compared' = compared + Cardinality(cps) /\ at' = "boundary"
           /\ UNCHANGED <<k, target, batch_id, icount, resume_icount, interrupted, reached_target,
                          recovering, seen, life, insert>>
  <2>1. compared' \in Nat
    BY <1>4, BoundaryCount DEF Recoverable, TypeOK
  <2>2. TypeOK'
    BY <1>1, <1>4, <2>1 DEF Recoverable, TypeOK, tables, life, insert
  <2>3. LatestExists' /\ FlushedIsInRam' /\ PositionKnown' /\ FoldOnTrack'
    BY <1>1, <1>4, RowsStay DEF tables, Recoverable, LatestExists, FlushedIsInRam, RamFlushed,
                                PositionKnown, Behind, Flushing, FoldOnTrack
  <2> QED
    BY <1>1, <2>2, <2>3, RowsStay DEF Recoverable, tables
<1> QED
  BY <1>2, <1>3, <1>4

-----------------------------------------------------------------------------
(* The theorems. *)

\* An empty database with a seeded RAM table is where a run may start.
LEMMA InitRecoverable == Init => Recoverable
<1> SUFFICES ASSUME Init PROVE Recoverable
  OBVIOUS
<1>1. ResetRow \in Row /\ InitAcc(ResetRow) \in Accumulator
  BY SeedRow
<1>2. [a \in RamAddr |-> 0] \in [RamAddr -> Word] /\ 0 \in Word
  BY Sizes DEF Word
<1>3. \A a \in RamAddr : RamBase + a \in Nat
  BY LoopConstants, Sizes DEF RamAddr
<1>4. ram \subseteq Cell(Nat)
  BY <1>2, <1>3 DEF Init, Cell
<1>5. (CHOOSE x \in Ks : TRUE) \in Ks /\ (CHOOSE x \in Targets : TRUE) \in Targets
  BY LoopConstants
<1>6. TypeOK
  BY <1>1, <1>2, <1>4, <1>5 DEF Init, TypeOK, NoRow
<1>7. Latest = {} /\ batch_commit = {} /\ at = "down" /\ doomed = {} /\ recovering = FALSE
  BY DEF Init, Latest, LatestOf
<1>8. Holds(ram, Ref[0].ram, 0)
  <2>1. Ref[0].ram = [a \in RamAddr |-> 0]
    BY RefIsTheRun DEF Reset
  <2>2. \A a, b \in RamAddr : RamBase + a = RamBase + b => a = b
    BY LoopConstants, Sizes DEF RamAddr
  <2>3. ram = {[addr |-> RamBase + a, val |-> 0, version |-> 0] : a \in RamAddr}
    BY DEF Init
  <2>4. ASSUME NEW a \in RamAddr PROVE Newest(ram, RamBase + a, 0)
    <3> DEFINE c == [addr |-> RamBase + a, val |-> 0, version |-> 0]
    <3>1. c \in ram /\ c.addr = RamBase + a /\ c.val = 0
      BY <2>3
    <3>2. ASSUME NEW d \in ram, d.addr = RamBase + a PROVE d = c
      <4>1. PICK b \in RamAddr : d = [addr |-> RamBase + b, val |-> 0, version |-> 0]
        BY <2>3
      <4>2. b = a
        BY <2>2, <3>2, <4>1
      <4> QED
        BY <4>1, <4>2
    <3> QED
      BY <3>1, <3>2 DEF Newest
  <2>5. \A c \in ram : c.version <= 0
    BY <2>3
  <2> QED
    BY <2>1, <2>4, <2>5 DEF Holds
<1> QED
  BY <1>6, <1>7, <1>8 DEF Recoverable, RowsOnTrack, OneRowPerBatch, LatestExists, DoomedIsOld, RamIsKnown,
                          FlushedIsInRam, RamFlushed, PositionKnown, Behind, Flushing, FoldOnTrack

\* Nothing that can happen to the process or the database breaks it.
LEMMA StepRecoverable == Recoverable /\ [Next]_vars => Recoverable'
<1> SUFFICES ASSUME Recoverable, [Next]_vars PROVE Recoverable'
  OBVIOUS
<1>1. CASE UNCHANGED vars
  <2>1. UNCHANGED <<batch_commit, ram, doomed>> /\ UNCHANGED <<at, locals, insert>>
    BY <1>1 DEF vars, tables
  <2>2. TypeOK'
    BY <1>1 DEF Recoverable, TypeOK, vars, tables, locals, life, insert
  <2>3. LatestExists' /\ FlushedIsInRam' /\ PositionKnown' /\ FoldOnTrack'
    BY <2>1, RowsStay DEF Recoverable, LatestExists, FlushedIsInRam, PositionKnown, FoldOnTrack, RowsOf,
                          locals, insert
  <2> QED
    BY <2>1, <2>2, <2>3, RowsStay DEF Recoverable
<1>2. CASE Start \/ Signal \/ Crash \/ DeleteDoomed
  BY <1>2, StartStep, SignalStep, CrashStep, DeleteDoomedStep
<1>3. CASE SeedCount \/ SeedInsert \/ Resume \/ RecoverFrame
  BY <1>3, SeedCountStep, SeedInsertStep, ResumeStep, RecoverFrameStep
<1>4. CASE FlushRam \/ FlushFramebuffer \/ FlushPalette \/ FlushConsole \/ FlushCpuState
  BY <1>4, FlushRamStep, FlushFramebufferStep, FlushPaletteStep, FlushConsoleStep, FlushCpuStateStep
<1>5. CASE StopLoop \/ BeginBatch \/ FoldOne \/ CommitBatch \/ Reread
  BY <1>5, StopLoopStep, BeginBatchStep, FoldOneStep, CommitBatchStep, RereadStep
<1>6. CASE Retention \/ CompareBatch \/ CompareBoundary \/ ReadFrame \/ Finish
  BY <1>6, RetentionStep, CompareBatchStep, CompareBoundaryStep, ReadFrameStep, FinishStep
<1> QED
  BY <1>1, <1>2, <1>3, <1>4, <1>5, <1>6 DEF Next, Proceed

\* The batch loop's rows, its ram table, its position and its fold agree with
\* the reference run in every reachable state.
THEOREM AlwaysRecoverable == Spec => []Recoverable
  BY InitRecoverable, StepRecoverable, PTL DEF Spec

\* Every variable of the loop keeps its type.
THEOREM TypeCorrect == Spec => []TypeOK
<1>1. Recoverable => TypeOK
  BY DEF Recoverable
<1> QED
  BY <1>1, AlwaysRecoverable, PTL

\* However a run is cut into batches, processes and --k values, and wherever
\* it is killed, every committed row is the reference emulator's state at the
\* row's icount.
THEOREM RowsMatchReference == Spec => []CommittedRowsMatchReference
<1>1. Recoverable => CommittedRowsMatchReference
  BY RefIsTheRun DEF Recoverable, RowsOnTrack, OnTrack, CommittedRowsMatchReference
<1> QED
  BY <1>1, AlwaysRecoverable, PTL

\* A flush, a readout or a comparison always finds the row it names.
THEOREM RowsAreRetained == Spec => []NamedRowIsRetained
<1>1. Recoverable => NamedRowIsRetained
  <2> SUFFICES ASSUME Recoverable PROVE NamedRowIsRetained
    OBVIOUS
  <2>1. at \notin {"down", "seed", "seed_insert"} => \E r \in Latest : r \in batch_commit
    BY DEF Recoverable, LatestExists, Latest, LatestOf
  <2> QED
    BY <2>1 DEF Recoverable, PositionKnown, Behind, Flushing, NamedRowIsRetained, RowsOf, FlushId
<1> QED
  BY <1>1, AlwaysRecoverable, PTL

\* A batch that is about to be issued would read the reference machine's RAM
\* at the process's icount, whatever crash came before.
THEOREM LoopReadsCurrentRam == Spec => [](at = "loop" => RamWordsOf(ram) = Ref[icount].ram)
<1>1. Recoverable => (at = "loop" => RamWordsOf(ram) = Ref[icount].ram)
  <2> SUFFICES ASSUME Recoverable, at = "loop" PROVE RamWordsOf(ram) = Ref[icount].ram
    OBVIOUS
  <2>1. PICK r \in Latest : TRUE
    BY DEF Recoverable, LatestExists
  <2>2. r.icount = icount /\ r.icount \in 0 .. LastIcount
    BY <2>1 DEF Recoverable, PositionKnown, RowsOnTrack, OnTrack, Latest, LatestOf
  <2>3. RamWith(r) = ram
    BY <2>1 DEF Recoverable, FlushedIsInRam, RamFlushed, RamWith
  <2>4. Holds(ram, Ref[icount].ram, icount)
    BY <2>1, <2>2, <2>3 DEF Recoverable, RamIsKnown
  <2>5. Ref[icount] \in State
    BY <2>2, RefIsTheRun
  <2>6. Ref[icount].ram \in [RamAddr -> Word]
    BY <2>5 DEF State
  <2> QED
    BY <2>4, <2>6, ReadIsRam DEF Recoverable, TypeOK
<1> QED
  BY <1>1, AlwaysRecoverable, PTL

\* Only the RAM flush touches `ram`.
LEMMA RamOnlyFlushed == [Next]_vars => FlushRam \/ UNCHANGED ram
<1>1. (UNCHANGED vars) => UNCHANGED ram
  BY DEF vars, tables
<1>2. (Start) => UNCHANGED ram
  BY DEF Start, tables
<1>3. (Signal) => UNCHANGED ram
  BY DEF Signal, tables
<1>4. (Crash) => UNCHANGED ram
  BY DEF Crash, tables
<1>5. (DeleteDoomed) => UNCHANGED ram
  BY DEF DeleteDoomed
<1>6. (SeedCount \/ SeedInsert \/ Resume \/ RecoverFrame) => UNCHANGED ram
  BY DEF SeedCount, SeedInsert, Resume, RecoverFrame, tables
<1>7. (FlushFramebuffer \/ FlushPalette \/ FlushConsole \/ FlushCpuState) => UNCHANGED ram
  BY DEF FlushFramebuffer, FlushPalette, FlushConsole, FlushCpuState
<1>8. (StopLoop \/ BeginBatch \/ FoldOne \/ CommitBatch \/ Reread) => UNCHANGED ram
  BY DEF StopLoop, BeginBatch, FoldOne, CommitBatch, Reread, tables
<1>9. (Retention) => UNCHANGED ram
  BY DEF Retention
<1>10. (CompareBatch) => UNCHANGED ram
  BY DEF CompareBatch, tables
<1>11. (CompareBoundary) => UNCHANGED ram
  BY DEF CompareBoundary, tables
<1>12. (ReadFrame) => UNCHANGED ram
  BY DEF ReadFrame
<1>13. (Finish) => UNCHANGED ram
  BY DEF Finish, tables
<1> QED
  BY <1>1, <1>2, <1>3, <1>4, <1>5, <1>6, <1>7, <1>8, <1>9, <1>10, <1>11, <1>12, <1>13 DEF Next, Proceed

\* No flush ever adds a word address to `ram`, so the positions RAMT reads are
\* the same words in every batch.
THEOREM RamIsDense == Spec => []RamStaysDense
<1>1. Init => RamStaysDense
  <2> SUFFICES ASSUME Init PROVE RamStaysDense
    OBVIOUS
  <2> DEFINE cell(a) == [addr |-> RamBase + a, val |-> 0, version |-> 0]
  <2>1. ram = {cell(a) : a \in RamAddr}
    BY DEF Init
  <2>2. \A a \in RamAddr : cell(a) \in ram /\ cell(a).addr = RamBase + a
    BY <2>1
  <2>3. \A c \in ram : \E a \in RamAddr : c.addr = RamBase + a
    BY <2>1
  <2> HIDE DEF cell
  <2>4. {c.addr : c \in ram} \subseteq {RamBase + a : a \in RamAddr}
    BY <2>3
  <2>5. {RamBase + a : a \in RamAddr} \subseteq {c.addr : c \in ram}
    BY <2>2
  <2> QED
    BY <2>4, <2>5 DEF RamStaysDense
<1>2. Recoverable /\ RamStaysDense /\ [Next]_vars => RamStaysDense'
  <2> SUFFICES ASSUME Recoverable, RamStaysDense, FlushRam PROVE RamStaysDense'
    BY RamOnlyFlushed DEF RamStaysDense
  <2> DEFINE rows == RowsOf(FlushId)
  <2>1. ram' = ram \cup RamCells(rows)
    BY DEF FlushRam
  <2>2. \A r \in rows : r.wl \in Seq(Entry(RamAddr))
    BY FlushedRows, RowFields DEF Recoverable
  <2>3. ASSUME NEW c \in RamCells(rows) PROVE \E a \in RamAddr : c.addr = RamBase + a
    <3>1. PICK r \in rows : c \in CellsOf(r.wl, RamBase)
      BY DEF RamCells
    <3>2. PICK j \in DOMAIN r.wl : c.addr = RamBase + r.wl[j].addr
      BY <3>1 DEF CellsOf
    <3>3. r.wl[j] \in Entry(RamAddr)
      BY <2>2, <3>1, <3>2
    <3>4. r.wl[j].addr \in RamAddr
      BY <3>3 DEF Entry
    <3> QED
      BY <3>2, <3>4
  <2> HIDE DEF rows
  <2> QED
    BY <2>1, <2>3 DEF RamStaysDense
<1> QED
  BY <1>1, <1>2, AlwaysRecoverable, PTL DEF Spec

=============================================================================
