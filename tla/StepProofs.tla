----------------------------- MODULE StepProofs -----------------------------
(***************************************************************************)
(* The steps of the batch loop in which rows or RAM change, or the process *)
(* moves along them: each keeps the invariant.                             *)
(***************************************************************************)
EXTENDS TableProofs

-----------------------------------------------------------------------------
(* The process reads, compares and folds. *)

\* The run ends after the loop.
LEMMA FinishStep ==
    ASSUME Recoverable, Finish
    PROVE  Recoverable'
  BY GoneStep DEF Finish, Exit, Recoverable, TypeOK

\* The process dies between two statements.
LEMMA CrashStep ==
    ASSUME Recoverable, Crash
    PROVE  Recoverable'
  BY GoneStep DEF Crash, Recoverable, TypeOK

\* The latest row is read back.
LEMMA RereadStep ==
    ASSUME Recoverable, Reread
    PROVE  Recoverable'
<1>1. PICK r \in Latest : IF r.batch_id # batch_id + 1 THEN Exit("BatchIdMoved")
                          ELSE /\ seen' = r /\ at' = "ram"
                               /\ UNCHANGED <<k, target, batch_id, icount, resume_icount, compared,
                                              interrupted, reached_target, recovering, life, insert>>
  BY DEF Reread
<1>2. at = "reread" /\ UNCHANGED tables
  BY DEF Reread
<1>3. CASE r.batch_id # batch_id + 1
  BY <1>1, <1>2, <1>3, GoneStep DEF Exit, Recoverable, TypeOK
<1>4. CASE r.batch_id = batch_id + 1
  <2>1. r \in Row /\ \A s \in Latest : s \in batch_commit /\ r \in batch_commit
    BY DEF Recoverable, TypeOK, Latest, LatestOf
  <2>2. \A s \in Latest : s.batch_id = batch_id + 1
    BY <1>2 DEF Recoverable, PositionKnown, Behind
  <2>3. \A s \in Latest : s = r
    BY <2>1, <2>2 DEF Recoverable, OneRowPerBatch
  <2>4. seen' = r /\ at' = "ram" /\ UNCHANGED <<batch_id, icount, recovering>>
    BY <1>1, <1>4
  <2>5. TypeOK'
    BY <1>1, <1>2, <1>4, <2>1 DEF Recoverable, TypeOK, tables, life, insert
  <2>6. ~ recovering
    BY <1>2 DEF Recoverable, PositionKnown, Flushing
  <2>7. LatestExists' /\ FlushedIsInRam' /\ FoldOnTrack'
    BY <1>2, <2>4, RowsStay DEF tables, Recoverable, LatestExists, FlushedIsInRam, RamFlushed, FoldOnTrack
  <2>8. PositionKnown'
    BY <1>2, <2>2, <2>3, <2>4, <2>6, RowsStay DEF tables, PositionKnown, Behind, Flushing
  <2> QED
    BY <1>2, <2>5, <2>7, <2>8, RowsStay DEF Recoverable, tables
<1> QED
  BY <1>3, <1>4

\* The boundary the batch ended on is compared.
LEMMA CompareBoundaryStep ==
    ASSUME Recoverable, CompareBoundary
    PROVE  Recoverable'
<1>1. at = "boundary" /\ UNCHANGED tables
  BY DEF CompareBoundary
<1>2. \/ /\ compared' \in {compared, compared + 1} /\ at' \in {"finish", "frame", "loop"}
         /\ UNCHANGED <<k, target, batch_id, icount, resume_icount, interrupted, reached_target,
                        recovering, seen, life, insert>>
      \/ Exit("CheckpointMismatch")
  BY DEF CompareBoundary, AfterBatch
<1>3. CASE Exit("CheckpointMismatch")
  BY <1>1, <1>3, GoneStep DEF Exit, Recoverable, TypeOK
<1>4. CASE /\ compared' \in {compared, compared + 1} /\ at' \in {"finish", "frame", "loop"}
           /\ UNCHANGED <<k, target, batch_id, icount, resume_icount, interrupted, reached_target,
                          recovering, seen, life, insert>>
  <2>1. TypeOK'
    BY <1>1, <1>4 DEF Recoverable, TypeOK, tables, life, insert
  <2>2. LatestExists' /\ FlushedIsInRam' /\ PositionKnown' /\ FoldOnTrack'
    BY <1>1, <1>4, RowsStay DEF tables, Recoverable, LatestExists, FlushedIsInRam, RamFlushed,
                                PositionKnown, Behind, Flushing, FoldOnTrack
  <2> QED
    BY <1>1, <2>1, <2>2, RowsStay DEF Recoverable, tables
<1> QED
  BY <1>2, <1>3, <1>4

\* A batch never runs past the target, so never past the reference run.
LEMMA StepKBound ==
    ASSUME Recoverable, icount < target
    PROVE  StepK \in Nat /\ icount + StepK <= LastIcount
<1>1. icount \in Nat /\ target \in 0 .. LastIcount /\ k \in Nat \ {0}
  BY LoopConstants DEF Recoverable, TypeOK
<1>2. RamHashInterval \in Nat \ {0}
  BY LoopConstants, FoldConstants
<1> DEFINE boundary == (icount \div RamHashInterval + 1) * RamHashInterval
<1>3. boundary \in Nat /\ boundary > icount
  <2>1. \A n \in Nat, R \in Nat \ {0} : (n \div R + 1) * R \in Nat /\ (n \div R + 1) * R > n
    OBVIOUS
  <2> QED
    BY <1>1, <1>2, <2>1
<1>4. StepK = LET stopAt    == IF boundary < target THEN boundary ELSE target
                  remaining == stopAt - icount
              IN  IF remaining > 0 /\ remaining < k THEN remaining ELSE k
  BY DEF StepK
<1> HIDE DEF boundary
<1> QED
  BY <1>1, <1>3, <1>4, Sizes

\* The INSERT begins: what it reads is the machine at icount.
LEMMA BeginBatchStep ==
    ASSUME Recoverable, BeginBatch
    PROVE  Recoverable'
<1>1. PICK r \in Latest : acc' = InitAcc(r) /\ prev_id' = r.batch_id
  BY DEF BeginBatch
<1>2. /\ at = "loop" /\ icount < target /\ ramt' = RamWordsOf(ram) /\ i' = 0 /\ step_k' = StepK
      /\ at' = "fold" /\ UNCHANGED <<tables, locals, life>>
  BY DEF BeginBatch
<1>3. r \in Row /\ r \in batch_commit /\ OnTrack(r)
  BY DEF Recoverable, TypeOK, Latest, LatestOf, RowsOnTrack
<1>4. r.batch_id = batch_id /\ r.icount = icount
  BY <1>2 DEF Recoverable, PositionKnown
<1>5. icount \in 0 .. LastIcount /\ icount \in Nat
  BY <1>3, <1>4 DEF OnTrack
<1>6. Ref[icount] \in State
  BY <1>5, RefIsTheRun
<1>7. Ref[icount].ram \in [RamAddr -> Word]
  BY <1>6 DEF State
<1>8. RamWith(r) = ram
  BY <1>2 DEF Recoverable, FlushedIsInRam, RamFlushed, RamWith
<1>9. Holds(ram, Ref[icount].ram, icount)
  BY <1>4, <1>8 DEF Recoverable, RamIsKnown
<1>10. ramt' = Ref[icount].ram
  BY <1>2, <1>7, <1>9, ReadIsRam DEF Recoverable, TypeOK
<1>11. /\ acc'.icount = r.icount /\ acc'.pc = r.pc /\ acc'.reg = r.reg
       /\ acc'.keyq_pos = r.keyq_pos /\ ~ acc'.halted /\ acc'.wl = << >>
  BY <1>1, Zenon DEF InitAcc
<1>12. OnTrack(acc') /\ acc'.icount = icount
  BY <1>3, <1>4, <1>11 DEF OnTrack
<1>13. LogHolds(acc'.wl, ramt', icount, Ref[icount].ram, icount)
  BY <1>10, <1>11 DEF LogHolds
<1>14. acc' \in Accumulator
  BY <1>1, <1>3, RowFields, InitAccType
<1>15. StepK \in Nat /\ icount + StepK <= LastIcount
  BY <1>2, StepKBound
<1>16. TypeOK'
  BY <1>1, <1>2, <1>3, <1>7, <1>10, <1>14, <1>15, RowFields DEF Recoverable, TypeOK, tables, locals, life
<1>17. FoldOnTrack'
  <2>1. UNCHANGED <<icount, batch_id>>
    BY <1>2 DEF locals
  <2> QED
    BY <1>1, <1>2, <1>4, <1>5, <1>10, <1>12, <1>13, <1>15, <2>1 DEF FoldOnTrack
<1>18. LatestExists' /\ FlushedIsInRam' /\ PositionKnown'
  BY <1>2, RowsStay DEF tables, locals, Recoverable, LatestExists, FlushedIsInRam, RamFlushed,
                        PositionKnown, Behind, Flushing
<1> QED
  BY <1>2, <1>16, <1>17, <1>18, RowsStay DEF Recoverable, tables

\* One step of the fold.
LEMMA FoldOneStep ==
    ASSUME Recoverable, FoldOne
    PROVE  Recoverable'
<1>1. /\ at = "fold" /\ i < step_k /\ acc' = FoldStep(acc, i, ramt) /\ i' = i + 1
      /\ UNCHANGED <<tables, at, locals, life, step_k, ramt, prev_id>>
  BY DEF FoldOne
<1>2. /\ OnTrack(acc) /\ prev_id = batch_id
      /\ i <= step_k /\ icount + step_k <= LastIcount
      /\ icount <= acc.icount /\ acc.icount <= icount + i
      /\ ramt = Ref[icount].ram
      /\ LogHolds(acc.wl, ramt, icount, Ref[acc.icount].ram, acc.icount)
  BY <1>1 DEF Recoverable, FoldOnTrack
<1>3. acc \in Accumulator /\ i \in Nat /\ icount \in Nat /\ step_k \in Nat
  BY DEF Recoverable, TypeOK
<1>4. acc.icount \in Nat
  BY <1>3, AccFields
<1>5. acc.icount < LastIcount
  BY <1>1, <1>2, <1>3, <1>4, Sizes
<1>6. /\ acc' \in Accumulator /\ OnTrack(acc')
      /\ acc'.icount = acc.icount \/ acc'.icount = acc.icount + 1
      /\ LogHolds(acc'.wl, ramt, icount, Ref[acc'.icount].ram, acc'.icount)
  BY <1>1, <1>2, <1>3, <1>5, FoldStepOnTrack
<1>7. TypeOK'
  BY <1>1, <1>3, <1>6 DEF Recoverable, TypeOK, tables, locals, life
<1>8. UNCHANGED <<icount, batch_id, ramt, step_k, prev_id>> /\ at' = "fold"
  BY <1>1 DEF locals
<1>9. i' <= step_k /\ icount <= acc'.icount /\ acc'.icount <= icount + i'
  BY <1>1, <1>2, <1>3, <1>4, <1>6
<1>10. FoldOnTrack'
  BY <1>2, <1>6, <1>8, <1>9 DEF FoldOnTrack
<1>11. LatestExists' /\ FlushedIsInRam' /\ PositionKnown'
  BY <1>1, RowsStay DEF tables, locals, Recoverable, LatestExists, FlushedIsInRam, RamFlushed,
                        PositionKnown, Behind, Flushing
<1> QED
  BY <1>1, <1>7, <1>10, <1>11, RowsStay DEF Recoverable, tables

-----------------------------------------------------------------------------
(* Rows or RAM change. *)

\* The seed's INSERT.
LEMMA SeedInsertStep ==
    ASSUME Recoverable, SeedInsert
    PROVE  Recoverable'
<1>1. /\ at = "seed_insert" /\ at' = "resume" /\ batch_commit' = batch_commit \cup {ResetRow}
      /\ UNCHANGED <<ram, framebuffer, palette, console_out, cpu_state, frames_out, doomed,
                     locals, life, insert>>
  BY DEF SeedInsert
<1>2. /\ ResetRow \in Row /\ ResetRow.batch_id = 0 /\ ResetRow.icount = 0
      /\ ResetRow.wl = << >> /\ OnTrack(ResetRow)
  BY SeedRow
<1>3. \A r \in batch_commit : r.batch_id # 0
  BY <1>1 DEF Recoverable, PositionKnown, RowsOf
<1>4. TypeOK'
  BY <1>1, <1>2 DEF Recoverable, TypeOK, locals, life, insert
<1>5. RowsOnTrack' /\ OneRowPerBatch'
  BY <1>1, <1>2, <1>3 DEF Recoverable, RowsOnTrack, OneRowPerBatch
<1>6. Latest' = IF batch_commit = {} THEN {ResetRow} ELSE Latest
  <2>1. CASE batch_commit = {}
    BY <1>1, <1>2, <2>1 DEF Latest, LatestOf
  <2>2. CASE batch_commit # {}
    BY <1>1, <1>3, <2>2, SeedKeepsLatest DEF Recoverable, TypeOK, Latest
  <2> QED
    BY <2>1, <2>2
<1>7. LatestExists'
  BY <1>1, <1>6 DEF Recoverable, LatestExists
<1>8. DoomedIsOld'
  <2>1. CASE batch_commit = {}
    <3>1. doomed = {}
      BY <2>1 DEF Recoverable, DoomedIsOld
    <3> QED
      BY <1>1, <3>1 DEF DoomedIsOld
  <2>2. CASE batch_commit # {}
    BY <1>1, <1>6, <2>2 DEF Recoverable, DoomedIsOld
  <2> QED
    BY <2>1, <2>2
<1>9. RamIsKnown'
  <2>1. CASE batch_commit = {}
    <3>1. CellsOf(ResetRow.wl, RamBase) = {}
      BY <1>2 DEF CellsOf
    <3>2. Holds(ram \cup CellsOf(ResetRow.wl, RamBase), Ref[ResetRow.icount].ram, ResetRow.icount)
      BY <1>2, <2>1, <3>1 DEF Recoverable, RamIsKnown
    <3> QED
      BY <1>1, <1>6, <2>1, <3>2 DEF RamIsKnown, RamWith
  <2>2. CASE batch_commit # {}
    BY <1>1, <1>6, <2>2 DEF Recoverable, RamIsKnown, RamWith
  <2> QED
    BY <2>1, <2>2
<1>10. FlushedIsInRam' /\ PositionKnown' /\ FoldOnTrack'
  BY <1>1 DEF locals, Recoverable, FlushedIsInRam, RamFlushed, PositionKnown, Behind, Flushing, FoldOnTrack
<1> QED
  BY <1>4, <1>5, <1>7, <1>8, <1>9, <1>10 DEF Recoverable

\* The RAM flush.
LEMMA FlushRamStep ==
    ASSUME Recoverable, FlushRam
    PROVE  Recoverable'
<1> DEFINE rows == RowsOf(FlushId)
<1>1. /\ at = "ram" /\ at' = "framebuffer" /\ ram' = ram \cup RamCells(rows)
      /\ UNCHANGED <<batch_commit, framebuffer, palette, console_out, cpu_state, frames_out, doomed,
                     locals, life, insert>>
  BY DEF FlushRam
<1>2. Latest' = Latest
  BY <1>1 DEF Latest
<1>3. PICK top \in Latest : TRUE
  BY <1>1 DEF Recoverable, LatestExists
<1>4. rows = {top} /\ Latest = {top} /\ top \in Row
  <2>1. top \in batch_commit /\ top \in Row
    BY DEF Recoverable, TypeOK, Latest, LatestOf
  <2>2. top.batch_id = FlushId
    BY <1>1 DEF Recoverable, PositionKnown, Flushing, FlushId
  <2>3. rows = {top}
    BY <2>1, <2>2 DEF RowsOf, Recoverable, OneRowPerBatch
  <2>4. \A s \in Latest : s \in rows
    BY <1>1 DEF Recoverable, PositionKnown, Flushing, FlushId, RowsOf, Latest, LatestOf
  <2> QED
    BY <2>1, <2>3, <2>4
<1>5. ram' = RamWith(top)
  BY <1>1, <1>4 DEF RamCells, RamWith
<1>6. TypeOK'
  <2>1. \A a \in RamAddr : RamBase + a \in Nat
    BY LoopConstants, Sizes DEF RamAddr
  <2>2. CellsOf(top.wl, RamBase) \subseteq Cell(Nat)
    BY <1>4, <2>1, RowFields, CellsType
  <2>3. ram' \subseteq Cell(Nat)
    BY <1>5, <2>2 DEF RamWith, Recoverable, TypeOK
  <2> QED
    BY <1>1, <2>3 DEF Recoverable, TypeOK, locals, life, insert
<1>7. RowsOnTrack' /\ OneRowPerBatch'
  BY <1>1 DEF Recoverable, RowsOnTrack, OneRowPerBatch
<1>8. LatestExists' /\ DoomedIsOld'
  BY <1>1, <1>2 DEF Recoverable, LatestExists, DoomedIsOld
<1>9. FlushedIsInRam'
  BY <1>2, <1>4, <1>5 DEF FlushedIsInRam, RamWith
<1>10. RamIsKnown'
  <2>1. batch_commit' # {}
    BY <1>1 DEF Recoverable, LatestExists
  <2>2. RamWith(top)' = RamWith(top)
    BY <1>5 DEF RamWith
  <2>3. Holds(RamWith(top), Ref[top.icount].ram, top.icount)
    BY DEF Recoverable, RamIsKnown
  <2> QED
    BY <1>2, <1>4, <2>1, <2>2, <2>3 DEF RamIsKnown
<1>11. PositionKnown' /\ FoldOnTrack'
  BY <1>1, <1>2 DEF locals, Recoverable, PositionKnown, Behind, Flushing, FoldOnTrack
<1> QED
  BY <1>6, <1>7, <1>8, <1>9, <1>10, <1>11 DEF Recoverable

\* The row becomes visible: it is the latest, and RAM is what its log says.
LEMMA CommitBatchStep ==
    ASSUME Recoverable, CommitBatch
    PROVE  Recoverable'
<1> DEFINE new == RowOf(prev_id + 1, acc)
<1>0. at = "fold"
  BY DEF CommitBatch
<1>1. /\ at = "fold" /\ at' = "reread" /\ batch_commit' = batch_commit \cup {new}
      /\ acc' = InitAcc(ResetRow) /\ i' = 0 /\ step_k' = 0 /\ prev_id' = 0
      /\ ramt' = [a \in RamAddr |-> 0]
      /\ UNCHANGED <<ram, framebuffer, palette, console_out, cpu_state, frames_out, doomed,
                     locals, life>>
  BY DEF CommitBatch
<1>2. /\ OnTrack(acc) /\ prev_id = batch_id
      /\ icount <= acc.icount /\ ramt = Ref[icount].ram
      /\ LogHolds(acc.wl, ramt, icount, Ref[acc.icount].ram, acc.icount)
  BY <1>1 DEF Recoverable, FoldOnTrack
<1>3. acc \in Accumulator /\ icount \in Nat /\ batch_id \in Nat /\ prev_id \in Nat
  BY DEF Recoverable, TypeOK
<1>4. /\ new.batch_id = prev_id + 1 /\ new.icount = acc.icount /\ new.pc = acc.pc
      /\ new.reg = acc.reg /\ new.keyq_pos = acc.keyq_pos /\ new.wl = acc.wl
  BY Zenon DEF RowOf
<1>5. new.halted = acc.halted
  BY Zenon DEF RowOf
<1>6. new \in Row
  BY <1>3, RowOfType
<1> HIDE DEF new
<1>7. OnTrack(new)
  BY <1>2, <1>4, <1>5 DEF OnTrack
<1>8. PICK top \in Latest : TRUE
  BY <1>0 DEF Recoverable, LatestExists
<1>9. top \in batch_commit /\ top \in Row /\ \A s \in batch_commit : s.batch_id <= top.batch_id
  BY DEF Recoverable, TypeOK, Latest, LatestOf
<1>10. top.batch_id = batch_id /\ top.icount = icount
  BY <1>0, <1>8 DEF Recoverable, PositionKnown
<1>11. \A s \in batch_commit : s.batch_id < new.batch_id
  <2>1. \A s \in batch_commit : s.batch_id \in Nat
    BY RowFields DEF Recoverable, TypeOK
  <2>2. new.batch_id = batch_id + 1
    BY <1>2, <1>4, Zenon
  <2>3. \A s \in batch_commit : s.batch_id <= batch_id
    BY <1>9, <1>10, Zenon
  <2>4. batch_id \in Nat
    BY <1>3
  <2> QED
    BY <2>1, <2>2, <2>3, <2>4
<1>12. Latest' = {new}
  BY <1>1, <1>6, <1>11, CommitIsLatest DEF Recoverable, TypeOK, Latest
<1>13. TypeOK'
  <2>1. InitAcc(ResetRow) \in Accumulator
    BY SeedRow
  <2>2. [a \in RamAddr |-> 0] \in [RamAddr -> Word]
    BY Sizes DEF Word
  <2> QED
    BY <1>1, <1>6, <2>1, <2>2 DEF Recoverable, TypeOK, locals, life
<1>14. RowsOnTrack'
  BY <1>1, <1>7 DEF Recoverable, RowsOnTrack
<1>15. OneRowPerBatch'
  <2>1. \A s \in batch_commit : s.batch_id # new.batch_id
    BY <1>6, <1>11, RowFields DEF Recoverable, TypeOK
  <2> QED
    BY <1>1, <2>1 DEF Recoverable, OneRowPerBatch
<1>16. LatestExists' /\ DoomedIsOld'
  BY <1>1, <1>11, <1>12 DEF Recoverable, LatestExists, DoomedIsOld
<1>17. RamIsKnown'
  <2>1. RamWith(top) = ram
    BY <1>0, <1>8 DEF Recoverable, FlushedIsInRam, RamFlushed, RamWith
  <2>2. Holds(ram, ramt, icount)
    BY <1>2, <1>8, <1>10, <2>1 DEF Recoverable, RamIsKnown
  <2>3. acc.wl \in Seq(Entry(RamAddr)) /\ acc.icount \in Nat /\ ram \subseteq Cell(Nat)
    BY <1>3, AccFields DEF Recoverable, TypeOK
  <2>4. Holds(ram \cup CellsOf(acc.wl, RamBase), Ref[acc.icount].ram, acc.icount)
    <3>1. icount \in Nat /\ icount <= acc.icount
      BY <1>2, <1>3
    <3>2. LogHolds(acc.wl, ramt, icount, Ref[acc.icount].ram, acc.icount)
      BY <1>2
    <3> QED
      BY <2>2, <2>3, <3>1, <3>2, LogOutranksTable
  <2>5. Holds(ram \cup CellsOf(new.wl, RamBase), Ref[new.icount].ram, new.icount)
    BY <1>4, <2>4, Zenon
  <2> QED
    BY <1>1, <1>12, <2>5 DEF RamIsKnown, RamWith
<1>18. FlushedIsInRam' /\ FoldOnTrack'
  BY <1>1 DEF FlushedIsInRam, RamFlushed, FoldOnTrack
<1>19. PositionKnown'
  <2>1. ~ recovering
    BY <1>1 DEF Recoverable, PositionKnown, Flushing
  <2> QED
    BY <1>1, <1>2, <1>4, <1>12, <2>1 DEF PositionKnown, Behind, Flushing, locals
<1> QED
  BY <1>13, <1>14, <1>15, <1>16, <1>17, <1>18, <1>19 DEF Recoverable

=============================================================================
