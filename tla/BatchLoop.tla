----------------------------- MODULE BatchLoop ------------------------------
(***************************************************************************)
(* `clickdoom emulation run`: the driver's batch loop over a ClickHouse    *)
(* database (driver/src/emulation/run.rs), one action per SQL statement.   *)
(*                                                                         *)
(* A batch is one INSERT into batch_commit.  It reads its inputs when it   *)
(* begins, folds up to step_k instructions over them out of sight of every *)
(* other statement, and its row appears whole or not at all.  Everything   *)
(* else the database holds is derived from that row by the statements that *)
(* follow, and the process may die between any two of them.                *)
(***************************************************************************)
EXTENDS Fold, FiniteSets

CONSTANTS
    Me,                  \* this runner, to tell its rows from another runner's
    Ks,                  \* the --k values a run may be started with
    Targets,             \* the target icounts a run may be given
    RamBase,             \* RAM_BASE >> 2: the word address of RAM word 0
    RamHashInterval,     \* RAM_HASH_INTERVAL
    RetentionN,          \* BATCH_COMMIT_RETENTION_N
    StopAtFrame,         \* --stop-at-frame (a value no frame reaches for none)
    MaxStarts,           \* bound: how many times the program is started
    MaxCrashes,          \* bound: how many of those end in a crash
    MaxBatches           \* bound: above the batches that bounded runs commit

ASSUME LoopConstants ==
    /\ Ks \subseteq Nat \ {0} /\ Ks # {}
    /\ Targets \subseteq 0 .. LastIcount /\ Targets # {}
    /\ RamBase \in Nat
    /\ \E c \in 1 .. RamHashInterval : RamHashInterval = c * CheckpointInterval
    /\ RetentionN \in Nat /\ StopAtFrame \in Nat
    /\ MaxStarts \in Nat /\ MaxCrashes \in Nat /\ MaxBatches \in Nat

VARIABLES
    \* The tables (sqlcpu/schema.sql).
    batch_commit,        \* plain MergeTree: a set of rows, each with its writer
    ram,                 \* ReplacingMergeTree(version): every inserted row
    framebuffer,
    palette,
    console_out,         \* ReplacingMergeTree on seq
    cpu_state,           \* ReplacingMergeTree on batch_id
    frames_out,          \* plain MergeTree
    doomed,              \* rows a DELETE has matched and not yet removed
    \* The process.
    at,                  \* the statement it runs next
    k, target, batch_id, icount, resume_icount, compared, interrupted, reached_target,
    recovering,          \* the flush under way is recover's
    seen,                \* the row read back after the INSERT
    stop,                \* how the last process ended
    starts, crashes,
    \* The INSERT under way.
    acc, i, step_k, ramt, prev_id

tables == <<batch_commit, ram, framebuffer, palette, console_out, cpu_state, frames_out, doomed>>
locals == <<k, target, batch_id, icount, resume_icount, compared, interrupted, reached_target,
            recovering, seen>>
insert == <<acc, i, step_k, ramt, prev_id>>
life == <<stop, starts, crashes>>
vars == <<tables, at, locals, life, insert>>

-----------------------------------------------------------------------------
(* Rows and reads. *)

Cell(Addr) == [addr : Addr, val : Word, version : Nat]

Row == [batch_id : Nat, writer : {Me}, pc : Nat, reg : Word, icount : Nat,
        halted : BOOLEAN, reason : HaltReason \cup {"none"}, keyq_pos : Nat,
        has_frame : BOOLEAN, frame_no : Word,
        wl : Seq(Entry(RamAddr)), fb_wl : Seq(Entry(FbAddr)), pal_wl : Seq(Entry(PalAddr)),
        console : Seq(Word), cp : Seq(Checkpoint)]

RowOf(b, a) ==
    [batch_id |-> b, writer |-> Me, pc |-> a.pc, reg |-> a.reg, icount |-> a.icount,
     halted |-> a.halted, reason |-> a.reason, keyq_pos |-> a.keyq_pos,
     has_frame |-> a.has_frame, frame_no |-> a.frame_no,
     wl |-> a.wl, fb_wl |-> a.fb_wl, pal_wl |-> a.pal_wl, console |-> a.console, cp |-> a.cp]

\* bootstrap::seed's row.
ResetRow == RowOf(0, InitAcc([pc |-> 0, reg |-> 0, icount |-> 0, keyq_pos |-> 0]))

\* ORDER BY batch_id DESC LIMIT 1: a row of the highest batch, any of them
\* when several runners wrote it.
LatestOf(rows) == {r \in rows : \A s \in rows : s.batch_id <= r.batch_id}
Latest == LatestOf(batch_commit)
RowsOf(b) == {r \in batch_commit : r.batch_id = b}

\* FINAL on a ReplacingMergeTree(version): the row of the highest version.
Final(cells, a) ==
    CHOOSE c \in cells : c.addr = a /\ \A d \in cells : d.addr = a => d.version <= c.version

\* The RAMT read, and render::dense_words_sql with its zero fill.
RamWordsOf(cells) == [a \in RamAddr |-> Final(cells, RamBase + a).val]
DenseWords(cells, Addr) ==
    [a \in Addr |-> IF \E c \in cells : c.addr = a THEN Final(cells, a).val ELSE 0]

\* arrayJoin over a log's arrays: one table row per entry, at the entry's own
\* count.  RAM addresses are rebased, the other two regions' are not.
CellsOf(log, base) ==
    {[addr |-> base + log[j].addr, val |-> log[j].val, version |-> log[j].icount] : j \in DOMAIN log}

\* A RAM flush that forgets to rebase.
RamCellsNotRebased(rows) == UNION {CellsOf(r.wl, 0) : r \in rows}
\* A framebuffer flush that rebases.
FbCellsRebased(rows) == UNION {CellsOf(r.fb_wl, RamBase) : r \in rows}

RamCells(rows) == UNION {CellsOf(r.wl, RamBase) : r \in rows}
FbCells(rows) == UNION {CellsOf(r.fb_wl, 0) : r \in rows}
PalCells(rows) == UNION {CellsOf(r.pal_wl, 0) : r \in rows}

\* seq packs the batch above the position, so a byte is its batch, its
\* position and itself.
Bytes(rows) ==
    UNION {{[batch_id |-> r.batch_id, pos |-> j, byte |-> r.console[j]] : j \in DOMAIN r.console} : r \in rows}

CpuRows(rows) ==
    {[batch_id |-> r.batch_id, icount |-> r.icount, pc |-> r.pc, reg |-> r.reg] : r \in rows}

\* render::frame_readout_sql over the tables as they stand.
Readout(b) ==
    {[frame_no |-> r.frame_no, icount |-> r.icount,
      fb |-> DenseWords(framebuffer, FbAddr), palette |-> DenseWords(palette, PalAddr),
      copy |-> <<r.writer, Me>>] :
        r \in {s \in RowsOf(b) : /\ s.has_frame
                                 /\ \A f \in frames_out : f.frame_no # s.frame_no}}

-----------------------------------------------------------------------------
NoRow == ResetRow

Init ==
    /\ batch_commit = {} /\ doomed = {}
    /\ ram = {[addr |-> RamBase + a, val |-> 0, version |-> 0] : a \in RamAddr}
    /\ framebuffer = {} /\ palette = {} /\ console_out = {} /\ cpu_state = {} /\ frames_out = {}
    /\ at = "down"
    /\ k = (CHOOSE x \in Ks : TRUE) /\ target = (CHOOSE x \in Targets : TRUE)
    /\ batch_id = 0 /\ icount = 0 /\ resume_icount = 0 /\ compared = 0
    /\ interrupted = FALSE /\ reached_target = FALSE /\ recovering = FALSE /\ seen = NoRow
    /\ stop = "none" /\ starts = 0 /\ crashes = 0
    /\ acc = InitAcc(ResetRow) /\ i = 0 /\ step_k = 0 /\ prev_id = 0
    /\ ramt = [a \in RamAddr |-> 0]

\* The process and the statement it was running are gone.
Gone ==
    /\ batch_id' = 0 /\ icount' = 0 /\ resume_icount' = 0 /\ compared' = 0
    /\ interrupted' = FALSE /\ reached_target' = FALSE /\ recovering' = FALSE /\ seen' = NoRow
    /\ acc' = InitAcc(ResetRow) /\ i' = 0 /\ step_k' = 0 /\ prev_id' = 0
    /\ ramt' = [a \in RamAddr |-> 0]
    /\ at' = "down"

Exit(how) == Gone /\ stop' = how /\ UNCHANGED <<k, target, starts, crashes>>

\* run: the process starts, with a --k and a target of its own.
Start ==
    /\ at = "down" /\ starts < MaxStarts
    /\ k' \in Ks /\ target' \in Targets
    /\ starts' = starts + 1 /\ stop' = "running" /\ at' = "seed"
    /\ UNCHANGED <<tables, batch_id, icount, resume_icount, compared, interrupted,
                   reached_target, recovering, seen, crashes, insert>>

\* bootstrap::seed: a count, then an insert when it was zero.
SeedCount ==
    /\ at = "seed"
    /\ at' = IF RowsOf(0) = {} THEN "seed_insert" ELSE "resume"
    /\ UNCHANGED <<tables, locals, life, insert>>

SeedInsert ==
    /\ at = "seed_insert"
    /\ batch_commit' = batch_commit \cup {ResetRow}
    /\ at' = "resume"
    /\ UNCHANGED <<ram, framebuffer, palette, console_out, cpu_state, frames_out, doomed,
                   locals, life, insert>>

\* A start that trusts the tables as the last process left them.
ResumeWithoutRecovery ==
    /\ at = "resume"
    /\ \E r \in Latest : /\ batch_id' = r.batch_id
                         /\ icount' = r.icount
                         /\ resume_icount' = r.icount
    /\ at' = "loop"
    /\ UNCHANGED <<tables, k, target, compared, interrupted, reached_target, recovering, seen, life, insert>>

\* The resume point is the latest committed row, whatever was flushed of it.
Resume ==
    /\ at = "resume"
    /\ \E r \in Latest : /\ batch_id' = r.batch_id
                         /\ icount' = r.icount
                         /\ resume_icount' = r.icount
    /\ recovering' = TRUE /\ at' = "ram"
    /\ UNCHANGED <<tables, k, target, compared, interrupted, reached_target, seen, life, insert>>

-----------------------------------------------------------------------------
(* flush: the same five statements for recover and for a new batch. *)

\* Flushing the batch before the one just committed.
FlushIdOffByOne == batch_id

FlushId == IF recovering THEN batch_id ELSE batch_id + 1

FlushRam ==
    /\ at = "ram" /\ at' = "framebuffer"
    /\ ram' = ram \cup RamCells(RowsOf(FlushId))
    /\ UNCHANGED <<batch_commit, framebuffer, palette, console_out, cpu_state, frames_out, doomed,
                   locals, life, insert>>

FlushFramebuffer ==
    /\ at = "framebuffer" /\ at' = "palette"
    /\ framebuffer' = framebuffer \cup FbCells(RowsOf(FlushId))
    /\ UNCHANGED <<batch_commit, ram, palette, console_out, cpu_state, frames_out, doomed,
                   locals, life, insert>>

FlushPalette ==
    /\ at = "palette" /\ at' = "console"
    /\ palette' = palette \cup PalCells(RowsOf(FlushId))
    /\ UNCHANGED <<batch_commit, ram, framebuffer, console_out, cpu_state, frames_out, doomed,
                   locals, life, insert>>

FlushConsole ==
    /\ at = "console" /\ at' = "cpu_state"
    /\ console_out' = console_out \cup Bytes(RowsOf(FlushId))
    /\ UNCHANGED <<batch_commit, ram, framebuffer, palette, cpu_state, frames_out, doomed,
                   locals, life, insert>>

FlushCpuState ==
    /\ at = "cpu_state"
    /\ cpu_state' = cpu_state \cup CpuRows(RowsOf(FlushId))
    /\ at' = IF recovering THEN "recover_frame" ELSE "retention"
    /\ UNCHANGED <<batch_commit, ram, framebuffer, palette, console_out, frames_out, doomed,
                   locals, life, insert>>

\* A recovery that redoes the flushes and not the readout.
RecoverWithoutFrame ==
    /\ at = "recover_frame" /\ at' = "loop"
    /\ recovering' = FALSE
    /\ UNCHANGED <<tables, k, target, batch_id, icount, resume_icount, compared, interrupted,
                   reached_target, seen, life, insert>>

\* recover's last statement.
RecoverFrame ==
    /\ at = "recover_frame" /\ at' = "loop"
    /\ frames_out' = frames_out \cup Readout(batch_id)
    /\ recovering' = FALSE
    /\ UNCHANGED <<batch_commit, ram, framebuffer, palette, console_out, cpu_state, doomed,
                   k, target, batch_id, icount, resume_icount, compared, interrupted, reached_target,
                   seen, life, insert>>

-----------------------------------------------------------------------------
(* The loop. *)

\* Leaving at the top: an interrupt, or the target.
StopLoop ==
    /\ at = "loop"
    /\ interrupted \/ icount >= target
    /\ reached_target' = (~ interrupted)
    /\ at' = "finish"
    /\ UNCHANGED <<tables, k, target, batch_id, icount, resume_icount, compared, interrupted,
                   recovering, seen, life, insert>>

\* A batch never crosses a RAM hash boundary or the target.
StepK ==
    LET boundary  == (icount \div RamHashInterval + 1) * RamHashInterval
        stopAt    == IF boundary < target THEN boundary ELSE target
        remaining == stopAt - icount
    IN  IF remaining > 0 /\ remaining < k THEN remaining ELSE k

\* The INSERT begins: it reads PREV and RAMT.
BeginBatch ==
    /\ at = "loop" /\ ~ interrupted /\ icount < target
    /\ batch_id < MaxBatches
    /\ \E r \in Latest : acc' = InitAcc(r) /\ prev_id' = r.batch_id
    /\ ramt' = RamWordsOf(ram)
    /\ i' = 0 /\ step_k' = StepK
    /\ at' = "fold"
    /\ UNCHANGED <<tables, locals, life>>

FoldOne ==
    /\ at = "fold" /\ i < step_k
    /\ acc' = FoldStep(acc, i, ramt)
    /\ i' = i + 1
    /\ UNCHANGED <<tables, at, locals, life, step_k, ramt, prev_id>>

\* The row becomes visible.
CommitBatch ==
    /\ at = "fold" /\ i = step_k
    /\ batch_commit' = batch_commit \cup {RowOf(prev_id + 1, acc)}
    /\ acc' = InitAcc(ResetRow) /\ i' = 0 /\ step_k' = 0 /\ prev_id' = 0
    /\ ramt' = [a \in RamAddr |-> 0]
    /\ at' = "reread"
    /\ UNCHANGED <<ram, framebuffer, palette, console_out, cpu_state, frames_out, doomed,
                   locals, life>>

\* The latest row has to be the one this batch wrote.
Reread ==
    /\ at = "reread"
    /\ \E r \in Latest :
          IF r.batch_id # batch_id + 1
          THEN Exit("BatchIdMoved")
          ELSE /\ seen' = r /\ at' = "ram"
               /\ UNCHANGED <<k, target, batch_id, icount, resume_icount, compared, interrupted,
                              reached_target, recovering, life, insert>>
    /\ UNCHANGED tables

\* batch_id - n in UInt64, which wraps above every batch for the first n.
RetentionFloorWraps(b) == IF b >= RetentionN THEN b - RetentionN ELSE b + 1 + RetentionN

\* The first batch retention keeps, floored at zero in Int64.
RetentionFloor(b) == IF b > RetentionN THEN b - RetentionN ELSE 0

\* retention_sql: the rows that match now are removed later.
Retention ==
    /\ at = "retention" /\ at' = "compare"
    /\ doomed' = doomed \cup
          {r \in batch_commit :
              r.batch_id < RetentionFloor(batch_id + 1)}
    /\ batch_id' = batch_id + 1 /\ icount' = seen.icount
    /\ UNCHANGED <<batch_commit, ram, framebuffer, palette, console_out, cpu_state, frames_out,
                   k, target, resume_icount, compared, interrupted, reached_target, recovering, seen,
                   life, insert>>

\* compare_batch_checkpoints: every boundary the batch's rows recorded.
CompareBatch ==
    /\ at = "compare"
    /\ LET cps == UNION {{<<r, j>> : j \in DOMAIN r.cp} : r \in RowsOf(batch_id)}
           agrees(c) == c.pc = Ref[c.icount].pc /\ c.reg = Ref[c.icount].reg
       IN  IF \A p \in cps : agrees(p[1].cp[p[2]])
           THEN /\ compared' = compared + Cardinality(cps) /\ at' = "boundary"
                /\ UNCHANGED <<k, target, batch_id, icount, resume_icount, interrupted, reached_target,
                               recovering, seen, life, insert>>
           ELSE Exit("CheckpointMismatch")
    /\ UNCHANGED tables

\* checkpoint_sql and reg_checkpoint_sql against the trace line at icount.
BoundaryAgrees ==
    /\ \E c \in LatestOf(cpu_state) :
          c.icount = icount /\ c.pc = Ref[icount].pc /\ c.reg = Ref[icount].reg
    /\ icount % RamHashInterval = 0 =>
          /\ RamWordsOf(ram) = Ref[icount].ram
          /\ DenseWords(framebuffer, FbAddr) = Ref[icount].fb
          /\ DenseWords(palette, PalAddr) = Ref[icount].palette

\* A loop that goes on after a batch that halted.
AfterBatchRunsOn == IF seen.has_frame THEN "frame" ELSE "loop"

\* Where the loop goes from a batch: a halt leaves it, a frame is read out.
AfterBatch == IF seen.halted THEN "finish" ELSE IF seen.has_frame THEN "frame" ELSE "loop"

\* The boundary the batch ended on, then where the loop goes.
CompareBoundary ==
    /\ at = "boundary"
    /\ LET due == icount % CheckpointInterval = 0 /\ icount > 0
       IN  IF due /\ ~ BoundaryAgrees
           THEN Exit("CheckpointMismatch")
           ELSE /\ compared' = IF due THEN compared + 1 ELSE compared
                /\ at' = AfterBatch
                /\ UNCHANGED <<k, target, batch_id, icount, resume_icount, interrupted, reached_target,
                               recovering, seen, life, insert>>
    /\ UNCHANGED tables

ReadFrame ==
    /\ at = "frame"
    /\ frames_out' = frames_out \cup Readout(batch_id)
    /\ reached_target' = (seen.frame_no >= StopAtFrame)
    /\ at' = IF seen.frame_no >= StopAtFrame THEN "finish" ELSE "loop"
    /\ UNCHANGED <<batch_commit, ram, framebuffer, palette, console_out, cpu_state, doomed,
                   k, target, batch_id, icount, resume_icount, compared, interrupted, recovering, seen,
                   life, insert>>

\* frames_out_span_sql: as many rows as distinct numbers as the span.
FramesOutGap ==
    LET numbers == {f.frame_no : f \in frames_out}
        span    == Cardinality({n \in Word : /\ \E f \in numbers : f <= n
                                             /\ \E f \in numbers : n <= f})
    IN  Cardinality(frames_out) # span \/ Cardinality(numbers) # span

Expected == icount \div CheckpointInterval - resume_icount \div CheckpointInterval

\* After the loop: the two closing checks, then how the run stopped.
Finish ==
    /\ at = "finish"
    /\ Exit(IF FramesOutGap THEN "FramesOutGap"
            ELSE IF compared # Expected THEN "CheckpointCountShortfall"
            ELSE IF interrupted THEN "Interrupted"
            ELSE IF seen.halted /\ icount < target THEN "FatalHalt"
            ELSE IF seen.halted THEN "HaltedAtOrPastTarget"
            ELSE "ReachedTarget")
    /\ UNCHANGED tables

-----------------------------------------------------------------------------
(* The environment. *)

\* ctrl_c, once its handler is installed.
Signal ==
    /\ at \notin {"down", "seed", "seed_insert", "resume"} /\ ~ recovering
    /\ ~ interrupted
    /\ interrupted' = TRUE
    /\ UNCHANGED <<tables, at, k, target, batch_id, icount, resume_icount, compared, reached_target,
                   recovering, seen, life, insert>>

\* The process dies between two statements, or the statement fails: an
\* INSERT under way leaves nothing.
Crash ==
    /\ at # "down" /\ crashes < MaxCrashes
    /\ crashes' = crashes + 1 /\ stop' = "crashed"
    /\ Gone
    /\ UNCHANGED <<tables, k, target, starts>>

\* The server gets round to the rows a DELETE matched.
DeleteDoomed ==
    /\ doomed # {}
    /\ batch_commit' = batch_commit \ doomed /\ doomed' = {}
    /\ UNCHANGED <<ram, framebuffer, palette, console_out, cpu_state, frames_out, at, locals,
                   life, insert>>

\* What the running process does next, when nothing interferes.
Proceed ==
    \/ SeedCount \/ SeedInsert \/ Resume
    \/ FlushRam \/ FlushFramebuffer \/ FlushPalette \/ FlushConsole \/ FlushCpuState
    \/ RecoverFrame
    \/ StopLoop \/ BeginBatch \/ FoldOne \/ CommitBatch \/ Reread
    \/ Retention \/ CompareBatch \/ CompareBoundary \/ ReadFrame \/ Finish

Next == Start \/ Proceed \/ Signal \/ Crash \/ DeleteDoomed

Spec == Init /\ [][Next]_vars

\* The process runs on as long as nobody kills it; nothing makes the user
\* start it, the user interrupt it, or the server delete.
FairSpec == Spec /\ WF_vars(Proceed)

-----------------------------------------------------------------------------
(* Properties. *)

\* Every table holds rows of its schema (schema.sql), with framebuffer and
\* palette addresses inside their windows, and every local of run has its type.
TypeOK ==
    /\ batch_commit \subseteq Row /\ doomed \subseteq Row
    /\ ram \subseteq Cell(Nat) /\ framebuffer \subseteq Cell(FbAddr) /\ palette \subseteq Cell(PalAddr)
    /\ console_out \subseteq [batch_id : Nat, pos : Nat, byte : Word]
    /\ cpu_state \subseteq [batch_id : Nat, icount : Nat, pc : Nat, reg : Word]
    /\ at \in {"down", "seed", "seed_insert", "resume", "ram", "framebuffer", "palette", "console",
               "cpu_state", "recover_frame", "loop", "fold", "reread", "retention", "compare",
               "boundary", "frame", "finish"}
    /\ k \in Ks /\ target \in Targets
    /\ batch_id \in Nat /\ icount \in Nat /\ resume_icount \in Nat /\ compared \in Nat
    /\ interrupted \in BOOLEAN /\ reached_target \in BOOLEAN /\ recovering \in BOOLEAN
    /\ seen \in Row
    /\ starts \in Nat /\ crashes \in Nat
    /\ acc \in Accumulator /\ i \in Nat /\ step_k \in Nat /\ prev_id \in Nat
    /\ ramt \in [RamAddr -> Word]

\* The registers, the position and the input queue position of every row in
\* batch_commit are the reference emulator's at that row's icount, however
\* the run was cut into batches, processes and --k values on the way there.
CommittedRowsMatchReference ==
    \A r \in batch_commit :
        /\ r.icount \in DOMAIN Ref
        /\ LET m == Ref[r.icount] IN
              /\ r.icount = m.icount /\ r.pc = m.pc /\ r.reg = m.reg /\ r.keyq_pos = m.keyq_pos
              /\ r.halted => Halts(m)

\* The console_out rows in seq order are the bytes the reference wrote.
ConsoleIs(bytes) ==
    LET before(c) == {d \in console_out : \/ d.batch_id < c.batch_id
                                          \/ d.batch_id = c.batch_id /\ d.pos <= c.pos}
    IN  /\ Cardinality(console_out) = Len(bytes)
        /\ \A c \in console_out : bytes[Cardinality(before(c))] = c.byte

\* Whenever the loop is about to look for work, every derived table is the
\* reference machine at the icount the process believes it has reached: no
\* crash between a commit and a flush leaves a batch to start from old words.
DerivedTablesCurrent ==
    at = "loop" =>
        LET m == Ref[icount] IN
        /\ RamWordsOf(ram) = m.ram
        /\ DenseWords(framebuffer, FbAddr) = m.fb
        /\ DenseWords(palette, PalAddr) = m.palette
        /\ ConsoleIs(m.console)
        /\ \A c \in LatestOf(cpu_state) : c.icount = icount /\ c.pc = m.pc /\ c.reg = m.reg

\* Nothing ever adds a word address to `ram`, which a batch indexes by
\* position: one stray row would shift every word above it.
RamStaysDense == {c.addr : c \in ram} = {RamBase + a : a \in RamAddr}

\* By the time the loop looks for work again, frames_out holds every frame
\* committed so far, once, with the pixels of the moment of its commit.
FramesOutComplete ==
    at = "loop" =>
        /\ {[frame_no |-> f.frame_no, icount |-> f.icount, fb |-> f.fb, palette |-> f.palette] :
               f \in frames_out} = Ref[icount].frames
        /\ Cardinality(frames_out) = Cardinality(Ref[icount].frames)

\* The row a flush, a readout or a comparison names is still in batch_commit
\* when the statement runs, however late the server deletes old rows.
NamedRowIsRetained ==
    /\ at \in {"ram", "framebuffer", "palette", "console", "cpu_state", "recover_frame", "retention"}
        => RowsOf(FlushId) # {}
    /\ at \in {"compare", "boundary", "frame"} => RowsOf(batch_id) # {}

\* A machine that stopped exactly on a checkpoint boundary.
HaltedOnBoundary ==
    \E r \in batch_commit : r.halted /\ r.icount > 0 /\ r.icount % CheckpointInterval = 0

\* With one runner and a fold that agrees with the reference, no run ends in
\* a checkpoint mismatch, a frames_out gap or a moved batch id, and the
\* closing count of comparisons is exact unless the machine halted on a
\* checkpoint boundary.
RunEndsClean ==
    /\ stop \notin {"CheckpointMismatch", "FramesOutGap", "BatchIdMoved"}
    /\ stop = "CheckpointCountShortfall" => HaltedOnBoundary

\* run.rs:451: "Every boundary between where this process resumed and where
\* it stopped had to produce exactly one comparison."
EveryBoundaryComparedOnce == stop # "CheckpointCountShortfall"

\* A process that is not killed comes to an end: every batch of one or more
\* steps retires an instruction, or halts and is the last one (run.rs:399).  A
\* loop that went on committing batches would stop at MaxBatches, and not at
\* an end of its own.
EveryRunEnds == (at # "down") ~> (at = "down")

\* What anyone would find who recovered now: the latest row, and the stored
\* regions with that row's logs applied.
Observed ==
    IF batch_commit = {} THEN
        [pc |-> 0, reg |-> 0, icount |-> 0, keyq_pos |-> 0, ram |-> RamWordsOf(ram),
         fb |-> DenseWords(framebuffer, FbAddr), palette |-> DenseWords(palette, PalAddr)]
    ELSE LET r == CHOOSE x \in Latest : TRUE IN
        [pc |-> r.pc, reg |-> r.reg, icount |-> r.icount, keyq_pos |-> r.keyq_pos,
         ram |-> RamWordsOf(ram \cup RamCells({r})),
         fb |-> DenseWords(framebuffer \cup FbCells({r}), FbAddr),
         palette |-> DenseWords(palette \cup PalCells({r}), PalAddr)]

\* The part of a machine a batch carries over to the next.
View(m) == [pc |-> m.pc, reg |-> m.reg, icount |-> m.icount, keyq_pos |-> m.keyq_pos,
            ram |-> m.ram, fb |-> m.fb, palette |-> m.palette]

AC == INSTANCE AtomicCommit
      WITH observed <- Observed, Trajectory <- [n \in 0 .. LastIcount |-> View(Ref[n])]

\* SPEC.md section 6: the batches implement a machine that moves from one
\* reference state to a later one in a single step, and never shows a state
\* in between.
ImplementsAtomicCommit == AC!Spec

=============================================================================
