# ClickDOOM: a TLA+ verification project

ClickDOOM runs DOOM inside ClickHouse, in two ways. The *emulation* executes
the game's RISC-V image with one SQL statement per batch of instructions, and
is held to a reference emulator instruction for instruction. The *native*
engine runs the game's own logic as SQL, one tic at a time, fed by a driver
that paces, draws and records. This project models the parts of both in which
steps, processes, crashes and clocks can go wrong, checks the models with TLC,
and proves the main results about the batch loop with TLAPS.

Paths below are relative to the repository root. Line references are those of
`PROJECT.json`, whose `map` gives the lines every definition stands for.

## The system

| Part | Where | What it does | Module |
|---|---|---|---|
| Reference machine | `refemu/src/{exec,memory,mmio,trace}.rs` | fetch, execute, halt, device registers, trace | `Machine` |
| Fold | `executor/src/fold.rs` | one batch as an `arrayFold`: write-logs, high-water mark, in-fold checkpoints | `Fold` |
| Commit and retention | `executor/src/commit.rs`, `sqlcpu/schema.sql` | the five flushes from `batch_commit`, the delete | `BatchLoop` |
| Seed, batch loop, recovery | `driver/src/emulation/{bootstrap,run}.rs` | start, resume, recover, run batches, compare, stop | `BatchLoop`, `TwoRunners` |
| Frame readout, checkpoints | `driver/src/{render,checkpoint}.rs` | `frames_out`, trace comparison | `BatchLoop` |
| Pace | `driver/src/native/pace.rs` | the 35 Hz clock of every native loop | `Pace` |
| Demo over the simulation | `driver/src/cli/native/demo.rs`, `driver/src/native/schedule.rs` | a feeder ahead of the screen and a paced drawing loop | `DemoLoop` |
| Session, resident statements | `driver/src/native/session.rs`, `native/src/resident/stream.rs` | three long-lived INSERTs fed row by row, recovery | planned |
| Play, window input | `driver/src/cli/native/play.rs`, `driver/src/native/window.rs` | live input into the session | planned |
| Opcode arithmetic, decode | `refemu/src/decode.rs`, `sqlcpu/decode.sql`, `fold.rs` | the instruction set, twice | planned |
| Emulation diff | `driver/src/emulation/diff.rs` | search for the first divergence | planned |
| Native simulation and renderer | `native/src/sql/` | a tic and a frame as pure SQL | not modelled |
| Loads, probes, bench, command line | elsewhere | file formats, I/O, measurement | not modelled |

How they interact: the loop inserts one row into `batch_commit` per batch and
derives every other table from that row. The fold reads `ram`, `decoded`,
`input_queue` and the latest row once, when its INSERT begins. A process may
die between any two statements; the next one resumes from the latest row and
redoes that row's derivations first. On the native side the demo's feeder and
its drawing loop are two futures of one task and share a bounded channel, a
counter and the session.

## The modules

**`Machine`** is the reference emulator. The data is reduced to what batching
and recovery can tell apart: one register, small words, one instruction per
kind of effect (register, branch, RAM load and store, framebuffer and palette
store, the four device registers that do not halt, a halt with its reason).
`Step` retires one instruction or leaves the machine as it is. The constant
`Ref` is the run from reset; the assumption `RefIsTheRun` says so, and TLC
evaluates it. Loads from FRAMEBUFFER and PALETTE are absent: SPEC.md section 2
forbids them to the ROM and lets the engines differ on them.

**`Fold`** is one step of the `arrayFold` over its accumulator, field by field.
`LoadWord` looks in the write-log before the table; `AtCheckpoint` records a
boundary one step after it was retired, and never on a batch's first step.

**`BatchLoop`** is `clickdoom emulation run`, one action per SQL statement.

| State | Code |
|---|---|
| `batch_commit`, `ram`, `framebuffer`, `palette`, `console_out`, `cpu_state`, `frames_out` | the tables; a ReplacingMergeTree is the set of all rows inserted, read through `Final` |
| `doomed` | rows an asynchronous delete has matched and not yet removed |
| `at` | the statement the process runs next |
| `k` ... `seen` | the locals of `run` |
| `acc`, `i`, `step_k`, `ramt`, `prev_id` | the INSERT under way: what it read, how far it has folded |
| `stop`, `starts`, `crashes` | how the last process ended, and the bounds |

`SeedCount`, `SeedInsert`, `Resume`, the five `Flush*` actions, `RecoverFrame`,
`StopLoop`, `BeginBatch`, `FoldOne`, `CommitBatch`, `Reread`, `Retention`,
`CompareBatch`, `CompareBoundary`, `ReadFrame` and `Finish` follow `run` from
top to bottom. `Crash` ends the process anywhere and stands for a failed
statement too; `Signal` is ctrl-c once its handler is there; `DeleteDoomed` is
the server removing rows at a time of its own. The flush is shared by recovery
and by a new batch, as in the code.

**`AtomicCommit`** is what SPEC.md section 6 promises: the database, as someone
who recovered it would see it, is at every moment the machine after some number
of instructions, and only moves forward. `BatchLoop` implements it under the
mapping `Observed`: the latest row, and the stored regions with that row's logs
applied.

**`BatchLoopInv`** holds the inductive invariant `Recoverable`.

**`TwoRunners`** puts two instances of `BatchLoop` on the same tables.

**`Pace`** is the clock inside the loop that uses it: a tic's work, the call,
the sleep, which may overshoot. `called` and `called2` are the last two moments
`wait_for_next` was called, `now`, `last2` and `last3` when the last three tics
were let go.

**`DemoLoop`** is `play_sim`. A step of either future runs from one await to
the next, since both are polled by one task: a tic that `recv` returns, the
drain behind it and the look at the counter are one step, and so are the end of
a frame and the drain for the next.

| State | Code |
|---|---|
| `native_state`, `fed` | the table: what each committed tic's row says (played, refused, past the demo's end); the last tic the simulation statement was sent |
| `feeder`, `tic`, `pending` | where `feed_ahead` is, its tic, the message it is blocked sending |
| `channel`, `receiving` | the mpsc channel and its receiver |
| `highest` | the counter the feeder stores and the drawing loop reads |
| `drawer`, `frame`, `counted`, `outcome` | where `drawing_loop` is, its frame, `run.counters.tics`, what it returned |

`Simulate` is the server writing the next row, at a time of its own or never.
`FeedSim`, `WaitSim`, `WaitSimFails` and `SendPending` are the feeder; a wait
may fail whether or not the row has landed. `Begin`, `Receive`, `Draw` and
`DrawFails` are the drawing loop; the first three go on into `AdvanceTo`, which
is `advance_to` up to its await. A tic's line that cannot be written ends the
loop from inside the drain (`committed`), and is dropped by the closing one. The
drawing loop reads `native_state` only as `draw_sim` does, through the refusal
of the frame it waited for; that `highest` agrees with the table is a property.

The proofs are in `FoldProofs`, `TableProofs`, `StepProofs`, `BatchLoopProofs`
and `PaceProofs`.

## The runs

| Run | Result | What it shows |
|---|---|---|
| `batch_loop` | holds, 108,473 states | every committed row, derived table and frame is the reference's across crashes, restarts and late deletes; a run ends, and ends clean; `AtomicCommit` is implemented |
| `checkpoint_count` | violated | a batch that retires a boundary instruction and then halts is compared there twice, and the closing count fails |
| `two_runners` | violated | two runners stop each other between commit and flush, and the restart skips a batch's stores |
| `pace` | holds, 42,176 states | the deadline is never behind its call; no burst, whatever the tics and sleeps take |
| `pace_late` | violated | a slow tic makes a later quick one late |
| `demo_loop` | holds, 5,128 states | frames from played tics, counters exact, stops received, both futures end |
| `lookahead` | violated | draining without drawing lets the feeder past `--lookahead` |
| `stop_past_last_frame` | violated | a refusal past the last requested frame ends the run |

The five violations each state a sentence of the code's own comments;
`PROJECT.json` quotes them under `findings`. None of them says that pixels or
registers are wrong: with one runner, the run that passes shows they are not.

**Bounds.** `batch_loop` runs a 13-instruction loop body over two RAM words,
one framebuffer and one palette word, for 28 instructions: twice round and off
the end of the text, so that frames, key reads, console bytes, two stores to
one word in a batch, the high-water mark (2) and a fatal halt all occur.
Checkpoints every 5 and RAM hashes every 10 instructions fall on batch starts,
batch ends and in between; `--k` of 5 and 9 are on either side of both;
retention keeps 2 batches, so old rows and row 0 do get deleted. Three starts
and two crashes let a crash hit a recovery from a crash. `MaxBatches` (10) is
above the batches these runs commit: a process that reached it would be stuck
there, and `EveryRunEnds` would fail, as it does for a loop that does not leave
at a halt. `checkpoint_count` puts the halt on a checkpoint boundary that is not
a RAM hash boundary, so that one batch can cross it. `pace` has works below,
above and several times the period, and the four tics its property spans.
`demo_loop` has a channel of 3 under 9 tics and 6 frames, so that it fills,
blocks and drains. The violation runs use the smallest instance that
reaches the case.

Deadlock checking is off because every model stops by design: a bounded number
of starts or tics, or both futures done.

**Fairness.** `FairSpec` is weakly fair to `Proceed`, the running process's own
next statement: a process that is not killed runs on, and every statement
returns or fails. Nothing is assumed of starts, signals, crashes or deletes.
`DemoLoop` is weakly fair to each future: `join!` polls both, and every wait on
the session has a timeout. Nothing is assumed of the simulation, which may never
write the row it was sent.

## What is proved

For every program, key sequence, word size, region size, `--k`, target,
interval, retention window, number of starts and number of crashes that satisfy
the named assumptions:

- `AlwaysRecoverable`: `Recoverable` is an invariant of `BatchLoop`;
- `RowsMatchReference`: every row of `batch_commit` is the reference machine at
  that row's icount;
- `LoopReadsCurrentRam`: when the loop is about to run a batch, `ram` read with
  FINAL is the reference's RAM at the icount the process has reached;
- `RowsAreRetained`: the row a statement names has not been deleted;
- `RamIsDense`: no statement adds a word address to `ram`;
- `TypeCorrect`;
- `DeadlineStaysAhead`: the deadline `wait_for_next` leaves is at or after the
  moment it was called, and a period after the call before it;
- `PaceNeverBursts`: any four tics in a row take at least a period.

**The argument.** That rows match the reference is not inductive: a row is
computed from `ram`, so `ram` has to be right when a batch begins, and it is
wrong between a commit and its flush. `Recoverable` says what holds in between.
The latest row is on the reference's track; `ram` is the reference's RAM at that
row's icount once the row's log is applied to it; every version in `ram` is at
most that icount; a delete only has rows older than the latest; and, by `at`,
whether the flush under way still has to apply the log. The batch in progress is
on track relative to the array it read: `FoldStepOnTrack` shows that one fold
step over (log, array) is one `Step` of the machine whose RAM is the array
overlaid with the log. The flush then rests on `LogOutranksTable`: a log entry's
version is the icount its store left behind, which is above every version in the
table, so FINAL picks the log's last store to each word. Redoing a flush adds
rows that are already there. `FoldProofs` has the fold's lemmas, `TableProofs`
the tables' and the simple actions, `StepProofs` the actions that move data,
`BatchLoopProofs` retention, the comparison, and the theorems.

For the clock, `DeadlineAhead` is inductive but says nothing of releases; the
invariant adds that a tic's call is not before the tic ahead of it was let go
(`CallsFollowReleases`). A tic is let go no earlier than the deadline its call
found, that deadline is a period after the call two before, and that call came
after the release three before: hence no burst.

**Assumptions.** `Sizes`, `ProgramIsDecoded`, `RefIsTheRun` (`Machine`),
`FoldConstants` (`Fold`), `LoopConstants` (`BatchLoop`), `PaceConstants`
(`Pace`). `RefIsTheRun` includes that `Ref` is a function into `State`; that
follows from its recursion, but by an induction the prover cannot do.
`LoopConstants` takes `--k` from the positive numbers. The code accepts 0 and
would then commit empty batches without end.

**A limit of the prover.** tlapm 1.4.5's SMT translation does not support `CASE`
expressions: when a definition with one is expanded it prints "Expression not
supported", and can then accept a goal that does not follow. No definition a
proof expands uses one (`Result` and `FoldResult` are chains of IF), and the
proof modules check without that message.

**Only model-checked:** liveness (`EveryRunEnds`, `BothEnd`), the refinement of
`AtomicCommit`, the framebuffer, palette, console and `cpu_state` parts of
`DerivedTablesCurrent`, `FramesOutComplete`, `RunEndsClean`, and `DemoLoop`.

## What is not modelled

- Opcode arithmetic and decoding: the two engines agree on them by construction
  here, through `Program` and `NextPc`. Access widths, alignment and halt
  precedence are folded into an instruction's halt reason.
- Key events that arrive during a run: `Keys` is the queue as it stands. The
  fold reads `input_queue` anew in every batch, so an event inserted between
  batches is seen from there on; the reference trace has no counterpart.
- Hashes: a hash is the value it is taken of.
- The image's data words, which are zero here.
- Preflight, PPM files, statistics: they read, or write what nothing reads.
- The native simulation and renderer: pure functions, far out of TLC's reach.

## Plan

1. `Session`: the three resident statements, what an accepted row means, staged
   and committed tics, waits and timeouts, recovery, close; an abstract "tics
   are committed in order, once" that it implements. Then `play` over it, and
   the demo's feeder composed with it.
2. `Window`: the grab state machine and motion carried between tics, with
   conservation of motion as an action property.
3. `Isa`: opcode arithmetic, alignment and halt precedence of `exec.rs` and of
   `fold.rs` as two operator families over small words, compared exhaustively.
4. `Diff`: the search for the first divergence, over `BatchLoop`'s statements.
5. Small state machines of the simulation: doors, platforms, lights, weapon
   sprites; conservation and termination properties.
6. Proofs: the refinement of `AtomicCommit`; the framebuffer and palette parts
   of `DerivedTablesCurrent`; `DemoLoop`'s safety invariants; `Session`'s.
