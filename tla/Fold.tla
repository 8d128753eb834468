-------------------------------- MODULE Fold --------------------------------
(***************************************************************************)
(* One step of the arrayFold that runs a batch (executor/src/fold.rs).     *)
(*                                                                         *)
(* A batch reads the tables once, before its first step.  A store goes to  *)
(* the write-log the accumulator carries, and a load looks there before it *)
(* looks in the array RAMT read.  Every log entry carries the icount its   *)
(* own store retired at, which is the version the flush gives the row.     *)
(***************************************************************************)
EXTENDS Machine

CONSTANTS
    HWM,                  \* --hwm: the write-log length that ends a batch early
    CheckpointInterval    \* CHECKPOINT_INTERVAL

ASSUME FoldConstants == HWM \in Nat /\ CheckpointInterval \in Nat \ {0}

Entry(Addr) == [addr : Addr, val : Word, icount : Nat]
Checkpoint == [icount : Nat, pc : Nat, reg : Word]

Accumulator ==
    [pc : Nat, reg : Word, icount : Nat, stopped : BOOLEAN,
     halted : BOOLEAN, reason : HaltReason \cup {"none"},
     keyq_pos : Nat, has_frame : BOOLEAN, frame_no : Word,
     wl : Seq(Entry(RamAddr)), fb_wl : Seq(Entry(FbAddr)), pal_wl : Seq(Entry(PalAddr)),
     console : Seq(Word), cp : Seq(Checkpoint)]

\* init_acc over the PREV row: position, registers, count and queue position
\* are carried over; logs, control and frame start empty in every batch.
InitAcc(prev) ==
    [pc |-> prev.pc, reg |-> prev.reg, icount |-> prev.icount, stopped |-> FALSE,
     halted |-> FALSE, reason |-> "none",
     keyq_pos |-> prev.keyq_pos, has_frame |-> FALSE, frame_no |-> 0,
     wl |-> << >>, fb_wl |-> << >>, pal_wl |-> << >>,
     console |-> << >>, cp |-> << >>]

\* arrayLastIndex(x -> x = wa, acc.3.1): the latest store to `a` in the log.
Logged(wl, a) == \E j \in DOMAIN wl : wl[j].addr = a
LastIndex(wl, a) ==
    CHOOSE j \in DOMAIN wl : /\ wl[j].addr = a
                             /\ \A l \in DOMAIN wl : l > j => wl[l].addr # a

\* A load that never looks in the write-log.
LoadTableOnly(wl, ramt, a) == ramt[a]

\* The word a load sees: the write-log before the table.
LoadWord(wl, ramt, a) == IF Logged(wl, a) THEN wl[LastIndex(wl, a)].val ELSE ramt[a]

FoldResult(insn, acc, ramt) ==
    IF insn.op = "alu" THEN (acc.reg + insn.imm) % Modulus
    ELSE IF insn.op = "load" THEN LoadWord(acc.wl, ramt, insn.addr)
    ELSE IF insn.op = "ticks" THEN Ticks(acc.icount)
    ELSE IF insn.op = "keyq" THEN KeyAt(acc.keyq_pos)
    ELSE acc.reg

\* Pushing one store onto a log, with the count it leaves behind.
Push(log, store, a, acc) ==
    IF store THEN Append(log, [addr |-> a, val |-> acc.reg, icount |-> acc.icount + 1]) ELSE log

\* A step that would also record the boundary the batch before it ended on.
AtCheckpointAnyStep(acc, i) ==
    /\ ~ acc.stopped
    /\ i >= 0
    /\ acc.icount # 0
    /\ acc.icount % CheckpointInterval = 0

\* The boundary is seen by the step after the one that retired it, on the
\* accumulator that step receives, so a batch's first step never records.
AtCheckpoint(acc, i) ==
    /\ ~ acc.stopped
    /\ i > 0
    /\ acc.icount # 0
    /\ acc.icount % CheckpointInterval = 0

\* (acc, i) -> the step tuple.  A stopped accumulator is carried unchanged to
\* the end of range(k).
FoldStep(acc, i, ramt) ==
    LET insn    == Fetch(acc.pc)
        active  == ~ acc.stopped
        halts   == active /\ insn.op = "halt"
        retires == active /\ insn.op # "halt"
        does(op) == retires /\ insn.op = op
        hitsHwm == does("store") /\ Len(acc.wl) + 1 >= HWM
    IN  [pc        |-> IF retires THEN NextPc(insn, acc) ELSE acc.pc,
         reg       |-> IF retires THEN FoldResult(insn, acc, ramt) ELSE acc.reg,
         icount    |-> IF retires THEN acc.icount + 1 ELSE acc.icount,
         stopped   |-> acc.stopped \/ halts \/ hitsHwm \/ does("frame"),
         halted    |-> acc.halted \/ halts,
         reason    |-> IF halts THEN insn.reason ELSE acc.reason,
         keyq_pos  |-> IF does("keyq") THEN PopFrom(acc.keyq_pos) ELSE acc.keyq_pos,
         has_frame |-> acc.has_frame \/ does("frame"),
         frame_no  |-> IF does("frame") THEN acc.reg ELSE acc.frame_no,
         wl        |-> Push(acc.wl, does("store"), insn.addr, acc),
         fb_wl     |-> Push(acc.fb_wl, does("fb"), insn.addr, acc),
         pal_wl    |-> Push(acc.pal_wl, does("pal"), insn.addr, acc),
         console   |-> IF does("putchar") THEN Append(acc.console, acc.reg) ELSE acc.console,
         cp        |-> IF AtCheckpoint(acc, i)
                       THEN Append(acc.cp, [icount |-> acc.icount, pc |-> acc.pc, reg |-> acc.reg])
                       ELSE acc.cp]

=============================================================================
