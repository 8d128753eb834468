---------------------------- MODULE MCBatchLoop -----------------------------
(***************************************************************************)
(* A program of one loop that counts in RAM, draws, commits a frame, reads *)
(* the clock and the key queue, stores twice to one word and prints.  It   *)
(* goes round while a key was waiting and then runs off the text region.   *)
(***************************************************************************)
EXTENDS BatchLoopInv, SequencesExt

LoopBody ==
    <<[op |-> "load", addr |-> 0], [op |-> "alu", imm |-> 1], [op |-> "store", addr |-> 0],
      [op |-> "load", addr |-> 0], [op |-> "fb", addr |-> 0], [op |-> "frame"], [op |-> "ticks"], [op |-> "store", addr |-> 1],
      [op |-> "keyq"], [op |-> "store", addr |-> 1], [op |-> "putchar"], [op |-> "pal", addr |-> 0],
      [op |-> "branch", tgt |-> 0]>>

MCProgram == [pc \in 0 .. Len(LoopBody) - 1 |-> LoopBody[pc + 1]]
MCKeys == <<3>>

\* The run of the reference from reset, computed once.
Trace == FoldLeft(LAMBDA run, n : Append(run, Step(run[n])), <<Reset>>, [n \in 1 .. LastIcount |-> n])
MCRef == [n \in 0 .. LastIcount |-> Trace[n + 1]]

=============================================================================
