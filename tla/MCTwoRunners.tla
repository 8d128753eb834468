---------------------------- MODULE MCTwoRunners ----------------------------
(***************************************************************************)
(* A counter in RAM, once round, for two runners.                          *)
(***************************************************************************)
EXTENDS TwoRunners, SequencesExt

Straight == <<[op |-> "alu", imm |-> 1], [op |-> "store", addr |-> 0],
              [op |-> "load", addr |-> 0], [op |-> "alu", imm |-> 1]>>

MCProgram == [pc \in 0 .. Len(Straight) - 1 |-> Straight[pc + 1]]
MCKeys == << >>
Trace == FoldLeft(LAMBDA run, n : Append(run, Step(run[n])), <<Reset>>, [n \in 1 .. LastIcount |-> n])
MCRef == [n \in 0 .. LastIcount |-> Trace[n + 1]]

=============================================================================
