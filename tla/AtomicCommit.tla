---------------------------- MODULE AtomicCommit ----------------------------
(***************************************************************************)
(* What the batch protocol promises (SPEC.md section 6): the database, as  *)
(* anyone who recovers it sees it, is at every moment the machine after    *)
(* some number of instructions, and only ever moves to a later one.        *)
(***************************************************************************)
EXTENDS Naturals

CONSTANT Trajectory     \* Trajectory[n]: the machine after n instructions

VARIABLE observed

Init == observed = Trajectory[0]

\* A batch commits: any number of instructions at once, never backwards.
Commit == \E n \in DOMAIN Trajectory :
              /\ n >= observed.icount
              /\ observed' = Trajectory[n]

Spec == Init /\ [][Commit]_observed

=============================================================================
