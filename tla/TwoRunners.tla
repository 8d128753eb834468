----------------------------- MODULE TwoRunners -----------------------------
(***************************************************************************)
(* Two batch loops on one database.  Nothing stops a second runner: each   *)
(* sees the other only through batch_commit, and only when the row it      *)
(* reads back after its INSERT is not the one it expected (run.rs, the     *)
(* BatchIdMoved check).  The tables are shared; every process variable of  *)
(* BatchLoop appears once per runner.                                      *)
(***************************************************************************)
EXTENDS Fold

CONSTANTS r1, r2, Ks, Targets, RamBase, RamHashInterval, RetentionN, StopAtFrame, MaxStarts,
          MaxCrashes, MaxBatches

VARIABLES
    batch_commit, ram, framebuffer, palette, console_out, cpu_state, frames_out, doomed,
    at1, k1, target1, batch_id1, icount1, resume_icount1, compared1, interrupted1,
    reached_target1, recovering1, seen1, stop1, starts1, crashes1, acc1, i1,
    step_k1, ramt1, prev_id1,
    at2, k2, target2, batch_id2, icount2, resume_icount2, compared2, interrupted2,
    reached_target2, recovering2, seen2, stop2, starts2, crashes2, acc2, i2,
    step_k2, ramt2, prev_id2

tables == <<batch_commit, ram, framebuffer, palette, console_out, cpu_state, frames_out, doomed>>
process1 == <<at1, k1, target1, batch_id1, icount1, resume_icount1, compared1, interrupted1,
              reached_target1, recovering1, seen1, stop1, starts1, crashes1, acc1, i1,
              step_k1, ramt1, prev_id1>>
process2 == <<at2, k2, target2, batch_id2, icount2, resume_icount2, compared2, interrupted2,
              reached_target2, recovering2, seen2, stop2, starts2, crashes2, acc2, i2,
              step_k2, ramt2, prev_id2>>

R1 == INSTANCE BatchLoop
    WITH Me <- r1,
         at <- at1, k <- k1, target <- target1, batch_id <- batch_id1,
         icount <- icount1, resume_icount <- resume_icount1, compared <- compared1,
         interrupted <- interrupted1, reached_target <- reached_target1,
         recovering <- recovering1, seen <- seen1, stop <- stop1, starts <- starts1,
         crashes <- crashes1, acc <- acc1, i <- i1, step_k <- step_k1, ramt <- ramt1,
         prev_id <- prev_id1

R2 == INSTANCE BatchLoop
    WITH Me <- r2,
         at <- at2, k <- k2, target <- target2, batch_id <- batch_id2,
         icount <- icount2, resume_icount <- resume_icount2, compared <- compared2,
         interrupted <- interrupted2, reached_target <- reached_target2,
         recovering <- recovering2, seen <- seen2, stop <- stop2, starts <- starts2,
         crashes <- crashes2, acc <- acc2, i <- i2, step_k <- step_k2, ramt <- ramt2,
         prev_id <- prev_id2

Init == R1!Init /\ R2!Init

\* One statement of one runner at a time.
Next ==
    \/ R1!Next /\ UNCHANGED process2
    \/ R2!Next /\ UNCHANGED process1

Spec == Init /\ [][Next]_<<tables, process1, process2>>

\* run.rs:243: redoing the last row's derivations means "a crash between that
\* write and any of them cannot leave `ram` short of a batch ... that the
\* resume point counts as done".  A runner that has recovered and is about to
\* run a batch finds in `ram` every store of every batch up to its own.
NoBatchLost ==
    at1 = "loop" =>
        R1!RamCells({r \in batch_commit : r.batch_id <= batch_id1}) \subseteq ram

=============================================================================
