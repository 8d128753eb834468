---------------------------- MODULE BatchLoopInv ----------------------------
(***************************************************************************)
(* Why the batch loop survives a crash: the inductive invariant behind     *)
(* CommittedRowsMatchReference and the loop's RAM.                         *)
(*                                                                         *)
(* The latest row and `ram` together always say what RAM is; until the     *)
(* row's log has been flushed neither does alone.  The log outranks `ram`  *)
(* because every entry's version is the count of its own store, above      *)
(* everything an earlier batch could have written.                         *)
(***************************************************************************)
EXTENDS BatchLoop

\* A row, or an accumulator, is at a point of the reference run.
OnTrack(x) ==
    /\ x.icount \in 0 .. LastIcount
    /\ Ref[x.icount].icount = x.icount
    /\ x.pc = Ref[x.icount].pc
    /\ x.reg = Ref[x.icount].reg
    /\ x.keyq_pos = Ref[x.icount].keyq_pos
    /\ x.halted => Halts(Ref[x.icount])

\* `v` is what FINAL gives for address x: one row of that address is newer
\* than every other.
Newest(cells, x, v) ==
    \E c \in cells : /\ c.addr = x /\ c.val = v
                     /\ \A d \in cells : d.addr = x => d.version < c.version \/ d = c

\* `cells` read with FINAL is `mem`, and nothing in it is newer than n.
Holds(cells, mem, n) ==
    /\ \A a \in RamAddr : Newest(cells, RamBase + a, mem[a])
    /\ \A c \in cells : c.version <= n

\* What RAM is while the latest row is r.
RamWith(r) == ram \cup CellsOf(r.wl, RamBase)

\* The statements that run once the latest row's log is in `ram`.
RamFlushed == {"framebuffer", "palette", "console", "cpu_state", "recover_frame", "retention",
               "compare", "boundary", "frame", "loop", "fold"}

\* The statements between the INSERT and the end of the bookkeeping, when the
\* process still counts from the batch before.
Behind == {"reread", "retention"}
Flushing == {"ram", "framebuffer", "palette", "console", "cpu_state"}

\* The log a fold carries: with the words the batch started from, it is RAM at
\* the count the fold has reached, in the order and with the versions a flush
\* needs.
LogHolds(wl, base, from, mem, n) ==
    /\ \A a \in RamAddr :
          \/ \E j \in DOMAIN wl : /\ wl[j].addr = a /\ wl[j].val = mem[a]
                                  /\ \A l \in DOMAIN wl : l > j => wl[l].addr # a
          \/ base[a] = mem[a] /\ \A j \in DOMAIN wl : wl[j].addr # a
    /\ \A j \in DOMAIN wl : wl[j].icount > from /\ wl[j].icount <= n
    /\ \A j, l \in DOMAIN wl : j < l => wl[j].icount < wl[l].icount

RowsOnTrack == \A r \in batch_commit : OnTrack(r)
OneRowPerBatch == \A r, s \in batch_commit : r.batch_id = s.batch_id => r = s
LatestExists ==
    /\ batch_commit # {} => Latest # {}
    /\ at \notin {"down", "seed", "seed_insert"} => batch_commit # {}
DoomedIsOld == doomed \subseteq batch_commit /\ \A r \in doomed, s \in Latest : r.batch_id < s.batch_id
RamIsKnown ==
    /\ batch_commit = {} => Holds(ram, Ref[0].ram, 0)
    /\ \A r \in Latest : Holds(RamWith(r), Ref[r.icount].ram, r.icount)
FlushedIsInRam == at \in RamFlushed => \A r \in Latest : CellsOf(r.wl, RamBase) \subseteq ram

\* Where the process believes it is, against the latest row.
PositionKnown ==
    /\ recovering => at \in Flushing \cup {"recover_frame"}
    /\ at = "recover_frame" => recovering
    /\ at = "seed_insert" => RowsOf(0) = {}
    /\ \A r \in Latest :
          /\ (at \in Behind \/ (at \in Flushing /\ ~ recovering)) => r.batch_id = batch_id + 1
          /\ (at \in {"retention"} \/ (at \in Flushing /\ ~ recovering)) => seen = r
          /\ (at \in {"compare", "boundary", "frame", "loop", "fold"} \/ recovering) =>
                r.batch_id = batch_id /\ r.icount = icount

FoldOnTrack ==
    at = "fold" =>
        /\ OnTrack(acc)
        /\ prev_id = batch_id
        /\ i <= step_k /\ icount + step_k <= LastIcount
        /\ icount <= acc.icount /\ acc.icount <= icount + i
        /\ ramt = Ref[icount].ram
        /\ LogHolds(acc.wl, ramt, icount, Ref[acc.icount].ram, acc.icount)

\* The whole of it: the batch loop's committed rows, its `ram` table, its
\* position and the fold under way agree with the reference run.
Recoverable ==
    /\ TypeOK
    /\ RowsOnTrack /\ OneRowPerBatch /\ LatestExists /\ DoomedIsOld
    /\ RamIsKnown /\ FlushedIsInRam
    /\ PositionKnown /\ FoldOnTrack

=============================================================================
