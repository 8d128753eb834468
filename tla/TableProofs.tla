---------------------------- MODULE TableProofs -----------------------------
(***************************************************************************)
(* What the tables give: a committed log outranks whatever the table holds, *)
(* deleting old rows leaves the latest, and the statements that touch      *)
(* neither rows nor RAM keep the invariant.                                *)
(***************************************************************************)
EXTENDS FoldProofs

-----------------------------------------------------------------------------
(* What a FINAL read gives, before and after a flush. *)

\* FINAL gives the value of the newest row of an address.
LEMMA FinalIsNewest ==
    ASSUME NEW cells, cells \subseteq Cell(Nat), NEW x, NEW v, Newest(cells, x, v)
    PROVE  Final(cells, x).val = v
<1>1. PICK c \in cells : /\ c.addr = x /\ c.val = v
                         /\ \A d \in cells : d.addr = x => d.version < c.version \/ d = c
  BY DEF Newest
<1>2. \A d \in cells : d.version \in Nat
  BY DEF Cell
<1> DEFINE P(d) == d.addr = x /\ \A e \in cells : e.addr = x => e.version <= d.version
<1>3. P(c)
  BY <1>1, <1>2
<1>4. Final(cells, x) = CHOOSE d \in cells : P(d)
  BY DEF Final
<1>5. Final(cells, x) \in cells /\ P(Final(cells, x))
  BY <1>3, <1>4
<1>6. Final(cells, x) = c
  BY <1>1, <1>2, <1>5
<1> QED
  BY <1>1, <1>6

\* The RAMT read of a table that holds `mem` is `mem`.
LEMMA ReadIsRam ==
    ASSUME NEW cells, cells \subseteq Cell(Nat), NEW mem \in [RamAddr -> Word], NEW n,
           Holds(cells, mem, n)
    PROVE  RamWordsOf(cells) = mem
<1>1. \A a \in RamAddr : Final(cells, RamBase + a).val = mem[a]
  BY FinalIsNewest DEF Holds
<1> QED
  BY <1>1 DEF RamWordsOf

\* The rows a flush inserts are rows of the table's type.
LEMMA CellsType ==
    ASSUME NEW A, NEW B, NEW base, \A a \in A : base + a \in B, NEW log \in Seq(Entry(A))
    PROVE  CellsOf(log, base) \subseteq Cell(B)
<1>1. \A l \in DOMAIN log : log[l] \in Entry(A)
  OBVIOUS
<1>2. \A l \in DOMAIN log : log[l].addr \in A /\ log[l].val \in Word /\ log[l].icount \in Nat
  BY <1>1 DEF Entry
<1> QED
  BY <1>2 DEF CellsOf, Cell

\* A committed log outranks the table: flushed over the words its batch read,
\* it makes the table RAM at the count the batch reached.
LEMMA LogOutranksTable ==
    ASSUME NEW cells, cells \subseteq Cell(Nat), NEW base, NEW mem,
           NEW from \in Nat, NEW n \in Nat, from <= n,
           NEW wl \in Seq(Entry(RamAddr)),
           Holds(cells, base, from), LogHolds(wl, base, from, mem, n)
    PROVE  Holds(cells \cup CellsOf(wl, RamBase), mem, n)
<1> DEFINE flushed == CellsOf(wl, RamBase)
           row(j) == [addr |-> RamBase + wl[j].addr, val |-> wl[j].val, version |-> wl[j].icount]
<1>1. \A j \in DOMAIN wl : wl[j] \in Entry(RamAddr)
  OBVIOUS
<1>2. \A j \in DOMAIN wl : wl[j].addr \in RamAddr /\ wl[j].icount \in Nat
  BY <1>1 DEF Entry
<1>3. \A d \in cells : d.version \in Nat /\ d.version <= from
  BY DEF Cell, Holds
<1>4. /\ \A d \in flushed : \E j \in DOMAIN wl : d = row(j)
      /\ \A j \in DOMAIN wl : row(j) \in flushed
  BY DEF CellsOf
<1>5. /\ \A j \in DOMAIN wl : wl[j].icount > from /\ wl[j].icount <= n
      /\ \A j, l \in DOMAIN wl : j < l => wl[j].icount < wl[l].icount
  BY DEF LogHolds
<1>6. DOMAIN wl \subseteq Nat
  OBVIOUS
<1>7. \A a, b \in RamAddr : RamBase + a = RamBase + b => a = b
  BY LoopConstants, Sizes DEF RamAddr
<1> HIDE DEF flushed
<1>8. ASSUME NEW a \in RamAddr
      PROVE  Newest(cells \cup flushed, RamBase + a, mem[a])
  <2>1. CASE \E j \in DOMAIN wl : /\ wl[j].addr = a /\ wl[j].val = mem[a]
                                   /\ \A l \in DOMAIN wl : l > j => wl[l].addr # a
    <3>1. PICK j \in DOMAIN wl : /\ wl[j].addr = a /\ wl[j].val = mem[a]
                                 /\ \A l \in DOMAIN wl : l > j => wl[l].addr # a
      BY <2>1
    <3>2. /\ row(j) \in cells \cup flushed
          /\ row(j).addr = RamBase + a /\ row(j).val = mem[a] /\ row(j).version = wl[j].icount
      BY <1>4, <3>1
    <3>3. ASSUME NEW d \in cells PROVE d.version < wl[j].icount
      BY <1>2, <1>3, <1>5
    <3>4. ASSUME NEW d \in flushed, d.addr = RamBase + a
          PROVE  d.version < wl[j].icount \/ d = row(j)
      <4>1. PICK l \in DOMAIN wl : d = row(l)
        BY <1>4
      <4>2. wl[l].addr = a /\ d.version = wl[l].icount
        BY <1>2, <1>7, <3>4, <4>1
      <4>3. l < j \/ l = j
        BY <1>6, <3>1, <4>2
      <4> QED
        BY <1>5, <4>1, <4>2, <4>3
    <3> QED
      BY <3>2, <3>3, <3>4 DEF Newest
  <2>2. CASE base[a] = mem[a] /\ \A j \in DOMAIN wl : wl[j].addr # a
    <3>1. PICK c \in cells : /\ c.addr = RamBase + a /\ c.val = mem[a]
                             /\ \A d \in cells : d.addr = RamBase + a => d.version < c.version \/ d = c
      BY <2>2 DEF Holds, Newest
    <3>2. \A d \in flushed : d.addr # RamBase + a
      BY <1>2, <1>4, <1>7, <2>2
    <3> QED
      BY <3>1, <3>2 DEF Newest
  <2> QED
    BY <2>1, <2>2 DEF LogHolds
<1>9. \A d \in cells \cup flushed : d.version <= n
  BY <1>2, <1>3, <1>4, <1>5
<1> QED
  BY <1>8, <1>9 DEF Holds, flushed

-----------------------------------------------------------------------------
(* Rows of batch_commit. *)

\* The fields of a row.
LEMMA RowFields ==
    ASSUME NEW r \in Row
    PROVE  /\ r.batch_id \in Nat /\ r.pc \in Nat /\ r.reg \in Word /\ r.icount \in Nat
           /\ r.keyq_pos \in Nat
           /\ r.wl \in Seq(Entry(RamAddr)) /\ r.fb_wl \in Seq(Entry(FbAddr))
           /\ r.pal_wl \in Seq(Entry(PalAddr)) /\ r.console \in Seq(Word)
  BY DEF Row

\* The row a batch commits.
LEMMA RowOfType ==
    ASSUME NEW b \in Nat, NEW x \in Accumulator
    PROVE  RowOf(b, x) \in Row
<1>1. /\ x.pc \in Nat /\ x.reg \in Word /\ x.icount \in Nat
      /\ x.stopped \in BOOLEAN /\ x.halted \in BOOLEAN
      /\ x.reason \in HaltReason \cup {"none"}
      /\ x.keyq_pos \in Nat /\ x.has_frame \in BOOLEAN /\ x.frame_no \in Word
      /\ x.wl \in Seq(Entry(RamAddr)) /\ x.fb_wl \in Seq(Entry(FbAddr))
      /\ x.pal_wl \in Seq(Entry(PalAddr))
      /\ x.console \in Seq(Word) /\ x.cp \in Seq(Checkpoint)
  BY AccFields
<1> QED
  BY <1>1 DEF RowOf, Row

\* What it takes from the accumulator.
LEMMA RowOfFields ==
    ASSUME NEW b, NEW x
    PROVE  LET r == RowOf(b, x) IN
           /\ r.batch_id = b /\ r.icount = x.icount /\ r.pc = x.pc /\ r.reg = x.reg
           /\ r.keyq_pos = x.keyq_pos /\ r.halted = x.halted /\ r.wl = x.wl
  BY Zenon DEF RowOf

\* What a batch takes over from the row before it.
LEMMA InitAccFields ==
    ASSUME NEW p
    PROVE  LET x == InitAcc(p) IN
           /\ x.icount = p.icount /\ x.pc = p.pc /\ x.reg = p.reg
           /\ x.keyq_pos = p.keyq_pos /\ ~ x.halted /\ x.wl = << >>
  BY Zenon DEF InitAcc

\* The seed's row is the reset state of the reference run.
LEMMA SeedRow ==
    /\ ResetRow \in Row /\ ResetRow.batch_id = 0 /\ ResetRow.icount = 0
    /\ ResetRow.wl = << >> /\ OnTrack(ResetRow) /\ InitAcc(ResetRow) \in Accumulator
<1> DEFINE p == [pc |-> 0, reg |-> 0, icount |-> 0, keyq_pos |-> 0]
<1>1. 0 \in Word /\ 0 \in 0 .. LastIcount
  BY Sizes DEF Word
<1>2. p.pc = 0 /\ p.reg = 0 /\ p.icount = 0 /\ p.keyq_pos = 0
  OBVIOUS
<1>3. InitAcc(p) \in Accumulator
  BY <1>1, <1>2, InitAccType
<1>4. ResetRow = RowOf(0, InitAcc(p))
  BY DEF ResetRow
<1> HIDE DEF p
<1>5. ResetRow \in Row
  BY <1>3, <1>4, RowOfType
<1>6. /\ ResetRow.batch_id = 0 /\ ResetRow.icount = 0 /\ ResetRow.pc = 0 /\ ResetRow.reg = 0
      /\ ResetRow.keyq_pos = 0 /\ ~ ResetRow.halted /\ ResetRow.wl = << >>
  BY Zenon DEF ResetRow, RowOf, InitAcc
<1>7. Ref[0].icount = 0 /\ Ref[0].pc = 0 /\ Ref[0].reg = 0 /\ Ref[0].keyq_pos = 0
  BY RefIsTheRun DEF Reset
<1>8. OnTrack(ResetRow)
  BY <1>1, <1>6, <1>7 DEF OnTrack
<1>9. InitAcc(ResetRow) \in Accumulator
  BY <1>1, <1>6, InitAccType
<1> QED
  BY <1>5, <1>6, <1>8, <1>9

\* A batch numbered above all others is the latest.
LEMMA CommitIsLatest ==
    ASSUME NEW rows, rows \subseteq Row, NEW r \in Row,
           \A s \in rows : s.batch_id < r.batch_id
    PROVE  LatestOf(rows \cup {r}) = {r}
<1>1. \A s \in rows \cup {r} : s.batch_id \in Nat
  BY RowFields
<1> QED
  BY <1>1 DEF LatestOf

\* Deleting rows older than the latest leaves the latest.
LEMMA DeleteKeepsLatest ==
    ASSUME NEW rows, rows \subseteq Row, NEW dead, dead \subseteq Row,
           rows # {} => LatestOf(rows) # {},
           \A r \in dead : \A s \in LatestOf(rows) : r.batch_id < s.batch_id
    PROVE  LatestOf(rows \ dead) = LatestOf(rows)
<1>1. CASE rows = {}
  BY <1>1
<1>2. CASE rows # {}
  <2>1. PICK top \in LatestOf(rows) : TRUE
    BY <1>2
  <2>2. top \in rows \ dead /\ \A s \in rows : s.batch_id <= top.batch_id
    BY <2>1, RowFields DEF LatestOf
  <2>3. \A s \in rows : s.batch_id \in Nat
    BY RowFields
  <2>4. ASSUME NEW r \in LatestOf(rows \ dead) PROVE r \in LatestOf(rows)
    BY <2>2, <2>3 DEF LatestOf
  <2>5. ASSUME NEW r \in LatestOf(rows) PROVE r \in LatestOf(rows \ dead)
    BY <2>3 DEF LatestOf
  <2> QED
    BY <2>4, <2>5
<1> QED
  BY <1>1, <1>2

\* Seeding an empty table makes the reset row the latest; seeding one that
\* lost its batch zero to retention changes nothing.
LEMMA SeedKeepsLatest ==
    ASSUME NEW rows, rows \subseteq Row, rows # {}, \A r \in rows : r.batch_id # 0
    PROVE  LatestOf(rows \cup {ResetRow}) = LatestOf(rows)
<1>1. \A r \in rows : r.batch_id \in Nat /\ r.batch_id > 0
  BY RowFields
<1> QED
  BY <1>1, SeedRow DEF LatestOf

-----------------------------------------------------------------------------
(* The steps that leave batch_commit, ram and the pending deletes alone and *)
(* keep the invariant.                                                      *)

\* What depends on those three only.
LEMMA RowsStay ==
    ASSUME Recoverable, UNCHANGED <<batch_commit, ram, doomed>>
    PROVE  /\ RowsOnTrack' /\ OneRowPerBatch' /\ DoomedIsOld' /\ RamIsKnown'
           /\ Latest' = Latest /\ (batch_commit # {} => Latest # {})'
<1>1. Latest' = Latest
  BY DEF Latest
<1>2. RowsOnTrack' /\ OneRowPerBatch'
  BY DEF Recoverable, RowsOnTrack, OneRowPerBatch
<1>3. DoomedIsOld' /\ (batch_commit # {} => Latest # {})'
  BY <1>1 DEF Recoverable, DoomedIsOld, LatestExists
<1>4. RamIsKnown'
  BY <1>1 DEF Recoverable, RamIsKnown, RamWith
<1> QED
  BY <1>1, <1>2, <1>3, <1>4

\* The process ends, however it ends.
LEMMA GoneStep ==
    ASSUME Recoverable, Gone, UNCHANGED tables,
           k' \in Ks, target' \in Targets, starts' \in Nat, crashes' \in Nat
    PROVE  Recoverable'
<1>1. ResetRow \in Row /\ InitAcc(ResetRow) \in Accumulator
  BY SeedRow
<1>2. [a \in RamAddr |-> 0] \in [RamAddr -> Word]
  BY Sizes DEF Word
<1>3. TypeOK'
  BY <1>1, <1>2 DEF Recoverable, TypeOK, Gone, NoRow, tables
<1>4. LatestExists' /\ FlushedIsInRam' /\ PositionKnown' /\ FoldOnTrack'
  BY RowsStay DEF Gone, tables, LatestExists, FlushedIsInRam, RamFlushed, PositionKnown,
                  Behind, Flushing, FoldOnTrack
<1> QED
  BY <1>3, <1>4, RowsStay DEF Recoverable, tables

\* run is started.
LEMMA StartStep ==
    ASSUME Recoverable, Start
    PROVE  Recoverable'
<1>1. TypeOK'
  BY DEF Recoverable, TypeOK, Start, tables, insert
<1>2. LatestExists' /\ FlushedIsInRam' /\ PositionKnown' /\ FoldOnTrack'
  BY RowsStay DEF Start, tables, Recoverable, LatestExists, FlushedIsInRam, RamFlushed,
                  PositionKnown, Behind, Flushing, FoldOnTrack
<1> QED
  BY <1>1, <1>2, RowsStay DEF Recoverable, Start, tables

\* seed counts the rows of batch zero.
LEMMA SeedCountStep ==
    ASSUME Recoverable, SeedCount
    PROVE  Recoverable'
<1>1. TypeOK'
  BY DEF Recoverable, TypeOK, SeedCount, tables, locals, life, insert
<1>2. LatestExists' /\ FlushedIsInRam' /\ PositionKnown' /\ FoldOnTrack'
  BY RowsStay DEF SeedCount, tables, locals, Recoverable, LatestExists, FlushedIsInRam, RamFlushed,
                  PositionKnown, Behind, Flushing, FoldOnTrack, RowsOf
<1> QED
  BY <1>1, <1>2, RowsStay DEF Recoverable, SeedCount, tables

\* The resume point is read.
LEMMA ResumeStep ==
    ASSUME Recoverable, Resume
    PROVE  Recoverable'
<1>1. PICK r \in Latest : batch_id' = r.batch_id /\ icount' = r.icount /\ resume_icount' = r.icount
  BY DEF Resume
<1>2. r \in Row
  BY DEF Recoverable, TypeOK, Latest, LatestOf
<1>3. \A s \in Latest : s = r
  <2>1. \A s \in Latest : s \in Row /\ s \in batch_commit /\ r \in batch_commit
    BY DEF Recoverable, TypeOK, Latest, LatestOf
  <2>2. \A s \in Latest : s.batch_id <= r.batch_id /\ r.batch_id <= s.batch_id
    BY <2>1 DEF Latest, LatestOf
  <2>3. \A s \in Latest : s.batch_id = r.batch_id
    BY <1>2, <2>1, <2>2, RowFields
  <2> QED
    BY <2>1, <2>3 DEF Recoverable, OneRowPerBatch
<1>4. TypeOK'
  BY <1>1, <1>2, RowFields DEF Recoverable, TypeOK, Resume, tables, life, insert
<1>5. LatestExists' /\ FlushedIsInRam' /\ FoldOnTrack'
  BY RowsStay DEF Resume, tables, Recoverable, LatestExists, FlushedIsInRam, RamFlushed, FoldOnTrack
<1>6. PositionKnown'
  BY <1>1, <1>3, RowsStay DEF Resume, tables, PositionKnown, Behind, Flushing
<1> QED
  BY <1>4, <1>5, <1>6, RowsStay DEF Recoverable, Resume, tables

\* The rows a flush selects are rows.
LEMMA FlushedRows ==
    ASSUME TypeOK, NEW b
    PROVE  \A r \in RowsOf(b) : r \in Row
  BY DEF TypeOK, RowsOf

\* The framebuffer flush.
LEMMA FlushFramebufferStep ==
    ASSUME Recoverable, FlushFramebuffer
    PROVE  Recoverable'
<1>1. TypeOK'
  <2>1. FbCells(RowsOf(FlushId)) \subseteq Cell(FbAddr)
    <3>1. \A a \in FbAddr : 0 + a \in FbAddr
      BY Sizes DEF FbAddr
    <3>2. \A r \in RowsOf(FlushId) : r.fb_wl \in Seq(Entry(FbAddr))
      BY FlushedRows, RowFields DEF Recoverable
    <3>3. \A r \in RowsOf(FlushId) : CellsOf(r.fb_wl, 0) \subseteq Cell(FbAddr)
      BY <3>1, <3>2, CellsType
    <3> QED
      BY <3>3 DEF FbCells
  <2> QED
    BY <2>1 DEF Recoverable, TypeOK, FlushFramebuffer, locals, life, insert
<1>2. LatestExists' /\ FlushedIsInRam' /\ PositionKnown' /\ FoldOnTrack'
  BY RowsStay DEF FlushFramebuffer, tables, locals, life, Recoverable, LatestExists, FlushedIsInRam, RamFlushed,
                  PositionKnown, Behind, Flushing, FoldOnTrack
<1> QED
  BY <1>1, <1>2, RowsStay DEF Recoverable, FlushFramebuffer, tables

\* The palette flush.
LEMMA FlushPaletteStep ==
    ASSUME Recoverable, FlushPalette
    PROVE  Recoverable'
<1>1. TypeOK'
  <2>1. PalCells(RowsOf(FlushId)) \subseteq Cell(PalAddr)
    <3>1. \A a \in PalAddr : 0 + a \in PalAddr
      BY Sizes DEF PalAddr
    <3>2. \A r \in RowsOf(FlushId) : r.pal_wl \in Seq(Entry(PalAddr))
      BY FlushedRows, RowFields DEF Recoverable
    <3>3. \A r \in RowsOf(FlushId) : CellsOf(r.pal_wl, 0) \subseteq Cell(PalAddr)
      BY <3>1, <3>2, CellsType
    <3> QED
      BY <3>3 DEF PalCells
  <2> QED
    BY <2>1 DEF Recoverable, TypeOK, FlushPalette, locals, life, insert
<1>2. LatestExists' /\ FlushedIsInRam' /\ PositionKnown' /\ FoldOnTrack'
  BY RowsStay DEF FlushPalette, tables, locals, life, Recoverable, LatestExists, FlushedIsInRam, RamFlushed,
                  PositionKnown, Behind, Flushing, FoldOnTrack
<1> QED
  BY <1>1, <1>2, RowsStay DEF Recoverable, FlushPalette, tables

\* The console flush.
LEMMA FlushConsoleStep ==
    ASSUME Recoverable, FlushConsole
    PROVE  Recoverable'
<1>1. TypeOK'
  <2>1. Bytes(RowsOf(FlushId)) \subseteq [batch_id : Nat, pos : Nat, byte : Word]
    <3>1. \A r \in RowsOf(FlushId) : r.batch_id \in Nat /\ r.console \in Seq(Word)
      BY FlushedRows, RowFields DEF Recoverable
    <3>2. \A r \in RowsOf(FlushId) : \A j \in DOMAIN r.console : j \in Nat /\ r.console[j] \in Word
      BY <3>1
    <3> QED
      BY <3>1, <3>2 DEF Bytes
  <2> QED
    BY <2>1 DEF Recoverable, TypeOK, FlushConsole, locals, life, insert
<1>2. LatestExists' /\ FlushedIsInRam' /\ PositionKnown' /\ FoldOnTrack'
  BY RowsStay DEF FlushConsole, tables, locals, life, Recoverable, LatestExists, FlushedIsInRam, RamFlushed,
                  PositionKnown, Behind, Flushing, FoldOnTrack
<1> QED
  BY <1>1, <1>2, RowsStay DEF Recoverable, FlushConsole, tables

\* The cpu_state flush, the last of the five.
LEMMA FlushCpuStateStep ==
    ASSUME Recoverable, FlushCpuState
    PROVE  Recoverable'
<1>1. TypeOK'
  <2>1. CpuRows(RowsOf(FlushId)) \subseteq [batch_id : Nat, icount : Nat, pc : Nat, reg : Word]
    BY FlushedRows, RowFields DEF Recoverable, CpuRows
  <2> QED
    BY <2>1 DEF Recoverable, TypeOK, FlushCpuState, locals, life, insert
<1>2. LatestExists' /\ FlushedIsInRam' /\ PositionKnown' /\ FoldOnTrack'
  BY RowsStay DEF FlushCpuState, tables, locals, life, Recoverable, LatestExists, FlushedIsInRam, RamFlushed,
                  PositionKnown, Behind, Flushing, FoldOnTrack
<1> QED
  BY <1>1, <1>2, RowsStay DEF Recoverable, FlushCpuState, tables

\* recover's readout; the loop begins.
LEMMA RecoverFrameStep ==
    ASSUME Recoverable, RecoverFrame
    PROVE  Recoverable'
<1>1. TypeOK'
  BY DEF Recoverable, TypeOK, RecoverFrame, tables, locals, life, insert
<1>2. LatestExists' /\ FlushedIsInRam' /\ PositionKnown' /\ FoldOnTrack'
  BY RowsStay DEF RecoverFrame, tables, locals, life, Recoverable, LatestExists, FlushedIsInRam, RamFlushed,
                  PositionKnown, Behind, Flushing, FoldOnTrack
<1> QED
  BY <1>1, <1>2, RowsStay DEF Recoverable, RecoverFrame, tables

\* The loop is left at its top.
LEMMA StopLoopStep ==
    ASSUME Recoverable, StopLoop
    PROVE  Recoverable'
<1>1. TypeOK'
  BY DEF Recoverable, TypeOK, StopLoop, tables, locals, life, insert
<1>2. LatestExists' /\ FlushedIsInRam' /\ PositionKnown' /\ FoldOnTrack'
  BY RowsStay DEF StopLoop, tables, locals, life, Recoverable, LatestExists, FlushedIsInRam, RamFlushed,
                  PositionKnown, Behind, Flushing, FoldOnTrack
<1> QED
  BY <1>1, <1>2, RowsStay DEF Recoverable, StopLoop, tables

\* A frame is read out.
LEMMA ReadFrameStep ==
    ASSUME Recoverable, ReadFrame
    PROVE  Recoverable'
<1>1. TypeOK'
  BY DEF Recoverable, TypeOK, ReadFrame, tables, locals, life, insert
<1>2. LatestExists' /\ FlushedIsInRam' /\ PositionKnown' /\ FoldOnTrack'
  BY RowsStay DEF ReadFrame, tables, locals, life, Recoverable, LatestExists, FlushedIsInRam, RamFlushed,
                  PositionKnown, Behind, Flushing, FoldOnTrack
<1> QED
  BY <1>1, <1>2, RowsStay DEF Recoverable, ReadFrame, tables

\* An interrupt only raises the flag the loop reads at its top.
LEMMA SignalStep ==
    ASSUME Recoverable, Signal
    PROVE  Recoverable'
<1>1. TypeOK'
  BY DEF Recoverable, TypeOK, Signal, tables, locals, life, insert
<1>2. LatestExists' /\ FlushedIsInRam' /\ PositionKnown' /\ FoldOnTrack'
  BY RowsStay DEF Signal, tables, locals, life, Recoverable, LatestExists, FlushedIsInRam, RamFlushed,
                  PositionKnown, Behind, Flushing, FoldOnTrack, insert
<1> QED
  BY <1>1, <1>2, RowsStay DEF Recoverable, Signal, tables

=============================================================================
