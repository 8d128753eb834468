----------------------------- MODULE FoldProofs -----------------------------
(***************************************************************************)
(* What one batch does: a step of the fold is a step of the reference      *)
(* machine or none, and the log it carries is the machine's RAM over the   *)
(* words the batch read.                                                   *)
(***************************************************************************)
EXTENDS BatchLoopInv, TLAPS

-----------------------------------------------------------------------------
(* Types of what the fold computes. *)

\* refemu and the fold classify every pc: in the text region by its decoded
\* instruction, outside it as BAD_ADDR.
LEMMA FetchType ==
    ASSUME NEW pc \in Nat
    PROVE  Fetch(pc) \in Instruction
<1>1. CASE pc \in DOMAIN Program
  BY <1>1, ProgramIsDecoded DEF Fetch
<1>2. CASE pc \notin DOMAIN Program
  BY <1>2 DEF Fetch, Instruction, HaltInsn, HaltReason
<1> QED
  BY <1>1, <1>2

\* The fields an instruction has, by its effect.
LEMMA InstructionFields ==
    ASSUME NEW insn \in Instruction
    PROVE  /\ insn.op \in {"alu", "branch", "load", "store", "fb", "pal", "ticks", "keyq",
                           "putchar", "frame", "halt"}
           /\ insn.op = "alu" => insn.imm \in Word
           /\ insn.op = "branch" => insn.tgt \in Nat
           /\ insn.op \in {"load", "store"} => insn.addr \in RamAddr
           /\ insn.op = "fb" => insn.addr \in FbAddr
           /\ insn.op = "pal" => insn.addr \in PalAddr
           /\ insn.op = "halt" => insn.reason \in HaltReason
<1>1. CASE insn \in AluInsn
  BY <1>1 DEF AluInsn
<1>2. CASE insn \in BranchInsn
  BY <1>2 DEF BranchInsn
<1>3. CASE insn \in RamInsn
  BY <1>3 DEF RamInsn
<1>4. CASE insn \in FbInsn
  BY <1>4 DEF FbInsn
<1>5. CASE insn \in PalInsn
  BY <1>5 DEF PalInsn
<1>6. CASE insn \in DeviceInsn
  BY <1>6 DEF DeviceInsn
<1>7. CASE insn \in HaltInsn
  BY <1>7 DEF HaltInsn
<1> QED
  BY <1>1, <1>2, <1>3, <1>4, <1>5, <1>6, <1>7 DEF Instruction

\* The device reads of mmio.rs give words, and the queue position moves on.
LEMMA DeviceTypes ==
    ASSUME NEW n \in Nat, NEW pos \in Nat
    PROVE  /\ Ticks(n) \in Word
           /\ KeyAt(pos) \in Word
           /\ PopFrom(pos) \in Nat
<1>1. n \div Ipms \in Nat
  BY Sizes
<1>2. Ticks(n) \in Word
  BY <1>1, Sizes DEF Ticks, Word
<1>3. KeyAt(pos) \in Word
  BY Sizes DEF KeyAt, Word
<1> QED
  BY <1>2, <1>3, Sizes DEF PopFrom

\* A push keeps a log a log.
LEMMA PushType ==
    ASSUME NEW A, NEW log \in Seq(Entry(A)), NEW store \in BOOLEAN, NEW a,
           NEW x \in Accumulator, store => a \in A
    PROVE  Push(log, store, a, x) \in Seq(Entry(A))
<1>1. x.reg \in Word /\ x.icount + 1 \in Nat
  BY DEF Accumulator
<1>2. store => [addr |-> a, val |-> x.reg, icount |-> x.icount + 1] \in Entry(A)
  BY <1>1 DEF Entry
<1> QED
  BY <1>2 DEF Push

-----------------------------------------------------------------------------
(* The write-log. *)

\* arrayLastIndex finds the one entry of its address that nothing follows.
LEMMA LastIndexIs ==
    ASSUME NEW wl \in Seq(Entry(RamAddr)), NEW a \in RamAddr, NEW j \in DOMAIN wl,
           wl[j].addr = a, \A l \in DOMAIN wl : l > j => wl[l].addr # a
    PROVE  LastIndex(wl, a) = j
<1> DEFINE P(x) == wl[x].addr = a /\ \A l \in DOMAIN wl : l > x => wl[l].addr # a
<1>1. \E x \in DOMAIN wl : P(x)
  OBVIOUS
<1>2. LastIndex(wl, a) = CHOOSE x \in DOMAIN wl : P(x)
  BY DEF LastIndex
<1>3. LastIndex(wl, a) \in DOMAIN wl /\ P(LastIndex(wl, a))
  BY <1>1, <1>2
<1>4. DOMAIN wl \subseteq Nat
  OBVIOUS
<1> QED
  BY <1>3, <1>4

\* A load in the middle of a batch sees the machine's RAM: the last store to
\* the word if this batch made one, the table's word otherwise.
LEMMA LoadSeesRam ==
    ASSUME NEW wl \in Seq(Entry(RamAddr)), NEW t, NEW mem, NEW from, NEW n,
           LogHolds(wl, t, from, mem, n), NEW a \in RamAddr
    PROVE  LoadWord(wl, t, a) = mem[a]
<1>1. CASE \E j \in DOMAIN wl : /\ wl[j].addr = a /\ wl[j].val = mem[a]
                                 /\ \A l \in DOMAIN wl : l > j => wl[l].addr # a
  <2>1. PICK j \in DOMAIN wl : /\ wl[j].addr = a /\ wl[j].val = mem[a]
                               /\ \A l \in DOMAIN wl : l > j => wl[l].addr # a
    BY <1>1
  <2>2. LastIndex(wl, a) = j
    BY <2>1, LastIndexIs
  <2> QED
    BY <2>1, <2>2 DEF LoadWord, Logged
<1>2. CASE t[a] = mem[a] /\ \A j \in DOMAIN wl : wl[j].addr # a
  BY <1>2 DEF LoadWord, Logged
<1> QED
  BY <1>1, <1>2 DEF LogHolds

\* A retiring store appends one entry at the count it leaves behind.
LEMMA LogGrows ==
    ASSUME NEW wl \in Seq(Entry(RamAddr)), NEW t, NEW mem \in [RamAddr -> Word],
           NEW from \in Nat, NEW n \in Nat, from <= n,
           LogHolds(wl, t, from, mem, n),
           NEW a \in RamAddr, NEW v \in Word
    PROVE  LogHolds(Append(wl, [addr |-> a, val |-> v, icount |-> n + 1]), t, from,
                    [mem EXCEPT ![a] = v], n + 1)
<1> DEFINE e == [addr |-> a, val |-> v, icount |-> n + 1]
           new == Append(wl, e)
           mem2 == [mem EXCEPT ![a] = v]
<1>1. e \in Entry(RamAddr)
  BY DEF Entry
<1>2. /\ new \in Seq(Entry(RamAddr))
      /\ DOMAIN new = 1 .. Len(wl) + 1
      /\ DOMAIN wl = 1 .. Len(wl) /\ Len(wl) \in Nat
      /\ new[Len(wl) + 1] = e
      /\ \A j \in DOMAIN wl : new[j] = wl[j] /\ wl[j] \in Entry(RamAddr)
  BY <1>1
<1>3. \A j \in DOMAIN wl : wl[j].icount \in Nat
  BY <1>2 DEF Entry
<1> HIDE DEF new
<1>4. ASSUME NEW b \in RamAddr
      PROVE  \/ \E j \in DOMAIN new : /\ new[j].addr = b /\ new[j].val = mem2[b]
                                       /\ \A l \in DOMAIN new : l > j => new[l].addr # b
             \/ t[b] = mem2[b] /\ \A j \in DOMAIN new : new[j].addr # b
  <2>1. CASE b = a
    <3>1. /\ Len(wl) + 1 \in DOMAIN new
          /\ new[Len(wl) + 1].addr = b /\ new[Len(wl) + 1].val = mem2[b]
          /\ \A l \in DOMAIN new : ~ (l > Len(wl) + 1)
      BY <1>2, <2>1
    <3> QED
      BY <3>1
  <2>2. CASE b # a
    <3>1. mem2[b] = mem[b] /\ new[Len(wl) + 1].addr # b
      BY <1>2, <2>2
    <3>2. CASE \E j \in DOMAIN wl : /\ wl[j].addr = b /\ wl[j].val = mem[b]
                                     /\ \A l \in DOMAIN wl : l > j => wl[l].addr # b
      <4>1. PICK j \in DOMAIN wl : /\ wl[j].addr = b /\ wl[j].val = mem[b]
                                   /\ \A l \in DOMAIN wl : l > j => wl[l].addr # b
        BY <3>2
      <4>2. j \in DOMAIN new /\ new[j] = wl[j]
        BY <1>2
      <4>3. ASSUME NEW l \in DOMAIN new, l > j
            PROVE  new[l].addr # b
        <5>1. CASE l = Len(wl) + 1
          BY <3>1, <5>1
        <5>2. CASE l # Len(wl) + 1
          <6>1. l \in DOMAIN wl /\ new[l] = wl[l]
            BY <1>2, <5>2
          <6> QED
            BY <4>1, <4>3, <6>1
        <5> QED
          BY <5>1, <5>2
      <4> QED
        BY <3>1, <4>1, <4>2, <4>3
    <3>3. CASE t[b] = mem[b] /\ \A j \in DOMAIN wl : wl[j].addr # b
      BY <1>2, <3>1, <3>3
    <3> QED
      BY <3>2, <3>3 DEF LogHolds
  <2> QED
    BY <2>1, <2>2
<1>5. \A j \in DOMAIN new : new[j].icount > from /\ new[j].icount <= n + 1
  BY <1>2, <1>3, SMTT(30) DEF LogHolds
<1>6. \A j, l \in DOMAIN new : j < l => new[j].icount < new[l].icount
  BY <1>2, <1>3 DEF LogHolds
<1> QED
  BY <1>4, <1>5, <1>6 DEF LogHolds, new

\* An instruction that stores nothing in RAM leaves the log as it is.
LEMMA LogWaits ==
    ASSUME NEW wl \in Seq(Entry(RamAddr)), NEW t, NEW mem, NEW from \in Nat, NEW n \in Nat,
           LogHolds(wl, t, from, mem, n)
    PROVE  LogHolds(wl, t, from, mem, n + 1)
<1>1. \A j \in DOMAIN wl : wl[j] \in Entry(RamAddr)
  OBVIOUS
<1>2. \A j \in DOMAIN wl : wl[j].icount \in Nat
  BY <1>1 DEF Entry
<1>3. \A j \in DOMAIN wl : wl[j].icount <= n => wl[j].icount <= n + 1
  BY <1>2
<1> QED
  BY <1>3 DEF LogHolds

-----------------------------------------------------------------------------
(* One step of the fold. *)

\* The fields of an accumulator.
LEMMA AccFields ==
    ASSUME NEW x \in Accumulator
    PROVE  /\ x.pc \in Nat /\ x.reg \in Word /\ x.icount \in Nat
           /\ x.stopped \in BOOLEAN /\ x.halted \in BOOLEAN
           /\ x.reason \in HaltReason \cup {"none"}
           /\ x.keyq_pos \in Nat /\ x.has_frame \in BOOLEAN /\ x.frame_no \in Word
           /\ x.wl \in Seq(Entry(RamAddr)) /\ x.fb_wl \in Seq(Entry(FbAddr))
           /\ x.pal_wl \in Seq(Entry(PalAddr))
           /\ x.console \in Seq(Word) /\ x.cp \in Seq(Checkpoint)
  BY DEF Accumulator

\* A step of the fold gives an accumulator, as long as a load gives a word.
LEMMA FoldStepType ==
    ASSUME NEW x \in Accumulator, NEW j \in Nat, NEW t,
           \A a \in RamAddr : LoadWord(x.wl, t, a) \in Word
    PROVE  FoldStep(x, j, t) \in Accumulator
<1> DEFINE insn == Fetch(x.pc)
           y == FoldStep(x, j, t)
<1>0. 0 \in Word
  BY Sizes DEF Word
<1>1. /\ x.pc \in Nat /\ x.reg \in Word /\ x.icount \in Nat
      /\ x.stopped \in BOOLEAN /\ x.halted \in BOOLEAN
      /\ x.reason \in HaltReason \cup {"none"}
      /\ x.keyq_pos \in Nat /\ x.has_frame \in BOOLEAN /\ x.frame_no \in Word
      /\ x.wl \in Seq(Entry(RamAddr)) /\ x.fb_wl \in Seq(Entry(FbAddr))
      /\ x.pal_wl \in Seq(Entry(PalAddr))
      /\ x.console \in Seq(Word) /\ x.cp \in Seq(Checkpoint)
  BY AccFields
<1>2. insn \in Instruction
  BY <1>1, FetchType
<1>3. /\ insn.op = "alu" => insn.imm \in Word
      /\ insn.op = "branch" => insn.tgt \in Nat
      /\ insn.op \in {"load", "store"} => insn.addr \in RamAddr
      /\ insn.op = "fb" => insn.addr \in FbAddr
      /\ insn.op = "pal" => insn.addr \in PalAddr
      /\ insn.op = "halt" => insn.reason \in HaltReason
  BY <1>2, InstructionFields
<1>4. /\ Ticks(x.icount) \in Word /\ KeyAt(x.keyq_pos) \in Word /\ PopFrom(x.keyq_pos) \in Nat
  BY <1>1, DeviceTypes, Zenon
<1> HIDE DEF insn
<1>5. NextPc(insn, x) \in Nat
  BY <1>1, <1>3, SMTT(30) DEF NextPc
<1>6. FoldResult(insn, x, t) \in Word
  <2>1. insn.op = "alu" => x.reg + insn.imm \in Nat
    <3>1. \A v, w \in Word : v + w \in Nat
      BY Sizes DEF Word
    <3> QED
      BY <1>1, <1>3, <3>1, Zenon
  <2>2. \A n \in Nat : n % Modulus \in Word
    BY Sizes DEF Word
  <2> QED
    BY <2>1, <2>2, <1>1, <1>3, <1>4 DEF FoldResult
<1>7. /\ Push(x.wl, ~ x.stopped /\ insn.op # "halt" /\ insn.op = "store", insn.addr, x) \in Seq(Entry(RamAddr))
      /\ Push(x.fb_wl, ~ x.stopped /\ insn.op # "halt" /\ insn.op = "fb", insn.addr, x) \in Seq(Entry(FbAddr))
      /\ Push(x.pal_wl, ~ x.stopped /\ insn.op # "halt" /\ insn.op = "pal", insn.addr, x) \in Seq(Entry(PalAddr))
  BY <1>1, <1>3, PushType, Zenon
<1>8. [icount |-> x.icount, pc |-> x.pc, reg |-> x.reg] \in Checkpoint
  BY <1>1 DEF Checkpoint
<1>9. Append(x.cp, [icount |-> x.icount, pc |-> x.pc, reg |-> x.reg]) \in Seq(Checkpoint)
  BY <1>1, <1>8
<1>10. Append(x.console, x.reg) \in Seq(Word)
  BY <1>1
<1> DEFINE halts == ~ x.stopped /\ insn.op = "halt"
           retires == ~ x.stopped /\ insn.op # "halt"
           pc2 == IF retires THEN NextPc(insn, x) ELSE x.pc
           reg2 == IF retires THEN FoldResult(insn, x, t) ELSE x.reg
           icount2 == IF retires THEN x.icount + 1 ELSE x.icount
           stopped2 == x.stopped \/ halts \/ (retires /\ insn.op = "store" /\ Len(x.wl) + 1 >= HWM)
                           \/ (retires /\ insn.op = "frame")
           reason2 == IF halts THEN insn.reason ELSE x.reason
           keyq2 == IF retires /\ insn.op = "keyq" THEN PopFrom(x.keyq_pos) ELSE x.keyq_pos
           frame2 == IF retires /\ insn.op = "frame" THEN x.reg ELSE x.frame_no
           wl2 == Push(x.wl, retires /\ insn.op = "store", insn.addr, x)
           fb2 == Push(x.fb_wl, retires /\ insn.op = "fb", insn.addr, x)
           pal2 == Push(x.pal_wl, retires /\ insn.op = "pal", insn.addr, x)
           console2 == IF retires /\ insn.op = "putchar" THEN Append(x.console, x.reg) ELSE x.console
           cp2 == IF AtCheckpoint(x, j)
                  THEN Append(x.cp, [icount |-> x.icount, pc |-> x.pc, reg |-> x.reg]) ELSE x.cp
<1>11. pc2 \in Nat /\ reg2 \in Word /\ icount2 \in Nat
  BY <1>1, <1>5, <1>6
<1>12. stopped2 \in BOOLEAN /\ reason2 \in HaltReason \cup {"none"}
  BY <1>1, <1>3
<1>13. keyq2 \in Nat /\ frame2 \in Word
  BY <1>1, <1>4
<1>14. console2 \in Seq(Word) /\ cp2 \in Seq(Checkpoint)
  BY <1>1, <1>9, <1>10
<1>15. y = [pc |-> pc2, reg |-> reg2, icount |-> icount2, stopped |-> stopped2,
            halted |-> x.halted \/ halts, reason |-> reason2, keyq_pos |-> keyq2,
            has_frame |-> x.has_frame \/ (retires /\ insn.op = "frame"), frame_no |-> frame2,
            wl |-> wl2, fb_wl |-> fb2, pal_wl |-> pal2, console |-> console2, cp |-> cp2]
  BY Zenon DEF FoldStep, insn
<1> HIDE DEF pc2, reg2, icount2, stopped2, reason2, keyq2, frame2, wl2, fb2, pal2, console2, cp2, y
<1>16. wl2 \in Seq(Entry(RamAddr)) /\ fb2 \in Seq(Entry(FbAddr)) /\ pal2 \in Seq(Entry(PalAddr))
  BY <1>7, Zenon DEF wl2, fb2, pal2
<1>17. (x.halted \/ halts) \in BOOLEAN /\ (x.has_frame \/ (retires /\ insn.op = "frame")) \in BOOLEAN
  BY <1>1
<1> HIDE DEF halts, retires
<1>18. y \in Accumulator
  BY <1>11, <1>12, <1>13, <1>14, <1>15, <1>16, <1>17 DEF Accumulator
<1> QED
  BY <1>18 DEF y

\* A batch starts from an accumulator.
LEMMA InitAccType ==
    ASSUME NEW p, p.pc \in Nat, p.reg \in Word, p.icount \in Nat, p.keyq_pos \in Nat
    PROVE  InitAcc(p) \in Accumulator
<1>1. 0 \in Word
  BY Sizes DEF Word
<1>2. /\ << >> \in Seq(Entry(RamAddr)) /\ << >> \in Seq(Entry(FbAddr))
      /\ << >> \in Seq(Entry(PalAddr)) /\ << >> \in Seq(Word) /\ << >> \in Seq(Checkpoint)
  OBVIOUS
<1> QED
  BY <1>1, <1>2 DEF InitAcc, Accumulator

\* The fields of the reference machine after an instruction retires.
LEMMA ExecFields ==
    ASSUME NEW m, NEW insn, insn = Fetch(m.pc)
    PROVE  LET e == Exec(m) IN
           /\ e.icount = m.icount + 1 /\ e.pc = NextPc(insn, m) /\ e.reg = Result(insn, m)
           /\ e.keyq_pos = IF insn.op = "keyq" THEN PopFrom(m.keyq_pos) ELSE m.keyq_pos
           /\ e.ram = IF insn.op = "store" THEN [m.ram EXCEPT ![insn.addr] = m.reg] ELSE m.ram
  BY Zenon DEF Exec

\* A fold and a machine in the same state compute the same result and go to
\* the same place, once a load sees the same word.
LEMMA SameResult ==
    ASSUME NEW insn, NEW m, NEW x, NEW t,
           m.pc = x.pc, m.reg = x.reg, m.icount = x.icount, m.keyq_pos = x.keyq_pos,
           insn.op = "load" => LoadWord(x.wl, t, insn.addr) = m.ram[insn.addr]
    PROVE  FoldResult(insn, x, t) = Result(insn, m) /\ NextPc(insn, x) = NextPc(insn, m)
  BY Zenon DEF FoldResult, Result, NextPc

\* One step of the fold is one step of the reference machine, or none: an
\* accumulator that has stopped, or stops on a halt, stays where it is.
LEMMA FoldStepOnTrack ==
    ASSUME NEW x \in Accumulator, NEW j \in Nat, NEW t, NEW from \in Nat,
           OnTrack(x), from <= x.icount, x.icount < LastIcount,
           LogHolds(x.wl, t, from, Ref[x.icount].ram, x.icount)
    PROVE  LET y == FoldStep(x, j, t)
           IN  /\ y \in Accumulator /\ OnTrack(y)
               /\ y.icount = x.icount \/ y.icount = x.icount + 1
               /\ LogHolds(y.wl, t, from, Ref[y.icount].ram, y.icount)
<1> DEFINE y == FoldStep(x, j, t)
           n == x.icount
           m == Ref[n]
           insn == Fetch(x.pc)
           retires == ~ x.stopped /\ insn.op # "halt"
<1>1. /\ x.pc \in Nat /\ x.reg \in Word /\ n \in Nat /\ x.stopped \in BOOLEAN
      /\ x.halted \in BOOLEAN /\ x.keyq_pos \in Nat
      /\ x.wl \in Seq(Entry(RamAddr))
  BY AccFields
<1>2. /\ n \in 0 .. LastIcount /\ m \in State
      /\ m.icount = n /\ x.pc = m.pc /\ x.reg = m.reg /\ x.keyq_pos = m.keyq_pos
      /\ x.halted => Halts(m)
  BY RefIsTheRun DEF OnTrack
<1>3. m.ram \in [RamAddr -> Word]
  BY <1>2 DEF State
<1>4. \A a \in RamAddr : LoadWord(x.wl, t, a) = m.ram[a]
  BY <1>1, LoadSeesRam
<1>5. y \in Accumulator
  <2>1. \A a \in RamAddr : LoadWord(x.wl, t, a) \in Word
    BY <1>3, <1>4
  <2> QED
    BY <2>1, FoldStepType
<1>6. insn.op \in {"load", "store"} => insn.addr \in RamAddr
  BY <1>1, FetchType, InstructionFields
<1>7. insn = Fetch(m.pc)
  BY <1>2
<1>8. /\ y.icount = IF retires THEN n + 1 ELSE n
      /\ y.pc = IF retires THEN NextPc(insn, x) ELSE x.pc
      /\ y.reg = IF retires THEN FoldResult(insn, x, t) ELSE x.reg
      /\ y.keyq_pos = IF retires /\ insn.op = "keyq" THEN PopFrom(x.keyq_pos) ELSE x.keyq_pos
      /\ y.halted = (x.halted \/ (~ x.stopped /\ insn.op = "halt"))
      /\ y.wl = Push(x.wl, retires /\ insn.op = "store", insn.addr, x)
  BY Zenon DEF FoldStep
<1>9. LogHolds(x.wl, t, from, m.ram, n) /\ from <= n /\ n < LastIcount
  OBVIOUS
<1>10. retires <=> ~ x.stopped /\ insn.op # "halt"
  OBVIOUS
<1> HIDE DEF y, m, n, insn, retires
<1>11. CASE ~ retires
  <2>1. y.icount = n /\ y.pc = x.pc /\ y.reg = x.reg /\ y.keyq_pos = x.keyq_pos
    BY <1>8, <1>11, Zenon
  <2>2. y.wl = x.wl
    <3>1. ~ (retires /\ insn.op = "store")
      BY <1>11
    <3> QED
      BY <1>8, <3>1, Zenon DEF Push
  <2>3. y.halted => Halts(m)
    BY <1>2, <1>7, <1>8, Zenon DEF Halts
  <2>4. Ref[y.icount] = m
    BY <2>1 DEF m
  <2>5. OnTrack(y)
    BY <1>2, <2>1, <2>3, <2>4 DEF OnTrack
  <2>6. LogHolds(y.wl, t, from, Ref[y.icount].ram, y.icount)
    BY <1>9, <2>1, <2>2, <2>4
  <2> QED
    BY <1>5, <2>1, <2>5, <2>6 DEF y, n
<1>12. CASE retires
  <2>1. ~ Halts(m) /\ ~ x.halted /\ ~ y.halted
    BY <1>1, <1>2, <1>7, <1>8, <1>10, <1>12, Zenon DEF Halts
  <2>2. n \in 0 .. LastIcount - 1
    BY <1>1, <1>9, Sizes, SMTT(40)
  <2> DEFINE e == Exec(m)
  <2>3. Ref[n + 1] = e
    BY <2>1, <2>2, RefIsTheRun DEF Step, m
  <2>4. /\ e.icount = n + 1 /\ e.pc = NextPc(insn, m) /\ e.reg = Result(insn, m)
        /\ e.keyq_pos = IF insn.op = "keyq" THEN PopFrom(m.keyq_pos) ELSE m.keyq_pos
        /\ e.ram = IF insn.op = "store" THEN [m.ram EXCEPT ![insn.addr] = m.reg] ELSE m.ram
    BY <1>2, <1>7, ExecFields, Zenon
  <2> HIDE DEF e
  <2>5. insn.op = "load" => LoadWord(x.wl, t, insn.addr) = m.ram[insn.addr]
    BY <1>4, <1>6
  <2>6. FoldResult(insn, x, t) = Result(insn, m) /\ NextPc(insn, x) = NextPc(insn, m)
    BY <1>2, <2>5, SameResult, Zenon DEF n
  <2>7. y.icount = n + 1 /\ y.pc = e.pc /\ y.reg = e.reg /\ y.keyq_pos = e.keyq_pos
    BY <1>2, <1>8, <1>12, <2>4, <2>6, Zenon
  <2>8. OnTrack(y)
    <3>1. y.icount \in 0 .. LastIcount
      BY <1>1, <2>2, <2>7, Sizes
    <3>2. Ref[y.icount] = e
      BY <2>3, <2>7
    <3> QED
      BY <2>1, <2>4, <2>7, <3>1, <3>2 DEF OnTrack
  <2>9. LogHolds(y.wl, t, from, e.ram, n + 1)
    <3>1. CASE insn.op = "store"
      <4>1. y.wl = Append(x.wl, [addr |-> insn.addr, val |-> x.reg, icount |-> n + 1])
        BY <1>8, <1>12, <3>1, Zenon DEF Push, n
      <4>2. e.ram = [m.ram EXCEPT ![insn.addr] = x.reg]
        BY <1>2, <2>4, <3>1
      <4>3. insn.addr \in RamAddr
        BY <1>6, <3>1
      <4>4. LogHolds(Append(x.wl, [addr |-> insn.addr, val |-> x.reg, icount |-> n + 1]), t, from,
                     [m.ram EXCEPT ![insn.addr] = x.reg], n + 1)
        BY <1>1, <1>3, <1>9, <4>3, LogGrows, Zenon
      <4> QED
        BY <4>1, <4>2, <4>4, Zenon
    <3>2. CASE insn.op # "store"
      <4>1. e.ram = m.ram
        BY <2>4, <3>2
      <4>2. y.wl = x.wl
        <5>1. ~ (retires /\ insn.op = "store")
          BY <3>2
        <5> QED
          BY <1>8, <5>1, Zenon DEF Push
      <4> QED
        BY <1>1, <1>9, <4>1, <4>2, LogWaits
    <3> QED
      BY <3>1, <3>2
  <2>10. LogHolds(y.wl, t, from, Ref[y.icount].ram, y.icount)
    BY <2>3, <2>7, <2>9
  <2> QED
    BY <1>5, <2>7, <2>8, <2>10 DEF y, n
<1> QED
  BY <1>11, <1>12

=============================================================================
