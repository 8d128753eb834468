------------------------------ MODULE Machine ------------------------------
(***************************************************************************)
(* The machine both engines run, as the reference emulator defines it      *)
(* (refemu/src/exec.rs, memory.rs, mmio.rs): one instruction at a time,    *)
(* no batches, no tables, no crashes.                                      *)
(*                                                                         *)
(* The data is cut down to what batching, commit and recovery can tell     *)
(* apart.  There is one register, a word is a number below Modulus, and an *)
(* instruction is named by its effect: on the register, on one of the      *)
(* three stored regions, on one of the five device registers, or a halt.   *)
(* An instruction that would raise a halt carries the reason it raises.    *)
(***************************************************************************)
EXTENDS Naturals, Sequences

CONSTANTS
    Program,        \* the decoded text region: a function from pc to instruction
    Keys,           \* the key events queued before the run, oldest first
    Modulus,        \* words are 0 .. Modulus-1
    RamWords,       \* words of RAM outside the text region
    FbWords,        \* words of FRAMEBUFFER
    PalWords,       \* words of PALETTE
    Ipms,           \* instructions per emulated millisecond
    LastIcount,     \* how far the reference run goes
    Ref             \* Ref[n]: the machine once n instructions have retired

Word == 0 .. Modulus - 1
RamAddr == 0 .. RamWords - 1
FbAddr == 0 .. FbWords - 1
PalAddr == 0 .. PalWords - 1

\* spec/src/halt.rs: the reasons a machine stops.
HaltReason == {"ILLEGAL_INSN", "BAD_ADDR", "SELF_MODIFY", "MISALIGNED",
               "ECALL", "EBREAK", "CSR", "EXIT"}

\* The effects an instruction can have.  "alu" stands for every arm that
\* only reads and writes registers, "branch" for the ones that move the pc.
AluInsn    == [op : {"alu"}, imm : Word]
BranchInsn == [op : {"branch"}, tgt : Nat]
RamInsn    == [op : {"load", "store"}, addr : RamAddr]
FbInsn     == [op : {"fb"}, addr : FbAddr]
PalInsn    == [op : {"pal"}, addr : PalAddr]
DeviceInsn == [op : {"ticks", "keyq", "putchar", "frame"}]
HaltInsn   == [op : {"halt"}, reason : HaltReason]

Instruction == AluInsn \cup BranchInsn \cup RamInsn \cup FbInsn \cup PalInsn
                   \cup DeviceInsn \cup HaltInsn

Frame == [frame_no : Word, icount : Nat, fb : [FbAddr -> Word], palette : [PalAddr -> Word]]

State == [pc : Nat, reg : Word, icount : Nat,
          ram : [RamAddr -> Word], fb : [FbAddr -> Word], palette : [PalAddr -> Word],
          keyq_pos : Nat, console : Seq(Word), frames : SUBSET Frame]

\* Cpu::new: the pc at the entry, every register and every word zero.
Reset == [pc |-> 0, reg |-> 0, icount |-> 0,
          ram |-> [a \in RamAddr |-> 0],
          fb |-> [a \in FbAddr |-> 0],
          palette |-> [a \in PalAddr |-> 0],
          keyq_pos |-> 0, console |-> << >>, frames |-> {}]

\* Cpu::step_reporting: a pc outside the text region is BAD_ADDR before
\* there is an instruction to classify.
Fetch(pc) ==
    IF pc \in DOMAIN Program THEN Program[pc] ELSE [op |-> "halt", reason |-> "BAD_ADDR"]

Halts(m) == Fetch(m.pc).op = "halt"

\* Registers::read on TICKS_MS and KEYQ.
Ticks(icount) == (icount \div Ipms) % Modulus
KeyAt(pos) == IF pos < Len(Keys) THEN Keys[pos + 1] ELSE 0
PopFrom(pos) == IF pos < Len(Keys) THEN pos + 1 ELSE pos

\* Where the machine goes once `insn` has retired.
NextPc(insn, m) == IF insn.op = "branch" /\ m.reg # 0 THEN insn.tgt ELSE m.pc + 1

\* What the register holds once `insn` has retired.
Result(insn, m) ==
    IF insn.op = "alu" THEN (m.reg + insn.imm) % Modulus
    ELSE IF insn.op = "load" THEN m.ram[insn.addr]
    ELSE IF insn.op = "ticks" THEN Ticks(m.icount)
    ELSE IF insn.op = "keyq" THEN KeyAt(m.keyq_pos)
    ELSE m.reg

\* Cpu::execute for an instruction that retires, with the device and memory
\* effect its store or load has.  A frame commit is recorded with the count
\* after the store retires (FrameCommit::retired_icount).
Exec(m) ==
    LET insn == Fetch(m.pc) IN
    [pc       |-> NextPc(insn, m),
     reg      |-> Result(insn, m),
     icount   |-> m.icount + 1,
     ram      |-> IF insn.op = "store" THEN [m.ram EXCEPT ![insn.addr] = m.reg] ELSE m.ram,
     fb       |-> IF insn.op = "fb" THEN [m.fb EXCEPT ![insn.addr] = m.reg] ELSE m.fb,
     palette  |-> IF insn.op = "pal" THEN [m.palette EXCEPT ![insn.addr] = m.reg] ELSE m.palette,
     keyq_pos |-> IF insn.op = "keyq" THEN PopFrom(m.keyq_pos) ELSE m.keyq_pos,
     console  |-> IF insn.op = "putchar" THEN Append(m.console, m.reg) ELSE m.console,
     frames   |-> IF insn.op = "frame"
                  THEN m.frames \cup {[frame_no |-> m.reg, icount |-> m.icount + 1,
                                       fb |-> m.fb, palette |-> m.palette]}
                  ELSE m.frames]

\* Cpu::step: a fatal halt does not retire, so the machine stays as it is.
Step(m) == IF Halts(m) THEN m ELSE Exec(m)

ASSUME Sizes ==
    /\ Modulus \in Nat \ {0} /\ Ipms \in Nat \ {0} /\ LastIcount \in Nat
    /\ RamWords \in Nat /\ FbWords \in Nat /\ PalWords \in Nat
    /\ Keys \in Seq(Word)

ASSUME ProgramIsDecoded ==
    /\ DOMAIN Program \subseteq Nat
    /\ \A pc \in DOMAIN Program : Program[pc] \in Instruction

\* Ref is the run the reference emulator makes: trace::run from the reset
\* state, one Step at a time.
ASSUME RefIsTheRun ==
    /\ Ref \in [0 .. LastIcount -> State]
    /\ Ref[0] = Reset
    /\ \A n \in 0 .. LastIcount - 1 : Ref[n + 1] = Step(Ref[n])

=============================================================================
