---------------------------- MODULE MipsLockstep ----------------------------
(***************************************************************************)
(* A user program on the machine (MipsSim), with page faults, system calls *)
(* and interrupts between its instructions, beside the same program on the *)
(* interpreter of bin/ (MipsInterp), which has none of these.              *)
(*                                                                         *)
(* workload "any" runs one instruction of every kind from any two register *)
(* values; "program" runs a few instructions of Program, with faults and   *)
(* interrupts; "copy" is for SystemIO, "load" for ObjectFiles.  The        *)
(* instruction at the pc is any of them: v is chosen at its first fetch    *)
(* and fetched again until it completes.                                   *)
(***************************************************************************)
EXTENDS MipsSim, MipsInterp

CONSTANTS
  GPR,                       \* the general registers used, 0 and 31 included
  Program,                   \* the instruction words of the programs
  ProgramValues,             \* what registers hold when a program starts
  MaxInstrs, MaxFaults,      \* bounds on the instructions and the evictions
  NONE

ASSUME LockstepAssumption ==
  /\ {0, 31} \subseteq GPR
  /\ ProgramValues \subseteq Words
  /\ {MaxInstrs, MaxFaults} \subseteq Nat

VARIABLES
  workload,
  sim,         \* the machine
  current,     \* the instruction word that has been fetched and not completed
  last,        \* history: the word completed last and its exception
  interp,      \* the interpreter
  outcome,     \* "running", "killed" (by the kernel) or "abort"
  same,        \* history: the program so far gives both the same meaning
  instrs, faults

vars == <<workload, sim, current, last, interp, outcome, same, instrs, faults>>

Pages == 0..(PageTableSize - 1)

\* Every instruction word, with the fields its format does not use set to 0.
Blank == [major |-> 0, funct |-> 0, rs |-> 0, rt |-> 0, rd |-> 0, shamt |-> 0,
          imm |-> 0, target |-> 0]
Every ==
  LET rFormat == {[Blank EXCEPT !.funct = f, !.rs = s, !.rt = t, !.rd = d, !.shamt = n] :
                    f \in 0..63, s \in GPR, t \in GPR, d \in GPR, n \in 0..(W - 1)}
      iFormat == {[Blank EXCEPT !.major = o, !.rs = s, !.rt = t, !.imm = n] :
                    o \in 4..63, s \in GPR, t \in GPR, n \in 0..(2^H - 1)}
      bcond   == {[Blank EXCEPT !.major = 1, !.rs = s, !.rt = t, !.imm = n] :
                    s \in GPR, t \in {0, 1, 2, 16, 17}, n \in 0..(2^H - 1)}
      jFormat == {[Blank EXCEPT !.major = o, !.target = n] :
                    o \in {2, 3}, n \in 0..(2^TargetBits - 1)}
  IN  {v \in rFormat :
          /\ v.funct \in {0, 2, 3} \/ v.shamt = 0
          /\ Decode(v).op \in {"RES", "UNIMP", "SYSCALL"} => v.rs + v.rt + v.rd = 0}
        \cup {v \in iFormat :
          Decode(v).op \in {"RES", "UNIMP"} => v.imm + v.rs + v.rt = 0}
        \cup bcond \cup jFormat

Available ==
  CASE workload = "any" -> Every [] workload = "program" -> Program [] OTHER -> {}

MipsInit ==
  /\ workload \in {"any", "program", "copy", "load"}
  /\ \E a, b \in CASE workload = "any"     -> Words
                 [] workload = "program" -> ProgramValues
                 [] OTHER                -> {0} :
       sim = [r |-> [g \in GPR |-> IF g = 0 THEN 0 ELSE IF g = 31 THEN b ELSE a],
              hi |-> 2, lo |-> 1, pc |-> 0, nextPC |-> 4, loadReg |-> 0, loadValue |-> 0,
              mem |-> [x \in 0..(PageSize * PageTableSize - 1) |-> (x % 3) % 2],
              valid |-> Pages]
  /\ interp = [r |-> sim.r, hi |-> sim.hi, lo |-> sim.lo, pc |-> sim.pc, npc |-> sim.nextPC,
               mem |-> sim.mem, ok |-> TRUE]
  /\ current = NONE /\ last = [v |-> NONE, exc |-> "NoException"]
  /\ outcome = "running"
  /\ same = (workload \in {"any", "program"})
  /\ instrs = 0 /\ faults = 0

-----------------------------------------------------------------------------

\* The registers an instruction other than a load reads or writes, and the
\* address register of a load.
Touches(i) ==
  CASE i.op \in Loads -> {i.rs}
    [] i.op \in {"J", "JAL"} -> {31}
    [] i.op \in {"BGEZ", "BGEZAL", "BLTZ", "BLTZAL"} -> {i.rs, 31}
    [] OTHER -> {i.rs, i.rt, i.rd}

\* Both simulators give instruction i of machine m the same meaning.  Its first
\* two conjuncts are the rules for code in delay slots: a loaded register is not
\* used by the next instruction, and a branch or jump is not followed by another.
\* The others are the instructions on which the two programs differ.
Comparable(m, i) ==
  LET s == m.r[i.rs]
      t == m.r[i.rt]
  IN  /\ m.loadReg = 0 \/ m.loadReg \notin Touches(i)
      /\ i.op \in Branches \cup Jumps => m.nextPC = Word(m.pc + 4)
      /\ i.op = "OR" => (s | t) = s
      /\ i.op \in {"SRL", "SRLV"} => ~Neg(t)
      /\ i.op \in {"ANDI", "ORI", "XORI"} => ~Neg(i.extra)
      /\ i.op \in {"J", "JAL"} => Region(m.pc) = Region(Word(m.nextPC + 4))
      /\ i.op = "JALR" => i.rd # i.rs
      /\ i.op = "MULT" => Magnitude(s) < 2^H /\ Magnitude(t) < 2^H
      /\ i.op = "MULTU" => s < 2^H /\ t < 2^H
      /\ i.op \in {"DIV", "DIVU"} => t # 0
      /\ i.op \notin {"LWL", "LWR", "SWL", "SWR"}

\* The interpreter does the instruction v that the machine m has completed.
InterpStep(m, v) ==
  /\ same' = (same /\ Comparable(m, Decode(v)))
  /\ interp' = IF same' THEN runprogram(interp, v) ELSE interp

\* OneInstruction completes.
Complete(v, o) ==
  /\ o.exc = "NoException"
  /\ sim' = Advance(o)
  /\ InterpStep(sim, v)
  /\ current' = NONE
  /\ instrs' = instrs + 1
  /\ UNCHANGED <<outcome, faults>>

\* SyscallException: the handler advances the program counters.
Syscall(v, o) ==
  LET m == RaiseException(o)
  IN  /\ o.exc = "SyscallException"
      /\ sim' = [m EXCEPT !.pc = m.nextPC, !.nextPC = Word(m.nextPC + 4)]
      /\ InterpStep(sim, v)
      /\ current' = NONE
      /\ instrs' = instrs + 1
      /\ UNCHANGED <<outcome, faults>>

\* PageFaultException: the handler loads the page, and the instruction is
\* started again from the beginning.
PageFault(v, o) ==
  LET m == RaiseException(o)
  IN  /\ o.exc = "PageFaultException"
      /\ sim' = [m EXCEPT !.valid = @ \cup {o.badVAddr \div PageSize}]
      /\ current' = v
      /\ UNCHANGED <<interp, outcome, same, instrs, faults>>

\* The other exceptions end the process; an ASSERT or a trap ends the simulation.
Dies(v, o) ==
  /\ o.exc \notin {"NoException", "SyscallException", "PageFaultException"}
  /\ outcome' = IF o.exc = "abort" THEN "abort" ELSE "killed"
  /\ sim' = RaiseException(o)
  /\ current' = v
  /\ UNCHANGED <<interp, same, instrs, faults>>

Running == outcome = "running" /\ instrs < IF workload = "any" THEN 1 ELSE MaxInstrs

Step(v) ==
  LET o == OneInstruction(sim, v)
  IN  /\ current \in {NONE, v}
      /\ Complete(v, o) \/ Syscall(v, o) \/ PageFault(v, o) \/ Dies(v, o)
      /\ last' = [v |-> v, exc |-> o.exc]
      /\ UNCHANGED workload

\* CheckIfDue, before an interrupt handler runs.
Interrupt ==
  /\ Running /\ workload = "program"
  /\ sim.loadReg # 0
  /\ sim' = DelayedLoad(sim, 0, 0)
  /\ UNCHANGED <<workload, current, last, interp, outcome, same, instrs, faults>>

\* Another process makes the kernel replace a page of this one.
Evict(p) ==
  /\ Running /\ workload \in {"program", "copy"}
  /\ faults < MaxFaults
  /\ p \in sim.valid
  /\ sim' = [sim EXCEPT !.valid = @ \ {p}]
  /\ faults' = faults + 1
  /\ UNCHANGED <<workload, current, last, interp, outcome, same, instrs>>

\* The process or the simulation has ended, or the bound is reached.
Stopped == ~Running /\ UNCHANGED vars

MipsNext ==
  \/ Running /\ \E v \in Available : Step(v)
  \/ Interrupt
  \/ \E p \in Pages : Evict(p)
  \/ Stopped

MipsSpec == MipsInit /\ [][MipsNext]_vars

-----------------------------------------------------------------------------
(***************************************************************************)
(* Properties                                                              *)
(***************************************************************************)


\* The instruction that completed in this step, with the operands it had.
Completed(ops) == instrs' = instrs + 1 /\ Decode(last'.v).op \in ops
OperandS == sim.r[last'.v.rs]
OperandT == sim.r[last'.v.rt]

DividesInto(a, b, lo, hi) ==
  IF b = 0 THEN lo = 0 /\ hi = 0
  ELSE a = lo * b + hi /\ hi * a >= 0 /\ hi * hi < b * b

\* The exact result of an instruction that checks for overflow.
ExactResult(m, i) ==
  CASE i.op = "ADD"  -> Signed(m.r[i.rs]) + Signed(m.r[i.rt])
    [] i.op = "ADDI" -> Signed(m.r[i.rs]) + Signed(i.extra)
    [] i.op = "SUB"  -> Signed(m.r[i.rs]) - Signed(m.r[i.rt])
    [] OTHER         -> 0

\* The arithmetic is exact for all operands.  Mult gives the double-length product,
\* signed or unsigned, with its loop of carries, its early exit, the sign it
\* computes on the side and the most negative number.  DIV and DIVU give a quotient
\* and a remainder that belong together, the remainder smaller than the divisor and
\* with the sign of the dividend, and 0 for a divisor of 0.  ADD, ADDI and SUB trap
\* exactly when the result is not an int, which the code finds by two tests of
\* signs, one of them on the immediate operand.
ArithmeticExact ==
  [][/\ Completed({"MULT"}) =>
          sim'.hi * 2^W + sim'.lo = (Signed(OperandS) * Signed(OperandT)) % 2^(2 * W)
     /\ Completed({"MULTU"}) => sim'.hi * 2^W + sim'.lo = OperandS * OperandT
     /\ Completed({"DIV"}) =>
          DividesInto(Signed(OperandS), Signed(OperandT), Signed(sim'.lo), Signed(sim'.hi))
     /\ Completed({"DIVU"}) => DividesInto(OperandS, OperandT, sim'.lo, sim'.hi)
     /\ (/\ <<instrs, outcome>>' # <<instrs, outcome>>
         /\ last'.v # NONE /\ last'.exc # "AddressErrorException") =>
          ((last'.exc = "OverflowException")
             <=> ExactResult(sim, Decode(last'.v)) \notin -(2^(W - 1))..(2^(W - 1) - 1))]_vars
=============================================================================
