------------------------------ MODULE MipsSim -------------------------------
(***************************************************************************)
(* The MIPS simulator of the machine (machine/mipssim.cc): decoding, one   *)
(* instruction with its delayed load and its delay slot, multiplication,   *)
(* and the exceptions it raises.                                           *)
(*                                                                         *)
(* A machine m is a record of the registers, the memory and the valid bits *)
(* of the page table; frames are numbered like pages.  PrevPCReg, kept for *)
(* debugging, is left out.  An instruction word v is a record of its       *)
(* fields.  What an instruction does is an outcome: the machine it leaves, *)
(* the next pc, the load it delays, and the exception, if any.             *)
(***************************************************************************)
EXTENDS MipsWord

CONSTANTS PageSize, PageTableSize

ASSUME PageAssumption == {PageSize, PageTableSize} \subseteq Nat \ {0}

opTable ==
  <<"SPECIAL", "BCOND", "J", "JAL", "BEQ", "BNE", "BLEZ", "BGTZ",
    "ADDI", "ADDIU", "SLTI", "SLTIU", "ANDI", "ORI", "XORI", "LUI",
    "UNIMP", "UNIMP", "UNIMP", "UNIMP", "RES", "RES", "RES", "RES",
    "RES", "RES", "RES", "RES", "RES", "RES", "RES", "RES",
    "LB", "LH", "LWL", "LW", "LBU", "LHU", "LWR", "RES",
    "SB", "SH", "SWL", "SW", "RES", "RES", "SWR", "RES",
    "UNIMP", "UNIMP", "UNIMP", "UNIMP", "RES", "RES", "RES", "RES",
    "UNIMP", "UNIMP", "UNIMP", "UNIMP", "RES", "RES", "RES", "RES">>

specialTable ==
  <<"SLL", "RES", "SRL", "SRA", "SLLV", "RES", "SRLV", "SRAV",
    "JR", "JALR", "RES", "RES", "SYSCALL", "UNIMP", "RES", "RES",
    "MFHI", "MTHI", "MFLO", "MTLO", "RES", "RES", "RES", "RES",
    "MULT", "MULTU", "DIV", "DIVU", "RES", "RES", "RES", "RES",
    "ADD", "ADDU", "SUB", "SUBU", "AND", "OR", "XOR", "NOR",
    "RES", "RES", "SLT", "SLTU", "RES", "RES", "RES", "RES">>

\* Instruction::Decode.  The last sixteen entries of specialTable are OP_RES.
Decode(v) ==
  LET major == opTable[v.major + 1]
      special == IF v.funct < 48 THEN specialTable[v.funct + 1] ELSE "RES"
      bcond == CASE v.rt = 0  -> "BLTZ"   [] v.rt = 1  -> "BGEZ"
                 [] v.rt = 16 -> "BLTZAL" [] v.rt = 17 -> "BGEZAL"
                 [] OTHER     -> "UNIMP"
  IN  [op |-> CASE major = "SPECIAL" -> special [] major = "BCOND" -> bcond
                [] OTHER -> major,
       rs |-> v.rs, rt |-> v.rt, rd |-> v.rd,
       extra |-> CASE major = "SPECIAL"    -> v.shamt
                   [] major \in {"J", "JAL"} -> v.target
                   [] OTHER                -> SignExtend(v.imm, H)]

-----------------------------------------------------------------------------

\* The outcome of an instruction that goes on to the next one.
Done(m) == [m |-> m, pcAfter |-> Word(m.nextPC + 4), loadReg |-> 0, loadValue |-> 0,
            exc |-> "NoException", badVAddr |-> 0]
Set(m, reg, w) == [m EXCEPT !.r[reg] = w]
Put(m, reg, w) == Done(Set(m, reg, w))
Delay(m, reg, w) == [Done(m) EXCEPT !.loadReg = reg, !.loadValue = w]
Raise(m, which, badVAddr) == [Done(m) EXCEPT !.exc = which, !.badVAddr = badVAddr]

\* The host stops the simulator: an ASSERT fails or a division traps.
Aborts(m) == Raise(m, "abort", 0)

\* Machine::Translate; no page is mapped read-only by this kernel.
Translate(m, virtAddr, size) ==
  CASE virtAddr % size # 0                       -> "AddressErrorException"
    [] virtAddr \div PageSize >= PageTableSize   -> "AddressErrorException"
    [] virtAddr \div PageSize \notin m.valid     -> "PageFaultException"
    [] OTHER                                     -> "NoException"

\* Machine::ReadMem: the value read is the loadValue of the outcome, unless there
\* is an exception.
ReadMem(m, addr, size) ==
  LET which == Translate(m, addr, size)
  IN  IF which # "NoException" THEN Raise(m, which, addr)
      ELSE Delay(m, 0, BytesAt(m.mem, addr, size))

Failed(o) == o.exc # "NoException"

\* Machine::WriteMem
WriteMem(m, addr, size, w) ==
  LET which == Translate(m, addr, size)
  IN  IF which # "NoException" THEN Raise(m, which, addr)
      ELSE Done([m EXCEPT !.mem = WithBytes(m.mem, addr, size, w)])

-----------------------------------------------------------------------------

\* The test for a result that does not fit: the operands have the same sign
\* (another one, when subtracting) and the first operand and the result differ.
Overflows(s, t, sum, adding) == (Neg(s) = Neg(t)) = adding /\ Neg(s) # Neg(sum)

\* OP_ADD to OP_ANDI
Add(m, i) ==
  LET s == m.r[i.rs]
      t == m.r[i.rt]
      Checked(x, reg) == IF Overflows(s, x, Word(s + x), TRUE)
                         THEN Raise(m, "OverflowException", 0)
                         ELSE Put(m, reg, Word(s + x))
  IN  CASE i.op = "ADD"   -> Checked(t, i.rd)
        [] i.op = "ADDI"  -> Checked(i.extra, i.rt)
        [] i.op = "ADDIU" -> Put(m, i.rt, Word(s + i.extra))
        [] i.op = "ADDU"  -> Put(m, i.rd, Word(s + t))
        [] i.op = "AND"   -> Put(m, i.rd, s & t)
        [] i.op = "ANDI"  -> Put(m, i.rt, s & Low(i.extra, H))

\* The target counts from the delay slot.
BranchTarget(m, i) == Word(m.nextPC + ShiftLeft(i.extra, 2))

\* OP_BEQ to OP_BNE.  The link is written before the test.
Branch(m, i) ==
  LET linked == IF i.op \in {"BGEZAL", "BLTZAL"} THEN Set(m, 31, Word(m.nextPC + 4)) ELSE m
      s == Signed(linked.r[i.rs])
      taken == CASE i.op = "BEQ"                -> m.r[i.rs] = m.r[i.rt]
                 [] i.op = "BNE"                -> m.r[i.rs] # m.r[i.rt]
                 [] i.op \in {"BGEZ", "BGEZAL"} -> s >= 0
                 [] i.op \in {"BLTZ", "BLTZAL"} -> s < 0
                 [] i.op = "BGTZ"               -> s > 0
                 [] i.op = "BLEZ"               -> s <= 0
  IN  IF taken THEN [Done(linked) EXCEPT !.pcAfter = BranchTarget(m, i)] ELSE Done(linked)

\* OP_DIV and OP_DIVU.  The most negative number divided by -1 traps on the host.
Divide(m, i) ==
  LET s == IF i.op = "DIV" THEN Signed(m.r[i.rs]) ELSE m.r[i.rs]
      t == IF i.op = "DIV" THEN Signed(m.r[i.rt]) ELSE m.r[i.rt]
  IN  CASE t = 0 -> Done([m EXCEPT !.lo = 0, !.hi = 0])
        [] t # 0 /\ Quotient(s, t) = 2^(W - 1) /\ i.op = "DIV" -> Aborts(m)
        [] OTHER -> Done([m EXCEPT !.lo = Word(Quotient(s, t)), !.hi = Word(Remainder(s, t))])

\* OP_JAL to OP_JR.  JALR writes the link before it reads its target.
Jump(m, i) ==
  LET link == CASE i.op = "JAL" -> Set(m, 31, Word(m.nextPC + 4))
                [] i.op = "JALR" -> Set(m, i.rd, Word(m.nextPC + 4))
                [] OTHER -> m
  IN  [Done(link) EXCEPT !.pcAfter = IF i.op \in {"J", "JAL"}
                                     THEN Region(Word(m.nextPC + 4)) + ShiftLeft(i.extra, 2)
                                     ELSE link.r[i.rs]]

\* OP_LB to OP_LW
Load(m, i) ==
  LET addr == Word(m.r[i.rs] + i.extra)
      size == CASE i.op \in {"LB", "LBU"} -> 1 [] i.op \in {"LH", "LHU"} -> 2 [] OTHER -> 4
      read == ReadMem(m, addr, size)
      Extended(w) == IF i.op \in {"LB", "LH"} THEN SignExtend(w, size * B) ELSE w
  IN  IF i.op = "LUI" THEN Put(m, i.rt, ShiftLeft(i.extra, H))
      ELSE IF Failed(read) THEN read ELSE Delay(m, i.rt, Extended(read.loadValue))

\* OP_LWL and OP_LWR: an ASSERT leaves only the aligned case.
LoadPart(m, i) ==
  LET addr == Word(m.r[i.rs] + i.extra)
      old == IF m.loadReg = i.rt THEN m.loadValue ELSE m.r[i.rt]
      read == ReadMem(m, addr, 4)
      Merged(w) == IF i.op = "LWL" THEN w ELSE (old - Low(old, B)) + ShiftRightU(w, 3 * B)
  IN  IF addr % 4 # 0 THEN Aborts(m)
      ELSE IF Failed(read) THEN read ELSE Delay(m, i.rt, Merged(read.loadValue))

\* The loop of Mult, with n rounds to go: <<hi, lo>>.
RECURSIVE MultLoop(_, _, _, _, _, _)
MultLoop(a, bLo, bHi, lo, hi, n) ==
  LET lo2 == Word(lo + bLo)
      hi2 == Word(hi + bHi + IF lo2 < bLo THEN 1 ELSE 0)
      odd == a % 2 = 1
      lo3 == IF odd THEN lo2 ELSE lo
      hi3 == IF odd THEN hi2 ELSE hi
  IN  IF n = 0 THEN <<hi, lo>>
      ELSE IF odd /\ a = 1 THEN <<hi3, lo3>>
      ELSE MultLoop(ShiftRight(a, 1), ShiftLeft(bLo, 1),
                    ShiftLeft(bHi, 1) + (IF Neg(bLo) THEN 1 ELSE 0), lo3, hi3, n - 1)

\* Mutant: the double word is negated without the carry into hi.
MultNoCarry(a, b, signedArith) ==
  LET product == IF signedArith THEN MultLoop(Magnitude(a), Magnitude(b), 0, 0, 0, W)
                                ELSE MultLoop(a, b, 0, 0, 0, W)
  IN  IF a = 0 \/ b = 0 THEN <<0, 0>>
      ELSE IF signedArith /\ Neg(a) # Neg(b)
      THEN <<Complement(product[1]), Word(Complement(product[2]) + 1)>>
      ELSE product

\* Mult: <<*hiPtr, *loPtr>>.
Mult(a, b, signedArith) ==
  LET product == IF signedArith THEN MultLoop(Magnitude(a), Magnitude(b), 0, 0, 0, W)
                                ELSE MultLoop(a, b, 0, 0, 0, W)
      lo == Word(Complement(product[2]) + 1)
  IN  IF a = 0 \/ b = 0 THEN <<0, 0>>
      ELSE IF signedArith /\ Neg(a) # Neg(b)
      THEN <<Word(Complement(product[1]) + IF lo = 0 THEN 1 ELSE 0), lo>>
      ELSE product

\* OP_MFHI to OP_ORI.  OP_OR has the same register twice.
HiLoOr(m, i) ==
  LET s == m.r[i.rs]
      t == m.r[i.rt]
      product == Mult(s, t, i.op = "MULT")
  IN  CASE i.op = "MFHI" -> Put(m, i.rd, m.hi)
        [] i.op = "MFLO" -> Put(m, i.rd, m.lo)
        [] i.op = "MTHI" -> Done([m EXCEPT !.hi = s])
        [] i.op = "MTLO" -> Done([m EXCEPT !.lo = s])
        [] i.op \in {"MULT", "MULTU"} -> Done([m EXCEPT !.hi = product[1], !.lo = product[2]])
        [] i.op = "NOR"  -> Put(m, i.rd, Complement(s | t))
        [] i.op = "OR"   -> Put(m, i.rd, s | s)
        [] i.op = "ORI"  -> Put(m, i.rt, s | Low(i.extra, H))

\* OP_SLL to OP_SUBU.  OP_SRL and OP_SRLV shift an int, so the sign comes in.
ShiftCompareSub(m, i) ==
  LET s == m.r[i.rs]
      t == m.r[i.rt]
      by == IF i.op \in {"SLL", "SRA", "SRL"} THEN i.extra ELSE s % W
      Bit(test) == IF test THEN 1 ELSE 0
  IN  CASE i.op \in {"SLL", "SLLV"} -> Put(m, i.rd, ShiftLeft(t, by))
        [] i.op \in {"SRA", "SRAV", "SRL", "SRLV"} -> Put(m, i.rd, ShiftRight(t, by))
        [] i.op = "SLT"   -> Put(m, i.rd, Bit(Signed(s) < Signed(t)))
        [] i.op = "SLTI"  -> Put(m, i.rt, Bit(Signed(s) < Signed(i.extra)))
        [] i.op = "SLTIU" -> Put(m, i.rt, Bit(s < i.extra))
        [] i.op = "SLTU"  -> Put(m, i.rd, Bit(s < t))
        [] i.op = "SUB" /\ Overflows(s, t, Word(s - t), FALSE) -> Raise(m, "OverflowException", 0)
        [] i.op \in {"SUB", "SUBU"} -> Put(m, i.rd, Word(s - t))

\* OP_SB and OP_SH
StorePart(m, i, addr, t) == WriteMem(m, addr, IF i.op = "SB" THEN 1 ELSE 2, t)

\* The stores: OP_SW, the aligned case of OP_SWL and OP_SWR, and those of a part.
Store(m, i) ==
  LET addr == Word(m.r[i.rs] + i.extra)
      t == m.r[i.rt]
      read == ReadMem(m, addr, 4)
      Merged(w) == IF i.op = "SWL" THEN t ELSE Low(w, 3 * B) + ShiftLeft(t, 3 * B)
  IN  CASE i.op \in {"SB", "SH"} -> StorePart(m, i, addr, t)
        [] i.op = "SW" -> WriteMem(m, addr, 4, t)
        [] i.op \in {"SWL", "SWR"} /\ addr % 4 # 0 -> Aborts(m)
        [] OTHER -> IF Failed(read) THEN read ELSE WriteMem(m, addr, 4, Merged(read.loadValue))

\* OP_SYSCALL to OP_UNIMP
Trap(m, i) ==
  CASE i.op = "SYSCALL" -> Raise(m, "SyscallException", 0)
    [] i.op = "XOR"     -> Put(m, i.rd, m.r[i.rs] ^^ m.r[i.rt])
    [] i.op = "XORI"    -> Put(m, i.rt, m.r[i.rs] ^^ Low(i.extra, H))
    [] OTHER            -> Raise(m, "IllegalInstrException", 0)

-----------------------------------------------------------------------------

Branches == {"BEQ", "BNE", "BGEZ", "BGEZAL", "BLTZ", "BLTZAL", "BGTZ", "BLEZ"}
Jumps == {"J", "JAL", "JALR", "JR"}
Loads == {"LB", "LBU", "LH", "LHU", "LW", "LWL", "LWR"}

\* The switch of Machine::OneInstruction.
Execute(m, i) ==
  CASE i.op \in {"ADD", "ADDI", "ADDIU", "ADDU", "AND", "ANDI"} -> Add(m, i)
    [] i.op \in Branches                               -> Branch(m, i)
    [] i.op \in {"DIV", "DIVU"}                        -> Divide(m, i)
    [] i.op \in Jumps                                  -> Jump(m, i)
    [] i.op \in {"LB", "LBU", "LH", "LHU", "LUI", "LW"} -> Load(m, i)
    [] i.op \in {"LWL", "LWR"}                         -> LoadPart(m, i)
    [] i.op \in {"MFHI", "MFLO", "MTHI", "MTLO", "MULT", "MULTU", "NOR", "OR", "ORI"} -> HiLoOr(m, i)
    [] i.op \in {"SLL", "SLLV", "SLT", "SLTI", "SLTIU", "SLTU", "SRA", "SRAV", "SRL",
                 "SRLV", "SUB", "SUBU"}                -> ShiftCompareSub(m, i)
    [] i.op \in {"SB", "SH", "SW", "SWL", "SWR"}       -> Store(m, i)
    [] OTHER                                           -> Trap(m, i)

\* Machine::OneInstruction up to its switch: the fetch can fail.
OneInstruction(m, v) ==
  LET fetch == ReadMem(m, m.pc, 4)
  IN  IF Failed(fetch) THEN fetch ELSE Execute(m, Decode(v))


\* Machine::DelayedLoad
DelayedLoad(m, nextReg, nextValue) ==
  [m EXCEPT !.r = [@ EXCEPT ![m.loadReg] = m.loadValue, ![0] = 0],
            !.loadReg = nextReg, !.loadValue = nextValue]

\* The end of OneInstruction: the delayed load, and the program counters.
Advance(o) ==
  [DelayedLoad(o.m, o.loadReg, o.loadValue) EXCEPT !.pc = o.m.nextPC, !.nextPC = o.pcAfter]

\* Machine::RaiseException up to the handler.
RaiseException(o) == DelayedLoad(o.m, 0, 0)
=============================================================================
