----------------------------- MODULE MipsInterp -----------------------------
(***************************************************************************)
(* The other MIPS simulator of the repository, the interpreter of          *)
(* bin/execute.c: it loads at once, raises no exceptions and wraps on      *)
(* overflow.  A machine q has the registers, HI, LO, pc, npc and memory;   *)
(* instruction words are those of MipsSim.  An instruction that stops the  *)
(* interpreter or the host clears q.ok.                                    *)
(***************************************************************************)
EXTENDS MipsWord, TLC

Stops(q) == [q EXCEPT !.ok = FALSE]

\* The I_ numbers of encode.h.
Opcode ==
  0 :> "SPECIAL" @@ 1 :> "BCOND" @@ 2 :> "J" @@ 3 :> "JAL" @@ 4 :> "BEQ" @@
  5 :> "BNE" @@ 6 :> "BLEZ" @@ 7 :> "BGTZ" @@ 8 :> "ADDI" @@ 9 :> "ADDIU" @@
  10 :> "SLTI" @@ 11 :> "SLTIU" @@ 12 :> "ANDI" @@ 13 :> "ORI" @@ 14 :> "XORI" @@
  15 :> "LUI" @@ 32 :> "LB" @@ 33 :> "LH" @@ 34 :> "LWL" @@ 35 :> "LW" @@
  36 :> "LBU" @@ 37 :> "LHU" @@ 38 :> "LWR" @@ 40 :> "SB" @@ 41 :> "SH" @@ 43 :> "SW"

SpecialOpcode ==
  0 :> "SLL" @@ 2 :> "SRL" @@ 3 :> "SRA" @@ 4 :> "SLLV" @@ 6 :> "SRLV" @@
  7 :> "SRAV" @@ 8 :> "JR" @@ 9 :> "JALR" @@ 12 :> "SYSCALL" @@ 13 :> "BREAK" @@
  16 :> "MFHI" @@ 17 :> "MTHI" @@ 18 :> "MFLO" @@ 19 :> "MTLO" @@ 24 :> "MULT" @@
  25 :> "MULTU" @@ 26 :> "DIV" @@ 27 :> "DIVU" @@ 32 :> "ADD" @@ 33 :> "ADDU" @@
  34 :> "SUB" @@ 35 :> "SUBU" @@ 36 :> "AND" @@ 37 :> "OR" @@ 38 :> "XOR" @@
  39 :> "NOR" @@ 42 :> "SLT" @@ 43 :> "SLTU"

BcondOpcode == 0 :> "BLTZ" @@ 1 :> "BGEZ" @@ 16 :> "BLTZAL" @@ 17 :> "BGEZAL"

NameIn(table, n) == IF n \in DOMAIN table THEN table[n] ELSE "none"

immed(v) == SignExtend(v.imm, H)

\* HI of the products of the half words; the carries between them are lost.
HighPart(t1, t2) ==
  LET l1 == Low(t1, H)  h1 == ShiftRightU(t1, H)
      l2 == Low(t2, H)  h2 == ShiftRightU(t2, H)
  IN  Word(h1 * h2 + ShiftRight(Word(h1 * l2), H) + ShiftRight(Word(h2 * l1), H))

\* I_MULT and I_MULTU
Multiply(q, s, t, signed) ==
  LET t1 == IF signed THEN Magnitude(s) ELSE s
      t2 == IF signed THEN Magnitude(t) ELSE t
      lo == Word(t1 * t2)
      hi == HighPart(t1, t2)
      negLo == Word(Complement(lo) + 1)
  IN  IF signed /\ Neg(s) # Neg(t)
      THEN [q EXCEPT !.lo = negLo,
                     !.hi = Word(Complement(hi) + IF negLo = 0 THEN 1 ELSE 0)]
      ELSE [q EXCEPT !.lo = lo, !.hi = hi]

\* The instructions under I_SPECIAL; xpc is the address of the instruction.  A
\* host shift looks at the low bits of its count.
Special(q, v, xpc) ==
  LET op == NameIn(SpecialOpcode, v.funct)
      s == q.r[v.rs]
      t == q.r[v.rt]
      Rd(w) == [q EXCEPT !.r[v.rd] = w]
  IN  CASE op = "SLL"  -> Rd(ShiftLeft(t, v.shamt))
        [] op = "SRL"  -> Rd(ShiftRightU(t, v.shamt))
        [] op = "SRA"  -> Rd(ShiftRight(t, v.shamt))
        [] op = "SLLV" -> Rd(ShiftLeft(t, s % W))
        [] op = "SRLV" -> Rd(ShiftRightU(t, s % W))
        [] op = "SRAV" -> Rd(ShiftRight(t, s % W))
        [] op = "JR"   -> [q EXCEPT !.npc = s]
        [] op = "JALR" -> [Rd(Word(xpc + 8)) EXCEPT !.npc = s]
        [] op = "MFHI" -> Rd(q.hi)
        [] op = "MTHI" -> [q EXCEPT !.hi = s]
        [] op = "MFLO" -> Rd(q.lo)
        [] op = "MTLO" -> [q EXCEPT !.lo = s]
        [] op \in {"MULT", "MULTU"} -> Multiply(q, s, t, op = "MULT")
        [] op \in {"DIV", "DIVU"} /\ t = 0 -> Stops(q)
        [] op = "DIV"  -> [q EXCEPT !.lo = Word(Quotient(Signed(s), Signed(t))),
                                    !.hi = Word(Remainder(Signed(s), Signed(t)))]
        [] op = "DIVU" -> [q EXCEPT !.lo = Quotient(s, t), !.hi = Remainder(s, t)]
        [] op \in {"ADD", "ADDU"} -> Rd(Word(s + t))
        [] op \in {"SUB", "SUBU"} -> Rd(Word(s - t))
        [] op = "AND"  -> Rd(s & t)
        [] op = "OR"   -> Rd(s | t)
        [] op = "XOR"  -> Rd(s ^^ t)
        [] op = "NOR"  -> Rd(Complement(s | t))
        [] op = "SLT"  -> Rd(IF Signed(s) < Signed(t) THEN 1 ELSE 0)
        [] op = "SLTU" -> Rd(IF s < t THEN 1 ELSE 0)
        [] op \in {"SYSCALL", "BREAK"} -> q    \* the trap is not modelled
        [] OTHER       -> Stops(q)

\* I_BCOND to I_BGTZ
BranchOrJump(q, v, xpc) ==
  LET op == IF v.major = 1 THEN NameIn(BcondOpcode, v.rt) ELSE NameIn(Opcode, v.major)
      linked == IF op \in {"BLTZAL", "BGEZAL", "JAL"}
                THEN [q EXCEPT !.r[31] = Word(xpc + 8)] ELSE q
      s == Signed(linked.r[v.rs])
      taken == CASE op \in {"BLTZ", "BLTZAL"} -> s < 0
                 [] op \in {"BGEZ", "BGEZAL"} -> s >= 0
                 [] op = "BEQ"  -> q.r[v.rs] = q.r[v.rt]
                 [] op = "BNE"  -> q.r[v.rs] # q.r[v.rt]
                 [] op = "BLEZ" -> s <= 0
                 [] op = "BGTZ" -> s > 0
                 [] OTHER       -> TRUE
  IN  CASE op = "none" -> Stops(q)
        [] op \in {"J", "JAL"} ->
             [linked EXCEPT !.npc = Region(xpc) + ShiftLeft(v.target, 2)]
        [] OTHER -> IF taken
                    THEN [linked EXCEPT !.npc = Word(xpc + 4 + ShiftLeft(immed(v), 2))]
                    ELSE linked

\* I_ADDI to I_LUI: ANDI, ORI and XORI extend the sign too.
Immediate(q, v) ==
  LET op == NameIn(Opcode, v.major)
      s == q.r[v.rs]
      i == immed(v)
      Rt(w) == [q EXCEPT !.r[v.rt] = w]
  IN  CASE op \in {"ADDI", "ADDIU"} -> Rt(Word(s + i))
        [] op = "SLTI"  -> Rt(IF Signed(s) < Signed(i) THEN 1 ELSE 0)
        [] op = "SLTIU" -> Rt(IF s < i THEN 1 ELSE 0)
        [] op = "ANDI"  -> Rt(s & i)
        [] op = "ORI"   -> Rt(s | i)
        [] op = "XORI"  -> Rt(s ^^ i)
        [] op = "LUI"   -> Rt(ShiftLeft(v.imm, H))

\* I_LB to I_SWR, for addresses inside the memory; LWL and LWR as they are for
\* an aligned address.  SWL, SWR and the coprocessors stop the interpreter.
Memory(q, v) ==
  LET op == NameIn(Opcode, v.major)
      addr == Word(q.r[v.rs] + immed(v))
      Rt(w) == [q EXCEPT !.r[v.rt] = w]
  IN  CASE op = "LB"  -> Rt(SignExtend(BytesAt(q.mem, addr, 1), B))
        [] op = "LH"  -> Rt(SignExtend(BytesAt(q.mem, addr, 2), H))
        [] op = "LWL" -> Rt(q.r[v.rt] | BytesAt(q.mem, addr, 4))
        [] op \in {"LW", "LWR"} -> Rt(BytesAt(q.mem, addr, 4))
        [] op = "LBU" -> Rt(BytesAt(q.mem, addr, 1))
        [] op = "LHU" -> Rt(BytesAt(q.mem, addr, 2))
        [] op = "SB"  -> [q EXCEPT !.mem = WithBytes(q.mem, addr, 1, q.r[v.rt])]
        [] op = "SH"  -> [q EXCEPT !.mem = WithBytes(q.mem, addr, 2, q.r[v.rt])]
        [] op = "SW"  -> [q EXCEPT !.mem = WithBytes(q.mem, addr, 4, q.r[v.rt])]
        [] OTHER      -> Stops(q)

\* One round of the loop of runprogram.
runprogram(q0, v) ==
  LET q == [q0 EXCEPT !.pc = q0.npc, !.npc = Word(q0.npc + 4), !.r[0] = 0]
  IN  CASE v.major = 0       -> Special(q, v, q0.pc)
        [] v.major \in 1..7  -> BranchOrJump(q, v, q0.pc)
        [] v.major \in 8..15 -> Immediate(q, v)
        [] OTHER             -> Memory(q, v)
=============================================================================
