------------------------------- MODULE MCMips -------------------------------
(***************************************************************************)
(* The two MIPS simulators on four-bit words with bytes of one bit, three  *)
(* registers and three pages of one word.  The programs load, store, add,  *)
(* branch, call, return and make system calls; r1 and r31 are also used as *)
(* addresses, so some of these accesses fault and some are killed.         *)
(* The object files have up to four sections of several sizes, with and    *)
(* without gaps between them, and some are damaged.                        *)
(***************************************************************************)
EXTENDS ObjectFiles

MCGPR == {0, 1, 31}

MCProgram ==
  {[Blank EXCEPT !.major = 35, !.rs = 0, !.rt = 1],                   \* lw r1, 0(r0)
   [Blank EXCEPT !.major = 35, !.rs = 1, !.rt = 31],                  \* lw r31, 0(r1)
   [Blank EXCEPT !.major = 32, !.rs = 31, !.rt = 1],                  \* lb r1, 0(r31)
   [Blank EXCEPT !.major = 43, !.rs = 1, !.rt = 31],                  \* sw r31, 0(r1)
   [Blank EXCEPT !.funct = 33, !.rs = 1, !.rt = 31, !.rd = 31],       \* addu r31, r1, r31
   [Blank EXCEPT !.funct = 32, !.rs = 1, !.rt = 1, !.rd = 1],         \* add r1, r1, r1
   [Blank EXCEPT !.major = 9, !.rs = 31, !.rt = 0, !.imm = 1],        \* addiu r0, r31, 1
   [Blank EXCEPT !.major = 4, !.rs = 1, !.rt = 0, !.imm = 3],         \* beq r1, r0, -1
   [Blank EXCEPT !.major = 3, !.target = 1],                          \* jal 1
   [Blank EXCEPT !.funct = 8, !.rs = 31],                             \* jr r31
   [Blank EXCEPT !.funct = 12]}                                       \* syscall

\* The sections with these names and sizes, each gap bytes after the one before.
Sections(names, sizes, gap) ==
  [i \in DOMAIN names |->
     [name |-> names[i], size |-> sizes[i],
      addr |-> MapThenSumSet(LAMBDA j : sizes[j] + gap, 1..(i - 1))]]

SectionNames ==
  {<<".text", d, b>> : d \in {".rdata", ".data", ".sdata"}, b \in {".sbss", ".bss"}}
    \cup {<<".text", ".rdata", ".data", ".bss">>, <<".text", ".data", ".sbss", ".bss">>}

MCObjects ==
  {[header |-> "OMAGIC", short |-> 0, sections |-> Sections(names, sizes, gap)] :
     gap \in {0, 3}, names \in SectionNames, sizes \in [1..4 -> {0, 2, 5}]}
    \cup
  {[header |-> h, short |-> n, sections |-> Sections(<<".text", ".data", ".bss">>, <<5, 2, 2>>, 0)] :
     h \in {"OMAGIC", "not OMAGIC", "not MIPSEL", "short"}, n \in 0..3}
=============================================================================
