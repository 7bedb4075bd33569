---------------------------- MODULE ObjectFiles ----------------------------
(***************************************************************************)
(* How a program gets from the linker into memory.  coff2noff turns the    *)
(* COFF file of the linker into the NOFF file of Nachos, whose kernel      *)
(* reads it page by page (AddrSpace::loadPage); coff2flat turns it into an *)
(* image; the interpreter of bin/ loads it directly (load_program).        *)
(*                                                                         *)
(* A byte is the section it comes from and its place in it.  Addresses are *)
(* relative to where the program is linked: 0, or memoffset for the        *)
(* interpreter.                                                            *)
(***************************************************************************)
EXTENDS SystemIO

CONSTANTS
  Objects,           \* the COFF files
  NoffHeaderSize,    \* sizeof(NoffHeader)
  StackSize,         \* UserStackSize, and StackSize of coff2flat
  MemSize            \* MEMSIZE of the interpreter

VARIABLES
  object,    \* the COFF file: a header, sections, and the section it ends in or 0
  noff,      \* the output of coff2noff
  flat,      \* the output of coff2flat
  image,     \* the memory of the interpreter
  frames     \* the pages the kernel has loaded

loadVars == <<object, noff, flat, image, frames>>

Zero == <<0, 0>>
EOF == <<0, 1>>

Section(i) == object.sections[i]
IsBss(i) == Section(i).name \in {".bss", ".sbss"}
Raw(i) == [k \in 1..Section(i).size |-> <<i, k>>]

\* Read of the raw data of section i, which fails in a file that is too short.
CanRead(i) == object.short = 0 \/ i < object.short

-----------------------------------------------------------------------------
(***************************************************************************)
(* coff2noff                                                               *)
(***************************************************************************)

Segment(addr, at, size) == [virtualAddr |-> addr, inFileAddr |-> at, size |-> size]

NoffStart == [ok |-> TRUE, bytes |-> <<>>, code |-> Segment(0, 0, 0),
              initData |-> Segment(0, 0, 0), uninitData |-> Segment(0, 0, 0)]

\* exit(1), after unlink.
NoffFails == [NoffStart EXCEPT !.ok = FALSE]

\* Copies section i behind what is in the file as segment seg.
CopySegment(h, seg, i) ==
  IF ~CanRead(i) THEN NoffFails
  ELSE [h EXCEPT ![seg] = Segment(Section(i).addr, NoffHeaderSize + Len(h.bytes),
                                  Section(i).size),
                 !.bytes = @ \o Raw(i)]

\* Uninitialized data; a second section is refused when it follows the first.
AddBss(h, i) ==
  CASE h.uninitData.size = 0 ->
         [h EXCEPT !.uninitData = Segment(Section(i).addr, 0, Section(i).size)]
    [] Section(i).addr = h.uninitData.virtualAddr + h.uninitData.size -> NoffFails
    [] OTHER -> [h EXCEPT !.uninitData.size = @ + Section(i).size]

\* Mutant: .data and .rdata are both copied.
NoffSectionBoth(h, i) ==
  CASE ~h.ok \/ Section(i).size = 0           -> h
    [] Section(i).name = ".text"              -> CopySegment(h, "code", i)
    [] Section(i).name \in {".data", ".rdata"} -> CopySegment(h, "initData", i)
    [] IsBss(i)                               -> AddBss(h, i)
    [] OTHER                                  -> NoffFails

NoffSection(h, i) ==
  CASE ~h.ok \/ Section(i).size = 0 -> h
    [] Section(i).name = ".text"    -> CopySegment(h, "code", i)
    [] Section(i).name \in {".data", ".rdata"} ->
         IF h.initData.size # 0 THEN NoffFails ELSE CopySegment(h, "initData", i)
    [] IsBss(i) -> AddBss(h, i)
    [] OTHER    -> NoffFails

Indices == [i \in DOMAIN object.sections |-> i]

coff2noff ==
  IF object.header # "OMAGIC" THEN NoffFails ELSE FoldLeft(NoffSection, NoffStart, Indices)

-----------------------------------------------------------------------------
(***************************************************************************)
(* coff2flat                                                               *)
(***************************************************************************)

FlatStart == [ok |-> TRUE, bytes |-> <<>>, top |-> 0]
FlatFails == [FlatStart EXCEPT !.ok = FALSE]

\* Each section is written where the one before it ended.
FlatSection(f, i) ==
  LET end == Section(i).addr + Section(i).size
      g == [f EXCEPT !.top = IF end > @ THEN end ELSE @]
  IN  CASE ~f.ok       -> f
        [] IsBss(i)    -> g
        [] ~CanRead(i) -> FlatFails
        [] OTHER       -> [g EXCEPT !.bytes = @ \o Raw(i)]

\* The hole up to the blank word at the end of the stack reads as zeros.
coff2flat ==
  LET f == FoldLeft(FlatSection, FlatStart, Indices)
  IN  IF object.header # "OMAGIC" THEN FlatFails
      ELSE [f EXCEPT !.bytes = [a \in 1..(f.top + StackSize) |->
                                  IF a <= Len(f.bytes) THEN f.bytes[a] ELSE Zero]]

-----------------------------------------------------------------------------
(***************************************************************************)
(* load_program of the interpreter                                         *)
(***************************************************************************)

ImageStart == [ok |-> TRUE, mem |-> [a \in 0..(MemSize - 1) |-> Zero]]
ImageFails == [ImageStart EXCEPT !.ok = FALSE]

\* Mutant: the first byte is not at the address of the section.
LoadSectionNext(m, i) ==
  [m EXCEPT !.mem = [a \in DOMAIN @ |->
     IF a \in (Section(i).addr + 1)..(Section(i).addr + Section(i).size)
     THEN <<i, a - Section(i).addr>> ELSE @[a]]]

\* LOADSECTION: what getc returns at the end of the file is stored as well.  getc
\* has fp, which main has closed: taken to be the file that ldopen opens next.
LoadSection(m, i) ==
  IF Section(i).addr + Section(i).size >= MemSize THEN ImageFails
  ELSE [m EXCEPT !.mem = [a \in DOMAIN @ |->
          IF a \in Section(i).addr..(Section(i).addr + Section(i).size - 1)
          THEN IF CanRead(i) THEN <<i, a - Section(i).addr + 1>> ELSE EOF
          ELSE @[a]]]

\* The first section of that name; .bss and .sbss have s_scnptr 0.
LoadNamed(m, name) ==
  LET is == {i \in DOMAIN object.sections : Section(i).name = name}
  IN  IF ~m.ok \/ is = {} \/ name \in {".bss", ".sbss"} THEN m
      ELSE LoadSection(m, Min(is))

load_program ==
  IF object.header \in {"short", "not MIPSEL"} THEN ImageFails
  ELSE FoldLeft(LoadNamed, ImageStart,
                <<".text", ".rdata", ".data", ".sdata", ".sbss", ".bss">>)

-----------------------------------------------------------------------------
(***************************************************************************)
(* AddrSpace::loadPage                                                     *)
(***************************************************************************)

\* numPages, from the sizes of the segments.
numPages ==
  (noff.code.size + noff.initData.size + noff.uninitData.size + StackSize + PageSize - 1)
    \div PageSize

\* ReadAt of size bytes into a frame: nothing for a negative size, and no more than
\* the file has.  What does not fit into the frame is in VirtualMemory.
ReadInto(frame, at, size, pos) ==
  [j \in DOMAIN frame |->
     LET k == pos - NoffHeaderSize + (j - at) + 1
     IN  IF j \in at..(at + size - 1) /\ k \in DOMAIN noff.bytes THEN noff.bytes[k]
         ELSE frame[j]]

\* The part of a segment that is in the page, and more.
LoadSegment(frame, seg, page) ==
  LET start == page * PageSize
      end == seg.virtualAddr + seg.size
      offset == IF seg.virtualAddr <= start THEN start - seg.virtualAddr ELSE 0
      pageStart == IF seg.virtualAddr <= start THEN 0 ELSE seg.virtualAddr - start
      size == PageSize - pageStart - (IF end < start + PageSize THEN start - end ELSE 0)
  IN  IF seg.size = 0 THEN frame ELSE ReadInto(frame, pageStart, size, seg.inFileAddr + offset)

loadPage(page) ==
  LET zeroed == [j \in 0..(PageSize - 1) |-> Zero]
  IN  LoadSegment(LoadSegment(zeroed, noff.code, page), noff.initData, page)

-----------------------------------------------------------------------------

NotRun == [ok |-> FALSE]

LoadInit ==
  /\ IOInit
  /\ object \in IF workload = "load" THEN Objects ELSE {NotRun}
  /\ noff = NotRun /\ flat = NotRun /\ image = NotRun
  /\ frames = <<>>

RunCoff2noff ==
  /\ workload = "load" /\ noff = NotRun
  /\ noff' = coff2noff
  /\ UNCHANGED <<ioVars, object, flat, image, frames>>

RunCoff2flat ==
  /\ workload = "load" /\ flat = NotRun
  /\ flat' = coff2flat
  /\ UNCHANGED <<ioVars, object, noff, image, frames>>

RunInterpreter ==
  /\ workload = "load" /\ image = NotRun
  /\ image' = load_program
  /\ UNCHANGED <<ioVars, object, noff, flat, frames>>

\* The process touches a page for the first time; its pages come in any order.
TouchPage ==
  /\ workload = "load" /\ noff.ok
  /\ \E page \in 0..(numPages - 1) :
       page \notin DOMAIN frames /\ frames' = (page :> loadPage(page)) @@ frames
  /\ UNCHANGED <<ioVars, object, noff, flat, image>>

\* Every tool has run and every page is loaded.
Loaded ==
  /\ workload = "load" /\ NotRun \notin {noff, flat, image}
  /\ noff.ok => Cardinality(DOMAIN frames) = numPages
  /\ UNCHANGED <<ioVars, loadVars>>

LoadNext ==
  \/ IONext /\ UNCHANGED loadVars
  \/ RunCoff2noff \/ RunCoff2flat \/ RunInterpreter \/ TouchPage
  \/ Loaded

LoadSpec == LoadInit /\ [][LoadNext]_<<ioVars, loadVars>>

-----------------------------------------------------------------------------
(***************************************************************************)
(* Properties                                                              *)
(***************************************************************************)

Span(i) == Section(i).addr..(Section(i).addr + Section(i).size - 1)

\* What the linker says is at an address of section i.
Linked(i, a) == IF IsBss(i) THEN Zero ELSE <<i, a - Section(i).addr + 1>>

\* The sections lie in memory in the order of the file, with or without gaps.
InOrder ==
  \A i, j \in DOMAIN object.sections :
    i < j => Section(i).addr + Section(i).size <= Section(j).addr

\* A page of a process has every byte of code, data and zeroed data where the
\* linker put it, whichever sections share the page: what loadPage reads too much
\* for one segment is overwritten by the next or lies in a gap.
PagesAsLinked ==
  workload = "load" /\ noff.ok /\ InOrder =>
    \A page \in DOMAIN frames : \A i \in DOMAIN object.sections : \A a \in Span(i) :
      a \div PageSize = page => frames[page][a % PageSize] = Linked(i, a)

\* The interpreter runs what the kernel runs, from a file the kernel can run, and
\* so does a copy of the flat file when the sections follow each other.
LoadersAgree ==
  workload = "load" /\ noff.ok /\ InOrder =>
    \A page \in DOMAIN frames : \A i \in DOMAIN object.sections : \A a \in Span(i) :
      a \div PageSize = page =>
        /\ image.ok => image.mem[a] = frames[page][a % PageSize]
        /\ (/\ flat.ok
            /\ Section(1).addr = 0
            /\ \A j \in DOMAIN object.sections :
                 j > 1 => Section(j).addr = Section(j - 1).addr + Section(j - 1).size)
              => flat.bytes[a + 1] = frames[page][a % PageSize]
=============================================================================
