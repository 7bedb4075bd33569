------------------------------ MODULE SystemIO ------------------------------
(***************************************************************************)
(* The system calls Read and Write (userprog/exception.cc) copy bytes      *)
(* between the kernel and the memory of the process one at a time with     *)
(* WriteMem and ReadMem, so a page fault can come inside the kernel: the   *)
(* handler loads the page and the access returns FALSE.                    *)
(***************************************************************************)
EXTENDS MipsLockstep, Sequences, SequencesExt

CONSTANTS
  Addresses,   \* where buffers start
  MaxSize,     \* the largest size a program asks for
  MaxText      \* the most characters typed

VARIABLES copy    \* the copy in progress

ioVars == <<vars, copy>>

NoCopy == [call |-> "none", addr |-> 0, text |-> <<>>, limit |-> 0, next |-> 0,
           size |-> 0, file |-> FALSE, missed |-> FALSE]

IOInit == MipsInit /\ copy = NoCopy

\* Characters are 1, and 0 is the character that ends a string.
Typed(n) == [k \in 1..(n + 1) |-> IF k <= n THEN 1 ELSE 0]

\* SC_Read from the keyboard: scanf has put n characters and a 0 in buffer; the
\* cut is made after size + 1 characters.
ReadKeyboard(addr, size, n) ==
  copy' = [NoCopy EXCEPT !.call = "Read", !.addr = addr, !.size = size,
                         !.text = Typed(n),
                         !.limit = IF n > size + 1 THEN size + 1 ELSE n + 1]

\* SC_Read from a file: size bytes, or up to the first 0.
ReadFile(addr, size, bytes) ==
  copy' = [NoCopy EXCEPT !.call = "Read", !.addr = addr, !.size = size,
                         !.text = bytes, !.limit = size, !.file = TRUE]

\* SC_Write takes no notice of its size.
WriteString(addr, size) ==
  copy' = [NoCopy EXCEPT !.call = "Write", !.addr = addr, !.size = size]

\* The process makes the system call.
Call ==
  /\ Running /\ workload = "copy" /\ copy.call = "none"
  /\ \E addr \in Addresses, size \in 0..MaxSize :
       \/ \E n \in 0..MaxText : ReadKeyboard(addr, size, n)
       \/ \E bytes \in [1..size -> {0, 1}] : ReadFile(addr, size, bytes)
       \/ WriteString(addr, size)
  /\ UNCHANGED vars

\* The kernel's access raised an exception: a page fault returns, any other ends
\* the process.
Excepted(o) ==
  IF o.exc = "PageFaultException"
  THEN /\ sim' = [RaiseException(o) EXCEPT !.valid = @ \cup {o.badVAddr \div PageSize}]
       /\ UNCHANGED outcome
  ELSE sim' = RaiseException(o) /\ outcome' = "killed"

\* One round of the loops of SRead.  The result of WriteMem is not looked at.
ReadByte ==
  LET c == copy.text[copy.next + 1]
      o == WriteMem(sim, Word(copy.addr + copy.next), 1, c)
      ok == o.exc = "NoException"
  IN  /\ Running /\ copy.call = "Read" /\ copy.next < copy.limit
      /\ \/ ok /\ sim' = o.m /\ UNCHANGED outcome
         \/ ~ok /\ Excepted(o)
      /\ copy' = [copy EXCEPT !.next = @ + 1, !.limit = IF c = 0 THEN copy.next + 1 ELSE @,
                              !.missed = @ \/ ~ok]
      /\ UNCHANGED <<workload, current, last, interp, same, instrs, faults>>


\* One round of the loop of SC_Write: after an exception the same byte again.
WriteByte ==
  LET o == ReadMem(sim, Word(copy.addr + copy.next), 1)
      ok == o.exc = "NoException"
  IN  /\ Running /\ copy.call = "Write"
      /\ 0 \notin Range(copy.text)
      /\ \/ /\ ok
            /\ copy' = [copy EXCEPT !.next = @ + 1, !.text = Append(@, o.loadValue)]
            /\ UNCHANGED <<sim, outcome>>
         \/ ~ok /\ Excepted(o) /\ UNCHANGED copy
      /\ UNCHANGED <<workload, current, last, interp, same, instrs, faults>>

\* The call is over.
Returned ==
  /\ \/ copy.call = "Read" /\ copy.next = copy.limit
     \/ copy.call = "Write" /\ 0 \in Range(copy.text)
  /\ UNCHANGED ioVars

IONext ==
  \/ MipsNext /\ UNCHANGED copy
  \/ Call
  \/ ReadByte \/ WriteByte
  \/ Returned

IOSpec == IOInit /\ [][IONext]_ioVars

-----------------------------------------------------------------------------

\* interp takes no step here, so its memory is what the process had at the call.
Before == interp.mem

\* The bytes of a process that its Write of a string of that size means.
Meant == [k \in 1..copy.size |-> Before[copy.addr + k - 1]]

WritesWholeString ==
  /\ copy.addr + copy.size \in DOMAIN Before /\ Before[copy.addr + copy.size] = 0
  /\ 0 \notin Range(Meant)

\* A Read of size bytes of a file without a 0 in them, or of what was typed when it
\* and the 0 after it fit in size bytes.
ReadsWhatFits ==
  IF copy.file THEN 0 \notin Range(copy.text) ELSE Len(copy.text) <= copy.size

\* What SRead returns: its num, which stays on a 0.
Result == Cardinality({k \in 1..copy.next : copy.text[k] # 0})

=============================================================================
