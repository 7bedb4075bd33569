--------------------------- MODULE VirtualMemory ---------------------------
(***************************************************************************)
(* Demand paging: the page fault handler AddrSpace::loadPage, Swapout and  *)
(* Swapin, the frame map, the inverted page table and the FIFO list, for   *)
(* processes that the thread system preempts.  A pageLock is a semaphore   *)
(* of ThreadKernel, and its P and V are where loadPage can lose the        *)
(* processor; the rest of a fault is one step.                             *)
(*                                                                         *)
(* The contents of a page are abstracted to whose page it is and whether   *)
(* it is as in the executable or as the program last wrote it.             *)
(***************************************************************************)
EXTENDS ThreadKernel, Integers, FiniteSetsExt

CONSTANTS
  NumPhysPages,    \* frames of main memory
  NumPages,        \* pages of every address space
  SwapChoices,     \* what the -V option may say: 0: no replacement, 1: FIFO,
                   \* 2: random
  InitialSwapped,  \* what "new bool[numPages]" may hold: sets of pages
  Overruns,        \* the pages whose load reads past the end of the frame:
                   \* a segment ends inside and the file goes on after it
  MaxExecs         \* bound on the processes created in one execution

Frames == 0 .. NumPhysPages - 1
Pages == 0 .. NumPages - 1

ASSUME VMAssumption ==
  /\ NumPhysPages \in Nat \ {0} /\ NumPages \in Nat \ {0}
  /\ Sems = Frames /\ InitialValue = [f \in Frames |-> 1]
  /\ SwapChoices \subseteq {0, 1, 2}
  /\ InitialSwapped \subseteq SUBSET Pages
  /\ Overruns \subseteq Pages
  /\ MaxExecs \in Nat

VARIABLES
  swapChoice,     \* fixed by the command line
  memMap,         \* the frames marked in use
  ipt,            \* the thread each frame was last given to
  freed,          \* the frames whose thread in ipt has deleted its space
  pageList,       \* the FIFO of frames
  physicalPage, valid, dirty, swapped,   \* page table of each process
  mem,            \* main memory, by frame
  pc, faulting,   \* where a process is in loadPage, with which page and frame
  failure,        \* what stopped the system in loadPage, or "none"
  execs,
  written,        \* the pages each program wrote to
  clean           \* every "swapped" array so far started all false

pageVars == <<physicalPage, valid, dirty, swapped>>
frameVars == <<swapChoice, memMap, ipt, freed, pageList>>
vmVars == <<frameVars, pageVars, mem, pc, faulting, failure, execs,
            written, clean>>
allVars == <<vars, vmVars>>

Junk == [owner |-> NULL, page |-> -1, data |-> "junk"]
Contents ==
  [owner : Threads, page : Pages, data : {"exe", "new", "junk"}] \cup {Junk}

\* The locals of loadPage outside it.
NoFault == [page |-> 0, frame |-> 0]

Unmapped == [v \in Pages |-> -1]

\* StartProcess: the locks, and the first address space, with nothing loaded.
VMInit ==
  /\ Init
  /\ memMap = {} /\ ipt = [f \in Frames |-> NULL] /\ freed = {}
  /\ pageList = <<>> /\ swapChoice \in SwapChoices
  /\ physicalPage = [t \in Threads |-> Unmapped]
  /\ valid = [t \in Threads |-> {}] /\ dirty = [t \in Threads |-> {}]
  /\ \E s \in InitialSwapped :
       /\ swapped = [t \in Threads |-> IF t = MainThread THEN s ELSE {}]
       /\ clean = (s = {})
  /\ mem = [f \in Frames |-> Junk]
  /\ pc = [t \in Threads |-> "user"]
  /\ faulting = [t \in Threads |-> NoFault]
  /\ failure = "none"
  /\ execs = 0
  /\ written = [t \in Threads |-> {}]

InUser == cpu = "thread" /\ pc[currentThread] = "user"
-----------------------------------------------------------------------------
(***************************************************************************)
(* The program: instructions, Exec, Exit                                   *)
(***************************************************************************)

\* An instruction that writes no memory.
UserStep ==
  /\ InUser
  /\ cpu' = "tick"
  /\ UNCHANGED <<currentThread, threadVars, readyList, semVars, threadToBeDestroyed,
                 yieldOnReturn, pending, vmVars>>

\* Translate and WriteMem on a valid page.
Write(v) ==
  /\ InUser
  /\ v \in valid[currentThread]
  /\ mem' = [mem EXCEPT ![physicalPage[currentThread][v]].data = "new"]
  /\ dirty' = [dirty EXCEPT ![currentThread] = @ \cup {v}]
  /\ written' = [written EXCEPT ![currentThread] = @ \cup {v}]
  /\ cpu' = "tick"
  /\ UNCHANGED <<currentThread, threadVars, readyList, semVars, threadToBeDestroyed,
                 yieldOnReturn, pending, frameVars, physicalPage, valid, swapped,
                 pc, faulting, failure, execs, clean>>

\* SC_Exec: AddrSpace(executable), new Thread, Fork.
Exec(t) ==
  /\ InUser
  /\ execs < MaxExecs
  /\ status[t] = "FREE"
  /\ execs' = execs + 1
  /\ physicalPage' = [physicalPage EXCEPT ![t] = Unmapped]
  /\ valid' = [valid EXCEPT ![t] = {}]
  /\ dirty' = [dirty EXCEPT ![t] = {}]
  /\ \E s \in InitialSwapped :
       /\ swapped' = [swapped EXCEPT ![t] = s]
       /\ clean' = (clean /\ s = {})
  /\ written' = [written EXCEPT ![t] = {}]
  /\ status' = [status EXCEPT ![t] = "READY"]
  /\ context' = [context EXCEPT ![t] = "root"]
  /\ readyList' = Enqueued(readyList, t)
  /\ cpu' = "tick"
  /\ UNCHANGED <<currentThread, inP, semVars, threadToBeDestroyed, yieldOnReturn,
                 pending, frameVars, mem, pc, faulting, failure>>

\* The frames ~AddrSpace clears in memMap.
FramesOf(t) == {physicalPage[t][v] : v \in Pages} \ {-1}

\* SC_Exit: ~AddrSpace and Finish.  Neither ipt nor pageList forgets the frames, so
\* ipt is left with pointers to a thread whose space, page table included, is freed.
Exit ==
  /\ InUser
  /\ Finish
  /\ memMap' = memMap \ FramesOf(currentThread)
  /\ freed' = freed \cup {f \in Frames : ipt[f] = currentThread}
  /\ physicalPage' = [physicalPage EXCEPT ![currentThread] = Unmapped]
  /\ valid' = [valid EXCEPT ![currentThread] = {}]
  /\ dirty' = [dirty EXCEPT ![currentThread] = {}]
  /\ swapped' = [swapped EXCEPT ![currentThread] = {}]
  /\ written' = [written EXCEPT ![currentThread] = {}]
  /\ UNCHANGED <<swapChoice, ipt, pageList, mem, pc, faulting, failure, execs, clean>>

-----------------------------------------------------------------------------
(***************************************************************************)
(* loadPage                                                                *)
(***************************************************************************)

\* An exception on page v: with replacement by FIFO the frame is locked next.
StartLoad(v, f) ==
  /\ faulting' = [faulting EXCEPT ![currentThread] = [page |-> v, frame |-> f]]
  /\ pc' = [pc EXCEPT ![currentThread] = IF swapChoice = 1 THEN "locking" ELSE "loading"]
  /\ UNCHANGED <<vars, swapChoice, ipt, freed, mem, failure, execs, written, clean>>

\* Mutant: Find that does not look at the map.
FindFirst == 0

\* BitMap::Find: the first clear bit.
Find == Min(Frames \ memMap)

\* pageList->Append, with FIFO replacement.
Queued(list, f) == IF swapChoice = 1 THEN Append(list, f) ELSE list

\* There is a free frame, and it is marked.
TakeFree(v) ==
  /\ InUser
  /\ v \notin valid[currentThread]
  /\ memMap # Frames
  /\ memMap' = memMap \cup {Find}
  /\ pageList' = Queued(pageList, Find)
  /\ StartLoad(v, Find)
  /\ UNCHANGED pageVars

\* The frames the replacement may choose: the front of the list, or any.
Victims ==
  CASE swapChoice = 0 -> {}
    [] swapChoice = 1 -> IF pageList = <<>> THEN {0} ELSE {Head(pageList)}
    [] swapChoice = 2 -> Frames

\* The pages at frame f in the page table Swapout searches, that of ipt[f].
PagesAt(f) == {v \in Pages : physicalPage[ipt[f]][v] = f}

\* How ipt[f]->space->Swapout(f) goes: ipt[f] is NULL and is dereferenced; its space
\* is deleted, and Swapout runs on freed memory; the page is not in the table, and
\* the ASSERT fails; or there is a page to swap out.
SwapoutFailure(f) ==
  IF ipt[f] = NULL THEN "null"
  ELSE IF f \in freed THEN "freed"
  ELSE IF PagesAt(f) = {} THEN "assert"
  ELSE "none"

\* Mutant: Swapout that leaves the evicted page valid.
SwapoutStaysValid(f) ==
  LET t == ipt[f]
      w == Min(PagesAt(f))
  IN  /\ physicalPage' = [physicalPage EXCEPT ![t][w] = -1]
      /\ dirty' = [dirty EXCEPT ![t] = @ \ {w}]
      /\ swapped' = [swapped EXCEPT ![t] = @ \ {w}]
      /\ UNCHANGED valid

\* Mutant: Swapout that clears the entry of the process that faulted.
SwapoutOwnEntry(f) ==
  LET t == currentThread
      w == Min(PagesAt(f))
  IN  /\ physicalPage' = [physicalPage EXCEPT ![t][w] = -1]
      /\ valid' = [valid EXCEPT ![t] = @ \ {w}]
      /\ dirty' = [dirty EXCEPT ![t] = @ \ {w}]
      /\ swapped' = [swapped EXCEPT ![t] = @ \ {w}]

\* ipt[f]->space->Swapout(f): the first page at f, if dirty, is written to the
\* swap file, and is then not valid, not dirty, nowhere and not swapped.
Swapout(f) ==
  LET t == ipt[f]
      w == Min(PagesAt(f))
  IN  /\ physicalPage' = [physicalPage EXCEPT ![t][w] = -1]
      /\ valid' = [valid EXCEPT ![t] = @ \ {w}]
      /\ dirty' = [dirty EXCEPT ![t] = @ \ {w}]
      /\ swapped' = [swapped EXCEPT ![t] = @ \ {w}]

\* The victim goes from the front of the list to its end.
Evict(v, f) ==
  /\ InUser
  /\ v \notin valid[currentThread]
  /\ memMap = Frames
  /\ f \in Victims
  /\ SwapoutFailure(f) = "none"
  /\ Swapout(f)
  /\ pageList' = Queued(SubSeq(pageList, 2, Len(pageList)), f)
  /\ StartLoad(v, f)
  /\ UNCHANGED memMap

\* No replacement was chosen, or Swapout fails.  A run that has read freed memory
\* may do anything, and is not followed further.
Abort(v) ==
  /\ InUser
  /\ v \notin valid[currentThread]
  /\ memMap = Frames
  /\ \/ swapChoice = 0 /\ failure' = "scheme"
     \/ \E f \in Victims : /\ SwapoutFailure(f) # "none"
                            /\ failure' = SwapoutFailure(f)
  /\ cpu' = "halted"
  /\ UNCHANGED <<currentThread, threadVars, readyList, semVars, threadToBeDestroyed,
                 yieldOnReturn, pending, frameVars, pageVars, mem, pc, faulting,
                 execs, written, clean>>

\* pageLock[physPage]->P().  It never waits: see LockNeverWaits.
LockFrame ==
  /\ pc[currentThread] = "locking"
  /\ PDone(faulting[currentThread].frame)
  /\ pc' = [pc EXCEPT ![currentThread] = "loading"]
  /\ UNCHANGED <<frameVars, pageVars, mem, faulting, failure, execs, written, clean>>

\* The page is read from the executable.  Where the load overruns, the bytes
\* after the segment end up in the next frame.
LoadFromExecutable(v, f) ==
  /\ mem' = [g \in Frames |->
               IF g = f THEN [owner |-> currentThread, page |-> v, data |-> "exe"]
               ELSE IF g = f + 1 /\ v \in Overruns THEN [mem[g] EXCEPT !.data = "junk"]
               ELSE mem[g]]
  /\ valid' = [valid EXCEPT ![currentThread] = @ \cup {v}]
  /\ dirty' = [dirty EXCEPT ![currentThread] = @ \ {v}]

\* Swapin: what the swap file holds of a page that was never written to it is
\* nothing (a short read, and the page stays invalid) or somebody's bytes.
Swapin(v, f) ==
  \/ UNCHANGED <<mem, valid, dirty>>
  \/ /\ mem' = [mem EXCEPT ![f] = [owner |-> currentThread, page |-> v, data |-> "junk"]]
     /\ valid' = [valid EXCEPT ![currentThread] = @ \cup {v}]
     /\ dirty' = [dirty EXCEPT ![currentThread] = @ \ {v}]

\* Mutant: the frame keeps the owner it had.
Recorded(f) == ipt

\* ipt[physPage] = currentThread
LoadThreadIntoIPT(f) == [ipt EXCEPT ![f] = currentThread]

\* The rest of loadPage up to the V; without a lock, up to the retried instruction.
Load ==
  LET v == faulting[currentThread].page
      f == faulting[currentThread].frame
  IN  /\ cpu = "thread"
      /\ pc[currentThread] = "loading"
      /\ ipt' = LoadThreadIntoIPT(f)
      /\ freed' = freed \ {f}
      /\ physicalPage' = [physicalPage EXCEPT ![currentThread][v] = f]
      /\ \/ v \notin swapped[currentThread] /\ LoadFromExecutable(v, f)
         \/ v \in swapped[currentThread] /\ Swapin(v, f)
      /\ \/ /\ swapChoice = 1
            /\ pc' = [pc EXCEPT ![currentThread] = "unlocking"]
            /\ UNCHANGED <<cpu, faulting>>
         \/ /\ swapChoice # 1
            /\ pc' = [pc EXCEPT ![currentThread] = "user"]
            /\ faulting' = [faulting EXCEPT ![currentThread] = NoFault]
            /\ cpu' = "tick"
      /\ UNCHANGED <<currentThread, threadVars, readyList, semVars, threadToBeDestroyed,
                     yieldOnReturn, pending, swapChoice, memMap, pageList, swapped,
                     failure, execs, written, clean>>

\* Mutant: loadPage returns without the V.
UnlockFrameForgets ==
  /\ pc[currentThread] = "unlocking"
  /\ cpu = "thread"
  /\ cpu' = "tick"
  /\ pc' = [pc EXCEPT ![currentThread] = "user"]
  /\ faulting' = [faulting EXCEPT ![currentThread] = NoFault]
  /\ UNCHANGED <<currentThread, threadVars, readyList, semVars, threadToBeDestroyed,
                 yieldOnReturn, pending, frameVars, pageVars, mem, failure, execs, written, clean>>

\* pageLock[physPage]->V(), and back to the instruction that faulted.
UnlockFrame ==
  /\ pc[currentThread] = "unlocking"
  /\ V(faulting[currentThread].frame)
  /\ pc' = [pc EXCEPT ![currentThread] = "user"]
  /\ faulting' = [faulting EXCEPT ![currentThread] = NoFault]
  /\ UNCHANGED <<frameVars, pageVars, mem, failure, execs, written, clean>>

-----------------------------------------------------------------------------

\* SC_Yield, and the kernel's own steps under a process.
Kernel ==
  /\ \/ InUser /\ Yield
     \/ TimerInterrupt
     \/ SleepDispatch
     \/ TickReturns
     \/ Halt
     \/ Halted
  /\ UNCHANGED vmVars

VMNext ==
  \/ UserStep
  \/ \E t \in Threads : Exec(t)
  \/ Exit
  \/ \E v \in Pages : Write(v) \/ TakeFree(v) \/ Abort(v)
  \/ \E v \in Pages, f \in Frames : Evict(v, f)
  \/ LockFrame
  \/ Load
  \/ UnlockFrame
  \/ Kernel

VMSpec == VMInit /\ [][VMNext]_allVars
-----------------------------------------------------------------------------
(***************************************************************************)
(* Properties                                                              *)
(***************************************************************************)

\* The frame a process in loadPage has taken and not entered in its page table.
Held(t) ==
  IF pc[t] \in {"locking", "loading"} THEN {faulting[t].frame} ELSE {}

\* The frame map, the page tables, the inverted page table and the list of frames
\* agree: a frame is marked exactly while one page of one process is there or one
\* process is about to load it, and ipt leads to that process and not to one whose
\* space is deleted.  Find, Swapout, Load and ~AddrSpace each update some of them.  (With garbage in "swapped", Swapin
\* fails and the frame is lost.)  When memory is full every frame is in pageList,
\* whose Remove() never returns the NULL that would be taken for frame 0.
FramesAgree ==
  /\ clean =>
       /\ memMap = UNION {FramesOf(t) \cup Held(t) : t \in Threads}
       /\ \A t, u \in Threads :
            /\ t # u => (FramesOf(t) \cup Held(t)) \cap (FramesOf(u) \cup Held(u)) = {}
            /\ FramesOf(t) \cap Held(t) = {}
       /\ \A t \in Threads, v, w \in Pages :
            physicalPage[t][v] # -1 =>
              /\ ipt[physicalPage[t][v]] = t /\ physicalPage[t][v] \notin freed
              /\ physicalPage[t][v] = physicalPage[t][w] => v = w
  /\ swapChoice = 1 /\ memMap = Frames => Range(pageList) = Frames

\* Isolation: a valid page table entry leads to a frame that ipt gives to the
\* process and that was last filled for this page of it, even when "swapped" starts
\* with garbage, which loses frames and reads junk.  Without garbage the page is as
\* in the executable unless the process wrote to it.
Isolation ==
  \A t \in Threads : \A v \in valid[t] :
    LET f == physicalPage[t][v]
    IN  /\ f \in memMap /\ ipt[f] = t
        /\ mem[f].owner = t /\ mem[f].page = v
        /\ clean => mem[f].data = "exe" \/ (mem[f].data = "new" /\ v \in written[t])

\* Memory keeps what was written to it: a valid page holds the last write.
Coherent ==
  \A t \in Threads : \A v \in valid[t] :
    mem[physicalPage[t][v]] =
      [owner |-> t, page |-> v, data |-> IF v \in written[t] THEN "new" ELSE "exe"]

\* Without replacement memory keeps what was written to it.
DemandCoherent == clean /\ swapChoice = 0 => Coherent

\* The ASSERT of Swapout (addrspace.cc:497) never fails: the victim is in the page
\* table of the process that ipt gives it to.
VictimFound == failure # "assert"

\* ipt[physPage]->space->Swapout goes wrong, whether ipt is NULL, leads to a deleted
\* space, or leads to a process that lost the frame, only when another process was
\* preempted inside pageLock->P with its frame on the list and not yet in ipt; so
\* never with random replacement, and never without preemption.
VictimFoundUnlessPreempted ==
  clean /\ failure \notin {"none", "scheme"} =>
    swapChoice = 1 /\ TimerOn /\ \E t \in Threads \ {currentThread} : pc[t] = "loading"

\* pageLock is never contended: a process that reaches its P finds the lock free,
\* even when preempted in P and V, because Swapout comes before P and stops the
\* system on a frame that is being loaded (or has then already used a deleted space).
LockNeverWaits ==
  \A t \in Threads : pc[t] = "locking" => value[faulting[t].frame] = 1

\* A step leaves the page in its frame and changes it at most by a write of the
\* process itself.
PageKept(t, v) ==
  LET f == physicalPage[t][v]
  IN  /\ physicalPage'[t][v] = f
      /\ \/ mem'[f] = mem[f]
         \/ t = currentThread /\ mem'[f] = [mem[f] EXCEPT !.data = "new"]

\* A page keeps its frame and what it holds from the fault that loads it until Swapout
\* takes it away or its process exits: no fault, eviction, Exec or Exit of another
\* process, and no load that was preempted half way, touches it, with garbage in
\* "swapped" or not.  Only its own process changes it, by writing.
ValidPagesKept ==
  [][\A t \in Threads : \A v \in valid[t] \cap valid'[t] : PageKept(t, v)]_allVars
=============================================================================
