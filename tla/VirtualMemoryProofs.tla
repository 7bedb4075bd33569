------------------------ MODULE VirtualMemoryProofs ------------------------
(***************************************************************************)
(* Proofs about VirtualMemory, for any number of processes, pages and      *)
(* frames: the frame map, the page tables and the inverted page table      *)
(* agree, a process sees only its own pages, and a page lock never waits.  *)
(***************************************************************************)
EXTENDS VirtualMemory, ThreadKernelProofs

-----------------------------------------------------------------------------
(***************************************************************************)
(* The inductive invariant                                                 *)
(***************************************************************************)

VMTypeOK ==
  /\ swapChoice \in {0, 1, 2}
  /\ memMap \subseteq Frames
  /\ ipt \in [Frames -> Threads \cup {NULL}]
  /\ pageList \in Seq(Frames)
  /\ physicalPage \in [Threads -> [Pages -> Frames \cup {-1}]]
  /\ valid \in [Threads -> SUBSET Pages]
  /\ swapped \in [Threads -> SUBSET Pages]
  /\ written \in [Threads -> SUBSET Pages]
  /\ mem \in [Frames -> [owner : Threads \cup {NULL}, page : Pages \cup {-1},
                         data : {"exe", "new", "junk"}]]
  /\ pc \in [Threads -> {"user", "locking", "loading", "unlocking"}]
  /\ faulting \in [Threads -> [page : Pages, frame : Frames]]
  /\ clean \in BOOLEAN

\* The thread system under the processes: its own invariant until the machine
\* stops, no thread ever waiting on a semaphore, and a deferred yield only with
\* the timer on.
ThreadsOK ==
  /\ TypeOK
  /\ cpu # "halted" => KernelInv
  /\ inP = [t \in Threads |-> NULL]
  /\ queue = [s \in Sems |-> <<>>]
  /\ pending = {}
  /\ cpu # "idle"
  /\ yieldOnReturn => TimerOn

\* A process inside loadPage is on its way: it has the processor except when it was
\* preempted at the P of FIFO replacement.  A process that does not exist has no
\* page.
FaultsOK ==
  /\ \A t \in Threads :
       /\ pc[t] # "user" => status[t] \in {"RUNNING", "READY"}
                            /\ context[t] \in {"code", "yield"}
       /\ pc[t] \in {"locking", "unlocking"} =>
            t = currentThread /\ cpu = "thread" /\ swapChoice = 1
       /\ pc[t] = "loading" /\ swapChoice # 1 => t = currentThread /\ cpu = "thread"
       /\ pc[t] = "loading" /\ ~TimerOn => t = currentThread /\ cpu \in {"thread", "tick"}
       /\ status[t] = "FREE" \/ context[t] = "finished" =>
            physicalPage[t] = Unmapped /\ valid[t] = {}
  /\ failure # "none" => cpu = "halted"

\* A lock is taken exactly while a process loads its frame.
LocksOK ==
  \A f \in Frames :
    value[f] = IF swapChoice = 1 /\ \E t \in Threads : /\ pc[t] \in {"loading", "unlocking"}
                                                       /\ faulting[t].frame = f
               THEN 0 ELSE 1

\* No two page table entries name the same frame.
NoFrameShared ==
  \A t, u \in Threads, v, w \in Pages :
    physicalPage[t][v] \in Frames /\ physicalPage[t][v] = physicalPage[u][w] => t = u /\ v = w

\* A frame in a page table is marked, and ipt knows its process.
EntriesRecorded ==
  \A t \in Threads, v \in Pages :
    physicalPage[t][v] \in Frames => physicalPage[t][v] \in memMap /\ ipt[physicalPage[t][v]] = t

\* The frame a process is about to load is marked, in no page table, and no other
\* process is about to load it.
HeldApart ==
  \A t \in Threads : pc[t] \in {"locking", "loading"} =>
    /\ faulting[t].frame \in memMap
    /\ faulting[t].page \notin valid[t]
    /\ \A u \in Threads, w \in Pages : physicalPage[u][w] # faulting[t].frame
    /\ \A u \in Threads : pc[u] \in {"locking", "loading"}
                          /\ faulting[u].frame = faulting[t].frame => u = t

\* A frame that was just loaded is in the page table, and so is every valid page.
LoadedIsMapped ==
  /\ \A t \in Threads : pc[t] = "unlocking" =>
       physicalPage[t][faulting[t].page] = faulting[t].frame
  /\ \A t \in Threads : \A v \in valid[t] : physicalPage[t][v] \in Frames

\* The page tables, the frame map and ipt, garbage in "swapped" or not.
TablesOK == NoFrameShared /\ EntriesRecorded /\ HeldApart /\ LoadedIsMapped

\* Without garbage no frame is lost.
CleanOK ==
  clean =>
    /\ \A t \in Threads : swapped[t] = {}
    /\ \A t \in Threads, v \in Pages : physicalPage[t][v] \in Frames => v \in valid[t]
    /\ \A f \in memMap : \E t \in Threads :
         \/ \E v \in Pages : physicalPage[t][v] = f
         \/ pc[t] \in {"locking", "loading"} /\ faulting[t].frame = f

\* Every marked frame is in the FIFO list.
ListOK == swapChoice = 1 => memMap \subseteq Range(pageList)

\* A valid page leads to the frame that was last filled for it.
OwnFrames ==
  \A t \in Threads : \A v \in valid[t] :
    mem[physicalPage[t][v]].owner = t /\ mem[physicalPage[t][v]].page = v

\* ipt leads from a frame in a page table to a space that was not deleted.
FreedOK ==
  \A t \in Threads, v \in Pages :
    physicalPage[t][v] \in Frames => physicalPage[t][v] \notin freed

VMInv ==
  /\ VMTypeOK /\ ThreadsOK /\ FaultsOK /\ LocksOK /\ TablesOK /\ CleanOK /\ ListOK
  /\ OwnFrames /\ VictimFoundUnlessPreempted

\* What the pages hold, when no load overruns its frame.
DataOK ==
  /\ clean => \A t \in Threads : \A v \in valid[t] :
       LET d == mem[physicalPage[t][v]].data
       IN  d = "exe" \/ (d = "new" /\ v \in written[t])
  /\ clean /\ swapChoice = 0 => Coherent /\ \A t \in Threads : written[t] \subseteq valid[t]

-----------------------------------------------------------------------------
(***************************************************************************)
(* Frames, and the start                                                   *)
(***************************************************************************)

\* BitMap::Find and the search of Swapout return one of the things they look for.
LEMMA MinInSet ==
  ASSUME NEW S, S \subseteq Nat, S # {}
  PROVE  Min(S) \in S
  <1>1. \E x \in S : \A y \in S : x <= y
    BY LeastNatural, Zenon
  <1> QED
    BY <1>1, Zenon DEF Min

LEMMA FramesArePages ==
  /\ Frames \subseteq Nat /\ Pages \subseteq Nat
  /\ 0 \in Frames /\ 0 \in Pages /\ -1 \notin Frames
  BY VMAssumption DEF Frames, Pages

LEMMA VMInitOK ==
  ASSUME VMInit
  PROVE  VMInv
  <1> USE KernelAssumption, FramesArePages
  <1>1. VMTypeOK
    <2>1. swapChoice \in {0, 1, 2}
      BY VMAssumption, Zenon DEF VMInit
    <2>2. pageList \in Seq(Frames)
      BY DEF VMInit
    <2>3. /\ memMap \subseteq Frames /\ ipt \in [Frames -> Threads \cup {NULL}]
      BY Zenon DEF VMInit
    <2>4. clean \in BOOLEAN
      BY Zenon DEF VMInit
    <2>5. /\ physicalPage \in [Threads -> [Pages -> Frames \cup {-1}]]
          /\ valid \in [Threads -> SUBSET Pages] /\ written \in [Threads -> SUBSET Pages]
      BY Zenon DEF VMInit, Unmapped
    <2>6. swapped \in [Threads -> SUBSET Pages]
      BY VMAssumption DEF VMInit
    <2>7. /\ mem \in [Frames -> [owner : Threads \cup {NULL}, page : Pages \cup {-1},
                                 data : {"exe", "new", "junk"}]]
          /\ pc \in [Threads -> {"user", "locking", "loading", "unlocking"}]
          /\ faulting \in [Threads -> [page : Pages, frame : Frames]]
      BY Zenon DEF VMInit, Junk, NoFault
    <2> QED
      BY <2>1, <2>2, <2>3, <2>4, <2>5, <2>6, <2>7, Zenon DEF VMTypeOK
  <1>2. ThreadsOK
    <2>1. KernelInv
      BY InitInv, Zenon DEF VMInit
    <2> QED
      BY <2>1, Zenon DEF VMInit, Init, ThreadsOK, KernelInv
  <1>3. FaultsOK
    BY Zenon DEF VMInit, Init, FaultsOK
  <1>4. LocksOK
    BY VMAssumption, Zenon DEF VMInit, Init, LocksOK
  <1>5. TablesOK
    BY VMAssumption, Zenon DEF VMInit, TablesOK, NoFrameShared, EntriesRecorded, HeldApart, LoadedIsMapped, Unmapped
  <1>6. CleanOK
    BY Zenon DEF VMInit, CleanOK, Unmapped
  <1>7. ListOK /\ OwnFrames /\ VictimFoundUnlessPreempted
    BY Zenon DEF VMInit, ListOK, OwnFrames, VictimFoundUnlessPreempted
  <1> QED
    BY <1>1, <1>2, <1>3, <1>4, <1>5, <1>6, <1>7, Zenon DEF VMInv

-----------------------------------------------------------------------------
(***************************************************************************)
(* The threads under the processes                                         *)
(***************************************************************************)

\* A thread that exists and is not asleep stays so, and nobody dies.
NobodyDies ==
  \A t \in Threads :
    /\ status[t] \in {"RUNNING", "READY"} /\ context[t] \in {"code", "yield"} =>
         status'[t] \in {"RUNNING", "READY"} /\ context'[t] \in {"code", "yield"}
    /\ status'[t] = "FREE" \/ context'[t] = "finished" =>
         status[t] = "FREE" \/ context[t] = "finished"

\* Run deletes only the carcass.
LEMMA RunKills ==
  ASSUME NEW next, NEW rl, NEW st, NEW ctx,
         BeforeSwitch(next, rl, st, ctx), Run(next, rl, st, ctx),
         \A t \in Threads :
           /\ status[t] \in {"RUNNING", "READY"} /\ context[t] \in {"code", "yield"} =>
                st[t] \in {"RUNNING", "READY"} /\ ctx[t] \in {"code", "yield"}
           /\ st[t] = "FREE" \/ ctx[t] = "finished" =>
                status[t] = "FREE" \/ context[t] = "finished"
  PROVE  NobodyDies
  <1> DEFINE corpse == IF ctx[next] = "root" THEN NULL ELSE threadToBeDestroyed
  <1>1. /\ status' = [t \in Threads |-> IF t = corpse THEN "FREE"
                                        ELSE IF t = next THEN "RUNNING" ELSE st[t]]
        /\ context' = [t \in Threads |->
                         IF t = corpse THEN "none"
                         ELSE IF t = next /\ ctx[t] \in {"root", "yield"} THEN "code"
                         ELSE ctx[t]]
    BY Zenon DEF Run
  <1>2. corpse \in Threads => st[corpse] = "BLOCKED" /\ ctx[corpse] = "finished"
    BY KernelAssumption, Zenon DEF BeforeSwitch
  <1> HIDE DEF corpse
  <1> QED
    BY <1>1, <1>2 DEF NobodyDies, BeforeSwitch

\* The body of Yield.
LEMMA YieldKills ==
  ASSUME KernelInv, cpu \in {"thread", "tick"}, YieldBody
  PROVE  NobodyDies /\ value' = value /\ inP' = inP /\ queue' = queue /\ pending' = pending
  <1>1. CASE readyList = <<>>
    BY <1>1, Zenon DEF YieldBody, Run, threadVars, semVars, NobodyDies
  <1>2. CASE readyList # <<>>
    <2> DEFINE next == Head(readyList)
               rl == Append(Tail(readyList), currentThread)
               st == [status EXCEPT ![currentThread] = "READY"]
               ctx == [context EXCEPT ![currentThread] = "yield"]
    <2>1. BeforeSwitch(next, rl, st, ctx)
      BY <1>2, YieldCallsRun, Zenon
    <2>2. Run(next, rl, st, ctx)
      BY <1>2, Zenon DEF YieldBody, Enqueued
    <2>3. \A t \in Threads :
            /\ status[t] \in {"RUNNING", "READY"} /\ context[t] \in {"code", "yield"} =>
                 st[t] \in {"RUNNING", "READY"} /\ ctx[t] \in {"code", "yield"}
            /\ st[t] = "FREE" \/ ctx[t] = "finished" =>
                 status[t] = "FREE" \/ context[t] = "finished"
      BY Zenon DEF KernelInv, TypeOK
    <2> HIDE DEF next, rl, st, ctx
    <2>4. NobodyDies
      BY <2>1, <2>2, <2>3, RunKills, Zenon
    <2> QED
      BY <2>2, <2>4, Zenon DEF Run, semVars
  <1> QED
    BY <1>1, <1>2, Zenon

\* The kernel's own steps, and SC_Yield, as the processes see them.
LEMMA KernelThreads ==
  ASSUME ThreadsOK,
         Yield \/ TimerInterrupt \/ SleepDispatch \/ TickReturns \/ Halt \/ Halted
  PROVE  /\ ThreadsOK' /\ NobodyDies /\ value' = value
         /\ cpu = "thread" => Yield
         /\ cpu = "tick" /\ ~TimerOn => cpu' = "thread" /\ currentThread' = currentThread
         /\ cpu = "halted" => Halted
  <1> USE KernelAssumption
  <1>1. CASE cpu = "halted"
    <2>1. Halted
      BY <1>1, Zenon DEF Yield, TimerInterrupt, CanFire, IdleFires, SleepDispatch, TickReturns,
                  Halt, Halted
    <2> QED
      BY <1>1, <2>1, Zenon DEF Halted, vars, threadVars, semVars, ThreadsOK, TypeOK, NobodyDies
  <1>2. CASE cpu # "halted"
    <2>1. KernelInv /\ KernelInv'
      <3>1. KernelInv
        BY <1>2, Zenon DEF ThreadsOK
      <3>2. Next
        BY Zenon DEF Next
      <3> QED
        BY <3>1, <3>2, NextKeepsInv, Zenon
    <2>2. CASE Yield
      <3>1. /\ cpu = "thread" /\ YieldBody /\ yieldOnReturn' = yieldOnReturn
            /\ cpu' \in {"tick", "resume"}
        BY <2>2, Zenon DEF Yield, YieldBody, Run
      <3>2. NobodyDies /\ value' = value /\ inP' = inP /\ queue' = queue /\ pending' = pending
        BY <2>1, <3>1, YieldKills, Zenon
      <3> QED
        BY <2>1, <2>2, <3>1, <3>2, Zenon DEF ThreadsOK, KernelInv
    <2>3. CASE TimerInterrupt
      BY <2>1, <2>3, Zenon DEF TimerInterrupt, CanFire, IdleFires, threadVars, semVars, ThreadsOK,
                        KernelInv, NobodyDies
    <2>4. CASE SleepDispatch
      <3>1. BeforeSwitch(Head(readyList), Tail(readyList), status, context)
        BY <2>1, <2>4, SleepCallsRun, Zenon
      <3>2. /\ cpu = "sleep" /\ yieldOnReturn' = yieldOnReturn
            /\ Run(Head(readyList), Tail(readyList), status, context)
        BY <2>4, Zenon DEF SleepDispatch
      <3>3. NobodyDies
        BY <3>1, <3>2, RunKills, Zenon
      <3>4. /\ value' = value /\ inP' = inP /\ queue' = queue /\ pending' = pending
            /\ cpu' \in {"tick", "resume"}
        BY <3>2, Zenon DEF Run, semVars
      <3> QED
        BY <2>1, <3>2, <3>3, <3>4, Zenon DEF ThreadsOK, KernelInv
    <2>5. CASE TickReturns
      <3>1. cpu = "tick" /\ yieldOnReturn' = FALSE
        BY <2>5, Zenon DEF TickReturns
      <3>2. CASE yieldOnReturn
        <4>1. YieldBody /\ cpu' \in {"tick", "resume"}
          BY <2>5, <3>2, Zenon DEF TickReturns, YieldBody, Run
        <4>2. NobodyDies /\ value' = value /\ inP' = inP /\ queue' = queue /\ pending' = pending
          BY <2>1, <3>1, <4>1, YieldKills, Zenon
        <4> QED
          BY <2>1, <3>1, <3>2, <4>1, <4>2, Zenon DEF ThreadsOK, KernelInv
      <3>3. CASE ~yieldOnReturn
        <4>1. /\ cpu' = "thread" /\ currentThread' = currentThread
              /\ status' = status /\ context' = context /\ inP' = inP
              /\ value' = value /\ queue' = queue /\ pending' = pending
          BY <2>5, <3>3, Zenon DEF TickReturns, threadVars, semVars
        <4> QED
          BY <2>1, <3>1, <4>1, Zenon DEF ThreadsOK, KernelInv, NobodyDies
      <3> QED
        BY <3>2, <3>3, Zenon
    <2>6. CASE Halt
      BY <2>1, <2>6, Zenon DEF Halt, threadVars, semVars, ThreadsOK, KernelInv, NobodyDies
    <2> QED
      BY <1>2, <2>2, <2>3, <2>4, <2>5, <2>6, Zenon DEF Halted
  <1> QED
    BY <1>1, <1>2, Zenon

\* The thread that executes.
LEMMA CurrentRuns ==
  ASSUME ThreadsOK, cpu = "thread"
  PROVE  /\ KernelInv
         /\ currentThread \in Threads /\ status[currentThread] = "RUNNING"
         /\ context[currentThread] = "code"
  BY Zenon DEF ThreadsOK, KernelInv, TypeOK, OnePlace, Asleep, ContextOK

\* A step inside the code of the thread that executes.
LEMMA ProcessorMoves ==
  ASSUME ThreadsOK, cpu = "thread", cpu' \in {"thread", "tick", "halted"},
         UNCHANGED <<currentThread, threadVars, readyList, semVars, threadToBeDestroyed,
                     yieldOnReturn, pending>>
  PROVE  ThreadsOK'
  <1>1. /\ currentThread' = currentThread /\ status' = status /\ context' = context
        /\ inP' = inP /\ readyList' = readyList /\ value' = value /\ queue' = queue
        /\ threadToBeDestroyed' = threadToBeDestroyed
        /\ yieldOnReturn' = yieldOnReturn /\ pending' = pending
    BY Zenon DEF threadVars, semVars
  <1>2. TypeOK'
    BY <1>1, Zenon DEF ThreadsOK, TypeOK, CpuStates
  <1>3. cpu' # "halted" => KernelInv'
    BY <1>1, <1>2, CurrentRuns, SMTT(30) DEF KernelInv, OnePlace, CarcassIsDead, ContextOK, Asleep
  <1> QED
    BY <1>1, <1>2, <1>3 DEF ThreadsOK

\* new Thread and Fork, in one step of SC_Exec.
LEMMA ExecThreads ==
  ASSUME ThreadsOK, NEW u \in Threads, Exec(u)
  PROVE  /\ ThreadsOK' /\ cpu = "thread" /\ cpu' = "tick"
         /\ currentThread' = currentThread /\ value' = value
         /\ status[u] = "FREE" /\ u # currentThread
         /\ \A t \in Threads \ {u} : status'[t] = status[t] /\ context'[t] = context[t]
         /\ status'[u] = "READY" /\ context'[u] = "root"
  <1> USE KernelAssumption
  <1>1. /\ cpu = "thread" /\ status[u] = "FREE"
        /\ status' = [status EXCEPT ![u] = "READY"]
        /\ context' = [context EXCEPT ![u] = "root"]
        /\ readyList' = Append(readyList, u)
        /\ cpu' = "tick"
        /\ currentThread' = currentThread /\ inP' = inP /\ value' = value /\ queue' = queue
        /\ threadToBeDestroyed' = threadToBeDestroyed
        /\ yieldOnReturn' = yieldOnReturn /\ pending' = pending
    BY Zenon DEF Exec, Enqueued, InUser, semVars
  <1>2. /\ KernelInv /\ currentThread \in Threads /\ status[currentThread] = "RUNNING"
        /\ context[currentThread] = "code" /\ u # currentThread
    BY <1>1, CurrentRuns, Zenon
  <1>3. u \notin Range(readyList)
    BY <1>1, <1>2, Zenon DEF KernelInv, OnePlace
  <1>4. /\ readyList' \in Seq(Threads)
        /\ Range(readyList') = Range(readyList) \cup {u}
        /\ IsInjective(readyList')
    BY <1>1, <1>2, <1>3, RangeAppend, InjectiveAppend, SMTT(30) DEF KernelInv, TypeOK, OnePlace
  <1>5. TypeOK'
    BY <1>1, <1>4, Zenon DEF ThreadsOK, TypeOK, Statuses, Contexts, CpuStates
  <1>6. OnePlace'
    BY <1>1, <1>2, <1>4, SMTT(30) DEF KernelInv, TypeOK, OnePlace, Asleep
  <1>7. CarcassIsDead' /\ ContextOK'
    BY <1>1, <1>2, <1>4, Zenon DEF KernelInv, TypeOK, CarcassIsDead, ContextOK, Asleep
  <1>8. ThreadsOK'
    BY <1>1, <1>5, <1>6, <1>7, Zenon DEF ThreadsOK, KernelInv
  <1> QED
    BY <1>1, <1>2, <1>8, Zenon DEF ThreadsOK, TypeOK

\* Finish.
LEMMA FinishThreads ==
  ASSUME ThreadsOK, Finish
  PROVE  /\ ThreadsOK' /\ cpu = "thread" /\ cpu' = "sleep"
         /\ currentThread' = currentThread /\ value' = value
         /\ \A t \in Threads \ {currentThread} :
              status'[t] = status[t] /\ context'[t] = context[t]
         /\ status'[currentThread] = "BLOCKED" /\ context'[currentThread] = "finished"
  <1>1. cpu = "thread" /\ KernelInv /\ currentThread \in Threads
    BY CurrentRuns, Zenon DEF Finish
  <1>2. KernelInv'
    BY <1>1, FinishKeepsInv, Zenon
  <1> QED
    BY <1>1, <1>2, Zenon DEF Finish, semVars, ThreadsOK, KernelInv, TypeOK

\* The P of a page lock that is free.
LEMMA LockThreads ==
  ASSUME ThreadsOK, NEW f \in Sems, PDone(f)
  PROVE  /\ ThreadsOK' /\ cpu = "thread" /\ cpu' = "tick"
         /\ currentThread' = currentThread /\ status' = status /\ context' = context
         /\ value' = [value EXCEPT ![f] = @ - 1]
  <1> USE KernelAssumption
  <1>1. cpu = "thread"
    BY Zenon DEF PDone, AtP, ThreadsOK, TypeOK
  <1>2. /\ KernelInv /\ currentThread \in Threads /\ context[currentThread] = "code"
    BY <1>1, CurrentRuns, Zenon
  <1>3. KernelInv'
    BY <1>2, PKeepsInv, Zenon
  <1>4. /\ inP' = inP /\ context' = context
    BY <1>2, Zenon DEF PDone, ThreadsOK, TypeOK
  <1> QED
    BY <1>1, <1>3, <1>4, Zenon DEF PDone, ThreadsOK, KernelInv

\* The V of a page lock.
LEMMA UnlockThreads ==
  ASSUME ThreadsOK, NEW f \in Sems, V(f)
  PROVE  /\ ThreadsOK' /\ cpu = "thread" /\ cpu' = "tick"
         /\ currentThread' = currentThread /\ status' = status /\ context' = context
         /\ value' = [value EXCEPT ![f] = @ + 1]
  <1>1. /\ cpu = "thread" /\ cpu' = "tick" /\ Post(f) /\ queue[f] = <<>>
        /\ yieldOnReturn' = yieldOnReturn /\ pending' = pending
    BY Zenon DEF V, ThreadsOK
  <1>2. /\ currentThread' = currentThread /\ status' = status /\ context' = context
        /\ inP' = inP /\ queue' = queue /\ value' = [value EXCEPT ![f] = @ + 1]
    BY <1>1, Zenon DEF Post
  <1>3. KernelInv'
    BY <1>1, CurrentRuns, InterruptKeepsInv, Zenon
  <1> QED
    BY <1>1, <1>2, <1>3, Zenon DEF ThreadsOK, KernelInv

-----------------------------------------------------------------------------
(***************************************************************************)
(* The steps that load no page                                             *)
(***************************************************************************)

\* The tables agree after a step that leaves them alone.
LEMMA TablesAgreeStill ==
  ASSUME TablesOK, physicalPage' = physicalPage, valid' = valid, memMap' = memMap,
         ipt' = ipt, pc' = pc, faulting' = faulting
  PROVE  TablesOK'
  BY SMTT(30) DEF TablesOK, NoFrameShared, EntriesRecorded, HeldApart, LoadedIsMapped

\* So do the page locks.
LEMMA LocksStay ==
  ASSUME LocksOK, value' = value, swapChoice' = swapChoice, pc' = pc, faulting' = faulting
  PROVE  LocksOK'
  BY Zenon DEF LocksOK

\* And the pages, with what they hold.
LEMMA ContentsStay ==
  ASSUME CleanOK, ListOK, OwnFrames, swapChoice' = swapChoice, memMap' = memMap,
         pageList' = pageList, physicalPage' = physicalPage, valid' = valid,
         swapped' = swapped, mem' = mem, pc' = pc, faulting' = faulting,
         written' = written, clean' = clean
  PROVE  CleanOK' /\ ListOK' /\ OwnFrames' /\ (DataOK => DataOK')
  <1>1. CleanOK'
    BY SMTT(30) DEF CleanOK
  <1>2. ListOK' /\ OwnFrames'
    BY Zenon DEF ListOK, OwnFrames
  <1>3. DataOK => DataOK'
    BY SMTT(30) DEF DataOK, Coherent
  <1> QED
    BY <1>1, <1>2, <1>3, Zenon

\* A step that changes no table.
LEMMA TablesStay ==
  ASSUME VMInv, UNCHANGED vmVars, value' = value
  PROVE  /\ VMTypeOK' /\ LocksOK' /\ TablesOK' /\ CleanOK' /\ ListOK' /\ OwnFrames'
         /\ DataOK => DataOK'
  <1>1. /\ swapChoice' = swapChoice /\ memMap' = memMap /\ ipt' = ipt
        /\ pageList' = pageList /\ physicalPage' = physicalPage /\ valid' = valid
        /\ swapped' = swapped /\ mem' = mem /\ pc' = pc /\ faulting' = faulting
        /\ failure' = failure /\ written' = written /\ clean' = clean
    BY Zenon DEF vmVars, frameVars, pageVars
  <1>2. VMTypeOK' /\ LocksOK'
    BY <1>1, Zenon DEF VMInv, VMTypeOK, LocksOK
  <1>3. TablesOK'
    BY <1>1, TablesAgreeStill, Zenon DEF VMInv
  <1>4. CleanOK' /\ ListOK' /\ OwnFrames' /\ (DataOK => DataOK')
    BY <1>1, ContentsStay, Zenon DEF VMInv
  <1> QED
    BY <1>2, <1>3, <1>4, Zenon

\* SC_Yield and the kernel.  A process inside loadPage is switched out only between
\* the P of FIFO replacement and the load, and only by the timer.
LEMMA KernelKeeps ==
  ASSUME VMInv, Kernel
  PROVE  VMInv' /\ (DataOK => DataOK')
  <1>1. /\ ThreadsOK' /\ NobodyDies /\ value' = value
        /\ cpu = "thread" => Yield
        /\ cpu = "tick" /\ ~TimerOn => cpu' = "thread" /\ currentThread' = currentThread
        /\ cpu = "halted" => Halted
    BY KernelThreads, Zenon DEF Kernel, VMInv
  <1>2. UNCHANGED vmVars
    BY Zenon DEF Kernel
  <1>3. /\ swapChoice' = swapChoice /\ physicalPage' = physicalPage /\ valid' = valid
        /\ pc' = pc /\ failure' = failure /\ clean' = clean
    BY <1>2, Zenon DEF vmVars, frameVars, pageVars
  <1>4. cpu = "thread" => pc[currentThread] = "user"
    BY Zenon DEF Kernel, InUser, TimerInterrupt, CanFire, IdleFires, SleepDispatch, TickReturns,
           Halt, Halted
  <1>5. cpu = "halted" => cpu' = cpu /\ currentThread' = currentThread
    BY <1>1, Zenon DEF Halted, vars
  <1>6. FaultsOK'
    <2>1. ASSUME NEW t \in Threads
          PROVE  /\ pc'[t] # "user" => status'[t] \in {"RUNNING", "READY"}
                                       /\ context'[t] \in {"code", "yield"}
                 /\ status'[t] = "FREE" \/ context'[t] = "finished" =>
                      physicalPage'[t] = Unmapped /\ valid'[t] = {}
      BY <1>1, <1>3, Zenon DEF VMInv, FaultsOK, NobodyDies
    <2>2. ASSUME NEW t \in Threads
          PROVE  /\ pc[t] \notin {"locking", "unlocking"}
                 /\ ~(pc[t] = "loading" /\ swapChoice # 1)
      BY <1>4, Zenon DEF VMInv, FaultsOK
    <2>3. ASSUME NEW t \in Threads, pc[t] = "loading", ~TimerOn
          PROVE  t = currentThread' /\ cpu' \in {"thread", "tick"}
      BY <1>1, <1>4, <2>3, Zenon DEF VMInv, FaultsOK
    <2>4. failure' # "none" => cpu' = "halted"
      BY <1>3, <1>5, Zenon DEF VMInv, FaultsOK
    <2> QED
      BY <1>3, <2>1, <2>2, <2>3, <2>4, Zenon DEF FaultsOK
  <1>7. VictimFoundUnlessPreempted'
    BY <1>3, <1>5, Zenon DEF VMInv, FaultsOK, VictimFoundUnlessPreempted
  <1> QED
    BY <1>1, <1>2, <1>6, <1>7, TablesStay, Zenon DEF VMInv

\* A process executes an instruction that writes nothing.
LEMMA UserStepKeeps ==
  ASSUME VMInv, UserStep
  PROVE  VMInv' /\ (DataOK => DataOK')
  <1>1. /\ cpu = "thread" /\ pc[currentThread] = "user" /\ cpu' = "tick"
        /\ UNCHANGED <<currentThread, threadVars, readyList, semVars, threadToBeDestroyed,
                       yieldOnReturn, pending>>
        /\ UNCHANGED vmVars /\ value' = value
    BY Zenon DEF UserStep, InUser, semVars
  <1>2. ThreadsOK'
    BY <1>1, ProcessorMoves, Zenon DEF VMInv
  <1>3. FaultsOK' /\ VictimFoundUnlessPreempted'
    BY <1>1 DEF VMInv, FaultsOK, VictimFoundUnlessPreempted, threadVars, vmVars, frameVars,
                pageVars
  <1> QED
    BY <1>1, <1>2, <1>3, TablesStay, Zenon DEF VMInv

\* Swapout goes wrong: the machine stops, and a frame that is marked
\* but in no page table is one that another process is about to load.
LEMMA AbortKeeps ==
  ASSUME VMInv, FreedOK, NEW x \in Pages, Abort(x)
  PROVE  VMInv' /\ (DataOK => DataOK')
  <1> USE KernelAssumption, FramesArePages
  <1>1. /\ cpu = "thread" /\ pc[currentThread] = "user" /\ memMap = Frames
        /\ failure' = "scheme" \/ \E f \in Victims : SwapoutFailure(f) # "none"
        /\ cpu' = "halted" /\ value' = value
        /\ UNCHANGED <<currentThread, threadVars, readyList, semVars, threadToBeDestroyed,
                       yieldOnReturn, pending>>
    BY Zenon DEF Abort, InUser, semVars
  <1>2. /\ swapChoice' = swapChoice /\ memMap' = memMap /\ ipt' = ipt
        /\ pageList' = pageList /\ physicalPage' = physicalPage /\ valid' = valid
        /\ swapped' = swapped /\ mem' = mem /\ pc' = pc /\ faulting' = faulting
        /\ written' = written /\ clean' = clean
        /\ status' = status /\ context' = context /\ currentThread' = currentThread
    BY Zenon DEF Abort, frameVars, pageVars, threadVars
  <1>3. ThreadsOK'
    BY <1>1, ProcessorMoves, Zenon DEF VMInv
  <1>4. FaultsOK'
    BY <1>1, <1>2, Zenon DEF VMInv, FaultsOK
  <1>5. VMTypeOK' /\ LocksOK'
    BY <1>1, <1>2, Zenon DEF VMInv, VMTypeOK, LocksOK
  <1>6. TablesOK'
    BY <1>2, TablesAgreeStill, Zenon DEF VMInv
  <1>7. CleanOK' /\ ListOK' /\ OwnFrames' /\ (DataOK => DataOK')
    BY <1>2, ContentsStay, Zenon DEF VMInv
  <1>8. VictimFoundUnlessPreempted'
    <2> SUFFICES ASSUME clean, failure' # "scheme"
                 PROVE  swapChoice = 1 /\ TimerOn
                        /\ \E t \in Threads \ {currentThread} : pc[t] = "loading"
      BY <1>2, Zenon DEF VictimFoundUnlessPreempted
    <2>1. PICK f \in Victims : SwapoutFailure(f) # "none"
      BY <1>1, Zenon
    <2>2. f \in Frames
      <3>1. CASE pageList # <<>>
        BY <3>1 DEF Victims, VMInv, VMTypeOK
      <3>2. CASE pageList = <<>>
        BY <3>2, Zenon DEF Victims, VMInv, VMTypeOK
      <3> QED
        BY <3>1, <3>2, Zenon
    <2>3. PICK t \in Threads : \/ \E v \in Pages : physicalPage[t][v] = f
                               \/ pc[t] \in {"locking", "loading"} /\ faulting[t].frame = f
      BY <1>1, <2>2, Zenon DEF VMInv, CleanOK
    <2>4. ~\E v \in Pages : physicalPage[t][v] = f
      <3> SUFFICES ASSUME NEW v \in Pages, physicalPage[t][v] = f PROVE FALSE
        OBVIOUS
      <3>1. ipt[f] = t
        BY <2>2, Zenon DEF VMInv, TablesOK, EntriesRecorded
      <3>2. ipt[f] # NULL
        BY <3>1, VMAssumption, KernelAssumption, Zenon
      <3>3. v \in PagesAt(f)
        BY <3>1, Zenon DEF PagesAt
      <3>4. f \notin freed
        BY <2>2, Zenon DEF FreedOK
      <3> QED
        BY <2>1, <3>2, <3>3, <3>4, Zenon DEF SwapoutFailure
    <2> QED
      BY <1>1, <2>3, <2>4, Zenon DEF VMInv, FaultsOK
  <1> QED
    BY <1>3, <1>4, <1>5, <1>6, <1>7, <1>8, Zenon DEF VMInv

\* SC_Exec: the Thread that is reused had no page left.
LEMMA ExecKeeps ==
  ASSUME VMInv, NEW u \in Threads, Exec(u)
  PROVE  VMInv' /\ (DataOK => DataOK')
  <1>1. /\ ThreadsOK' /\ cpu = "thread" /\ cpu' = "tick"
        /\ currentThread' = currentThread /\ value' = value
        /\ status[u] = "FREE" /\ u # currentThread
        /\ \A t \in Threads \ {u} : status'[t] = status[t] /\ context'[t] = context[t]
        /\ status'[u] = "READY" /\ context'[u] = "root"
    BY ExecThreads, Zenon DEF VMInv
  <1>2. physicalPage[u] = Unmapped /\ valid[u] = {} /\ pc[u] = "user"
    BY <1>1, Zenon DEF VMInv, FaultsOK
  <1>3. physicalPage' = physicalPage /\ valid' = valid
    BY <1>2, Zenon DEF Exec, VMInv, VMTypeOK
  <1>4. /\ swapChoice' = swapChoice /\ memMap' = memMap /\ ipt' = ipt
        /\ pageList' = pageList /\ mem' = mem /\ pc' = pc /\ faulting' = faulting
        /\ failure' = failure
        /\ written' = [written EXCEPT ![u] = {}]
    BY Zenon DEF Exec, frameVars
  <1>5. PICK s \in InitialSwapped : /\ swapped' = [swapped EXCEPT ![u] = s]
                                    /\ clean' = (clean /\ s = {})
    BY Zenon DEF Exec
  <1>6. s \subseteq Pages
    BY VMAssumption, Zenon
  <1>7. clean' \in BOOLEAN /\ (clean' => clean /\ s = {})
    BY <1>5, Zenon
  <1>8. VMTypeOK' /\ LocksOK'
    BY <1>1, <1>3, <1>4, <1>5, <1>6, <1>7, SMTT(30) DEF VMInv, VMTypeOK, LocksOK
  <1>9. FaultsOK'
    <2>1. ASSUME NEW t \in Threads
          PROVE  /\ pc'[t] # "user" => status'[t] \in {"RUNNING", "READY"}
                                       /\ context'[t] \in {"code", "yield"}
                 /\ pc'[t] \in {"locking", "unlocking"} =>
                      t = currentThread' /\ cpu' = "thread" /\ swapChoice' = 1
                 /\ pc'[t] = "loading" /\ swapChoice' # 1 => t = currentThread' /\ cpu' = "thread"
                 /\ pc'[t] = "loading" /\ ~TimerOn =>
                      t = currentThread' /\ cpu' \in {"thread", "tick"}
                 /\ status'[t] = "FREE" \/ context'[t] = "finished" =>
                      physicalPage'[t] = Unmapped /\ valid'[t] = {}
      <3>1. CASE t = u
        BY <1>1, <1>2, <1>4, <3>1, Zenon
      <3>2. CASE t # u
        <4>1. status'[t] = status[t] /\ context'[t] = context[t]
          BY <1>1, <3>2, Zenon
        <4>2. pc[currentThread] = "user"
          BY Zenon DEF Exec, InUser
        <4> QED
          BY <1>1, <1>3, <1>4, <4>1, <4>2, Zenon DEF VMInv, FaultsOK
      <3> QED
        BY <3>1, <3>2, Zenon
    <2>2. failure' = "none"
      BY <1>1, <1>4, Zenon DEF VMInv, FaultsOK
    <2> QED
      BY <2>1, <2>2, Zenon DEF FaultsOK
  <1>10. TablesOK'
    BY <1>3, <1>4, TablesAgreeStill, Zenon DEF VMInv
  <1>11. CleanOK'
    BY <1>3, <1>4, <1>5, <1>7, SMTT(30) DEF VMInv, VMTypeOK, CleanOK
  <1>12. ListOK' /\ OwnFrames' /\ VictimFoundUnlessPreempted'
    BY <1>1, <1>3, <1>4, <1>7, Zenon DEF VMInv, FaultsOK, ListOK, OwnFrames, VictimFoundUnlessPreempted
  <1>13. DataOK => DataOK'
    BY <1>2, <1>3, <1>4, <1>7, SMTT(30) DEF VMInv, VMTypeOK, DataOK, Coherent
  <1> QED
    BY <1>1, <1>8, <1>9, <1>10, <1>11, <1>12, <1>13, Zenon DEF VMInv

\* SC_Exit: ~AddrSpace gives back exactly the frames of the process.
LEMMA ExitKeeps ==
  ASSUME VMInv, Exit
  PROVE  VMInv' /\ (DataOK => DataOK')
  <1> DEFINE me == currentThread
  <1>1. /\ ThreadsOK' /\ cpu = "thread" /\ cpu' = "sleep"
        /\ currentThread' = me /\ value' = value
        /\ \A t \in Threads \ {me} : status'[t] = status[t] /\ context'[t] = context[t]
        /\ status'[me] = "BLOCKED" /\ context'[me] = "finished"
    BY FinishThreads, Zenon DEF VMInv, Exit
  <1>2. me \in Threads /\ pc[me] = "user"
    BY <1>1, Zenon DEF Exit, InUser, VMInv, ThreadsOK, TypeOK
  <1>3. /\ memMap' = memMap \ FramesOf(me)
        /\ physicalPage' = [physicalPage EXCEPT ![me] = Unmapped]
        /\ valid' = [valid EXCEPT ![me] = {}]
        /\ swapped' = [swapped EXCEPT ![me] = {}]
        /\ written' = [written EXCEPT ![me] = {}]
        /\ swapChoice' = swapChoice /\ ipt' = ipt /\ pageList' = pageList /\ mem' = mem
        /\ pc' = pc /\ faulting' = faulting /\ failure' = failure /\ clean' = clean
    BY Zenon DEF Exit
  <1>4. VMTypeOK' /\ LocksOK'
    <2>1. /\ valid' \in [Threads -> SUBSET Pages] /\ swapped' \in [Threads -> SUBSET Pages]
          /\ written' \in [Threads -> SUBSET Pages]
      BY <1>3, Zenon DEF VMInv, VMTypeOK
    <2>2. physicalPage' \in [Threads -> [Pages -> Frames \cup {-1}]]
      <3>1. Unmapped \in [Pages -> Frames \cup {-1}]
        BY Zenon DEF Unmapped
      <3> QED
        BY <1>3, <3>1, ZenonT(30) DEF VMInv, VMTypeOK
    <2>3. memMap' \subseteq Frames
      BY <1>3, Zenon DEF VMInv, VMTypeOK
    <2>4. LocksOK'
      BY <1>1, <1>3, LocksStay, Zenon DEF VMInv
    <2> QED
      BY <1>3, <2>1, <2>2, <2>3, <2>4, Zenon DEF VMInv, VMTypeOK
  <1>5. /\ \A t \in Threads, v \in Pages :
             physicalPage'[t][v] = IF t = me THEN -1 ELSE physicalPage[t][v]
        /\ \A t \in Threads : t # me => valid'[t] = valid[t]
        /\ valid'[me] = {} /\ physicalPage'[me] = Unmapped
    BY <1>2, <1>3, Zenon DEF VMInv, VMTypeOK, Unmapped
  <1>6. \A f \in Frames : f \in FramesOf(me) <=> \E v \in Pages : physicalPage[me][v] = f
    BY FramesArePages, Zenon DEF FramesOf
  <1>7. FaultsOK'
    <2>1. \A t \in Threads : t # me => physicalPage'[t] = physicalPage[t]
      BY <1>3, Zenon DEF VMInv, VMTypeOK
    <2>2. \A t \in Threads : pc[t] \notin {"locking", "unlocking"}
                             /\ ~(pc[t] = "loading" /\ (swapChoice # 1 \/ ~TimerOn))
      BY <1>1, <1>2, Zenon DEF VMInv, FaultsOK
    <2> QED
      BY <1>1, <1>2, <1>3, <1>5, <2>1, <2>2, SMTT(30) DEF VMInv, FaultsOK
  <1>8. TablesOK'
    <2>1. ASSUME NEW t \in Threads, NEW u \in Threads, NEW v \in Pages, NEW w \in Pages,
                 physicalPage'[t][v] \in Frames, physicalPage'[t][v] = physicalPage'[u][w]
          PROVE  t = u /\ v = w
      <3>1. physicalPage[t][v] \in Frames /\ physicalPage[t][v] = physicalPage[u][w]
        BY <1>5, <2>1, FramesArePages, Zenon
      <3> QED
        BY <3>1, Zenon DEF VMInv, TablesOK, NoFrameShared
    <2>2. ASSUME NEW t \in Threads, NEW v \in Pages, physicalPage'[t][v] \in Frames
          PROVE  physicalPage'[t][v] \in memMap' /\ ipt'[physicalPage'[t][v]] = t
      <3>1. t # me /\ physicalPage'[t][v] = physicalPage[t][v]
        BY <1>5, <2>2, FramesArePages, Zenon
      <3>2. physicalPage[t][v] \in memMap /\ ipt[physicalPage[t][v]] = t
        BY <2>2, <3>1, Zenon DEF VMInv, TablesOK, EntriesRecorded
      <3>3. ~\E w \in Pages : physicalPage[me][w] = physicalPage[t][v]
        BY <1>2, <2>2, <3>1, Zenon DEF VMInv, TablesOK, NoFrameShared
      <3> QED
        BY <1>3, <1>6, <2>2, <3>1, <3>2, <3>3, SMTT(30)
    <2>3. ASSUME NEW t \in Threads, pc'[t] \in {"locking", "loading"}
          PROVE  /\ faulting'[t].frame \in memMap'
                 /\ faulting'[t].page \notin valid'[t]
                 /\ \A u \in Threads, w \in Pages : physicalPage'[u][w] # faulting'[t].frame
                 /\ \A u \in Threads : pc'[u] \in {"locking", "loading"}
                                       /\ faulting'[u].frame = faulting'[t].frame => u = t
      <3>1. faulting[t].frame \in Frames /\ pc[t] \in {"locking", "loading"} /\ t # me
        BY <1>2, <1>3, <2>3, Zenon DEF VMInv, VMTypeOK
      <3>2. /\ faulting[t].frame \in memMap /\ faulting[t].page \notin valid[t]
            /\ \A u \in Threads, w \in Pages : physicalPage[u][w] # faulting[t].frame
            /\ \A u \in Threads : pc[u] \in {"locking", "loading"}
                                  /\ faulting[u].frame = faulting[t].frame => u = t
        BY <3>1, Zenon DEF VMInv, TablesOK, HeldApart
      <3>3. \A u \in Threads, w \in Pages : physicalPage'[u][w] # faulting[t].frame
        <4> SUFFICES ASSUME NEW u \in Threads, NEW w \in Pages
                     PROVE  physicalPage'[u][w] # faulting[t].frame
          OBVIOUS
        <4>1. CASE u = me
          BY <1>5, <3>1, <4>1, FramesArePages, Zenon
        <4>2. CASE u # me
          BY <1>5, <3>2, <4>2, Zenon
        <4> QED
          BY <4>1, <4>2, Zenon
      <3>4. faulting' = faulting /\ pc' = pc /\ valid'[t] = valid[t]
        BY <1>2, <1>3, <1>5, <3>1, Zenon
      <3>5. faulting[t].frame \in memMap'
        BY <1>2, <1>3, <1>6, <3>1, <3>2, Zenon
      <3> QED
        BY <3>2, <3>3, <3>4, <3>5, Zenon
    <2>4. \A t \in Threads : pc'[t] # "unlocking"
      BY <1>2, <1>3, Zenon DEF VMInv, FaultsOK
    <2>5. ASSUME NEW t \in Threads, NEW v \in valid'[t] PROVE physicalPage'[t][v] \in Frames
      <3>1. t # me /\ v \in valid[t] /\ v \in Pages
        BY <1>5, <1>4, Zenon DEF VMTypeOK
      <3> QED
        BY <1>5, <3>1, Zenon DEF VMInv, TablesOK, LoadedIsMapped
    <2> QED
      BY <2>1, <2>2, <2>3, <2>4, <2>5 , SMTT(30)
         DEF TablesOK, NoFrameShared, EntriesRecorded, HeldApart, LoadedIsMapped
  <1>9. CleanOK'
    <2> SUFFICES ASSUME clean PROVE CleanOK'
      BY <1>3, Zenon DEF CleanOK
    <2>1. \A t \in Threads : swapped'[t] = {}
      BY <1>3, Zenon DEF VMInv, VMTypeOK, CleanOK
    <2>2. ASSUME NEW t \in Threads, NEW v \in Pages, physicalPage'[t][v] \in Frames
          PROVE  v \in valid'[t]
      <3>1. t # me /\ physicalPage'[t][v] = physicalPage[t][v] /\ valid'[t] = valid[t]
        BY <1>5, <2>2, FramesArePages, Zenon
      <3> QED
        BY <2>2, <3>1, Zenon DEF VMInv, CleanOK
    <2>3. ASSUME NEW f \in memMap'
          PROVE  \E t \in Threads : \/ \E v \in Pages : physicalPage'[t][v] = f
                                    \/ pc'[t] \in {"locking", "loading"} /\ faulting'[t].frame = f
      <3>1. f \in memMap /\ f \notin FramesOf(me) /\ f \in Frames
        BY <1>3, <2>3, Zenon DEF VMInv, VMTypeOK
      <3>2. PICK t \in Threads : \/ \E v \in Pages : physicalPage[t][v] = f
                                 \/ pc[t] \in {"locking", "loading"} /\ faulting[t].frame = f
        BY <3>1, Zenon DEF VMInv, CleanOK
      <3> QED
        BY <1>3, <1>5, <1>6, <3>1, <3>2, SMTT(30)
    <2> QED
      BY <2>1, <2>2, <2>3, Zenon DEF CleanOK
  <1>10. ListOK' /\ VictimFoundUnlessPreempted'
    BY <1>1, <1>3, Zenon DEF VMInv, FaultsOK, ListOK, VictimFoundUnlessPreempted
  <1>11. OwnFrames'
    <2>1. ASSUME NEW t \in Threads, NEW v \in valid'[t]
          PROVE  mem'[physicalPage'[t][v]].owner = t /\ mem'[physicalPage'[t][v]].page = v
      <3>1. t # me /\ valid'[t] = valid[t] /\ physicalPage'[t] = physicalPage[t] /\ mem' = mem
        BY <1>3, Zenon DEF VMInv, VMTypeOK
      <3> QED
        BY <3>1, Zenon DEF VMInv, OwnFrames
    <2> QED
      BY <2>1, Zenon DEF OwnFrames
  <1>12. DataOK => DataOK'
    <2>1. \A t \in Threads : t # me => written'[t] = written[t] /\ physicalPage'[t] = physicalPage[t]
      BY <1>3, Zenon DEF VMInv, VMTypeOK
    <2>2. written'[me] = {}
      BY <1>2, <1>3, Zenon DEF VMInv, VMTypeOK
    <2> QED
      BY <1>3, <1>5, <2>1, <2>2, SMTT(30) DEF DataOK, Coherent
  <1> QED
    BY <1>1, <1>4, <1>7, <1>8, <1>9, <1>10, <1>11, <1>12, Zenon DEF VMInv

\* A store to a valid page.
LEMMA WriteKeeps ==
  ASSUME VMInv, NEW x \in Pages, Write(x)
  PROVE  VMInv' /\ (DataOK => DataOK')
  <1> USE FramesArePages
  <1> DEFINE me == currentThread
             f == physicalPage[me][x]
  <1>1. /\ cpu = "thread" /\ pc[me] = "user" /\ x \in valid[me] /\ cpu' = "tick"
        /\ mem' = [mem EXCEPT ![f].data = "new"]
        /\ written' = [written EXCEPT ![me] = @ \cup {x}]
        /\ UNCHANGED <<currentThread, threadVars, readyList, semVars, threadToBeDestroyed,
                       yieldOnReturn, pending>>
    BY Zenon DEF Write, InUser
  <1>2. /\ swapChoice' = swapChoice /\ memMap' = memMap /\ ipt' = ipt
        /\ pageList' = pageList /\ physicalPage' = physicalPage /\ valid' = valid
        /\ swapped' = swapped /\ pc' = pc /\ faulting' = faulting
        /\ failure' = failure /\ clean' = clean
        /\ status' = status /\ context' = context /\ currentThread' = currentThread
        /\ value' = value
    BY Zenon DEF Write, frameVars, threadVars, semVars
  <1>3. ThreadsOK' /\ me \in Threads
    BY <1>1, ProcessorMoves, Zenon DEF VMInv, ThreadsOK, TypeOK
  <1>4. f \in Frames
    BY <1>1, <1>3, Zenon DEF VMInv, VMTypeOK, TablesOK, LoadedIsMapped
  <1>5. FaultsOK' /\ LocksOK'
    <2>1. FaultsOK'
      BY <1>1, <1>2, Zenon DEF VMInv, FaultsOK
    <2>2. LocksOK'
      BY <1>2, LocksStay, Zenon DEF VMInv
    <2> QED
      BY <2>1, <2>2, Zenon
  <1>6. TablesOK'
    BY <1>2, TablesAgreeStill, Zenon DEF VMInv
  <1>7. CleanOK' /\ ListOK' /\ VictimFoundUnlessPreempted'
    BY <1>1, <1>2 DEF VMInv, FaultsOK, CleanOK, ListOK, VictimFoundUnlessPreempted
  <1>8. \A t \in Threads : \A v \in valid[t] :
          physicalPage[t][v] \in Frames /\ (physicalPage[t][v] = f => t = me /\ v = x)
    BY <1>1, <1>3, <1>4 DEF VMInv, VMTypeOK, TablesOK, NoFrameShared, LoadedIsMapped
  <1> HIDE DEF f
  <1>9. mem' = [g \in Frames |-> IF g = f THEN [mem[f] EXCEPT !.data = "new"] ELSE mem[g]]
    BY <1>1, <1>4, Zenon DEF VMInv, VMTypeOK
  <1>10. VMTypeOK'
    <2>1. mem' \in [Frames -> [owner : Threads \cup {NULL}, page : Pages \cup {-1},
                              data : {"exe", "new", "junk"}]]
      <3> DEFINE C == [owner : Threads \cup {NULL}, page : Pages \cup {-1},
                       data : {"exe", "new", "junk"}]
      <3>1. \A g \in Frames : mem[g] \in C
        BY Zenon DEF VMInv, VMTypeOK
      <3>2. [mem[f] EXCEPT !.data = "new"] \in C
        BY <1>4, <3>1, Zenon
      <3> HIDE DEF C
      <3>3. mem' \in [Frames -> C]
        BY <1>9, <3>1, <3>2, Zenon
      <3> QED
        BY <3>3, Zenon DEF C
    <2>2. written' \in [Threads -> SUBSET Pages]
      BY <1>1, Zenon DEF VMInv, VMTypeOK
    <2> QED
      BY <1>2, <2>1, <2>2, Zenon DEF VMInv, VMTypeOK
  <1>11. OwnFrames'
    BY <1>2, <1>4, <1>8, <1>9 DEF VMInv, VMTypeOK, OwnFrames
  <1>12. ASSUME DataOK PROVE DataOK'
    <2>1. \A t \in Threads : written'[t] = IF t = me THEN written[t] \cup {x} ELSE written[t]
      BY <1>1, ZenonT(30) DEF VMInv, VMTypeOK
    <2>2. mem[f] \in [owner : Threads \cup {NULL}, page : Pages \cup {-1},
                      data : {"exe", "new", "junk"}]
          /\ mem[f].owner = me /\ mem[f].page = x
      BY <1>1, <1>3, <1>4, Zenon DEF VMInv, VMTypeOK, OwnFrames, f
    <2>3. mem'[f] = [owner |-> me, page |-> x, data |-> "new"]
      BY <1>4, <1>9, <2>2, Zenon
    <2>4. ASSUME NEW t \in Threads, NEW v \in valid[t],
                 clean
          PROVE  LET d == mem'[physicalPage[t][v]].data
                 IN  d = "exe" \/ (d = "new" /\ v \in written'[t])
      <3>1. CASE physicalPage[t][v] = f
        <4>1. t = me /\ v = x
          BY <1>8, <3>1, Zenon
        <4>2. v \in written'[t]
          BY <1>3, <2>1, <4>1, Zenon
        <4> QED
          BY <2>3, <3>1, <4>1, <4>2, SMTT(30)
      <3>2. CASE physicalPage[t][v] # f
        <4>1. mem'[physicalPage[t][v]] = mem[physicalPage[t][v]]
          BY <1>8, <1>9, <3>2, Zenon
        <4>2. v \in written[t] => v \in written'[t]
          BY <2>1, ZenonT(30)
        <4> QED
          BY <1>12, <2>4, <4>1, <4>2, Zenon DEF DataOK
      <3> QED
        BY <3>1, <3>2, Zenon
    <2>5. ASSUME NEW t \in Threads, NEW v \in valid[t], clean, swapChoice = 0
          PROVE  mem'[physicalPage[t][v]] =
                   [owner |-> t, page |-> v, data |-> IF v \in written'[t] THEN "new" ELSE "exe"]
      <3>1. CASE physicalPage[t][v] = f
        <4>1. t = me /\ v = x
          BY <1>8, <3>1, Zenon
        <4>2. v \in written'[t]
          BY <1>3, <2>1, <4>1, Zenon
        <4> QED
          BY <2>3, <3>1, <4>1, <4>2, Zenon
      <3>2. CASE physicalPage[t][v] # f
        <4>1. mem'[physicalPage[t][v]] = mem[physicalPage[t][v]]
          BY <1>8, <1>9, <3>2, Zenon
        <4>2. v \in written[t] <=> v \in written'[t]
          BY <2>1, <3>2, Zenon DEF f
        <4> QED
          BY <1>12, <2>5, <4>1, <4>2, SMTT(30) DEF DataOK, Coherent
      <3> QED
        BY <3>1, <3>2, Zenon
    <2>6. ASSUME clean, swapChoice = 0 PROVE \A t \in Threads : written'[t] \subseteq valid[t]
      BY <1>1, <1>12, <2>1, <2>6, SMTT(30) DEF DataOK
    <2> QED
      BY <1>2, <2>4, <2>5, <2>6, Zenon DEF DataOK, Coherent
  <1> QED
    BY <1>3, <1>5, <1>6, <1>7, <1>10, <1>11, <1>12, Zenon DEF VMInv

-----------------------------------------------------------------------------
(***************************************************************************)
(* loadPage                                                                *)
(***************************************************************************)

\* What every start of a load does: the process holds f for page x.
LEMMA StartLoadSteps ==
  ASSUME VMInv, InUser, NEW x \in Pages, NEW f \in Frames, StartLoad(x, f),
         x \notin valid[currentThread],
         \A t \in Threads : /\ physicalPage[t] = Unmapped => physicalPage'[t] = Unmapped
                            /\ valid'[t] \subseteq valid[t]
  PROVE  /\ ThreadsOK' /\ FaultsOK' /\ LocksOK' /\ VictimFoundUnlessPreempted'
         /\ pc' \in [Threads -> {"user", "locking", "loading", "unlocking"}]
         /\ faulting' \in [Threads -> [page : Pages, frame : Frames]]
         /\ currentThread \in Threads
         /\ pc'[currentThread] \in {"locking", "loading"}
         /\ faulting'[currentThread].page = x /\ faulting'[currentThread].frame = f
         /\ pc[currentThread] = "user"
         /\ \A t \in Threads \ {currentThread} : pc'[t] = pc[t] /\ faulting'[t] = faulting[t]
         /\ \A t \in Threads : pc[t] # "unlocking" /\ pc'[t] # "unlocking"
         /\ swapChoice' = swapChoice /\ ipt' = ipt /\ mem' = mem /\ failure' = failure
         /\ written' = written /\ clean' = clean
  <1> DEFINE me == currentThread
  <1>1. /\ cpu = "thread" /\ pc[me] = "user"
        /\ faulting' = [faulting EXCEPT ![me] = [page |-> x, frame |-> f]]
        /\ pc' = [pc EXCEPT ![me] = IF swapChoice = 1 THEN "locking" ELSE "loading"]
        /\ swapChoice' = swapChoice /\ ipt' = ipt /\ mem' = mem /\ failure' = failure
        /\ written' = written /\ clean' = clean
        /\ UNCHANGED vars
    BY Zenon DEF InUser, StartLoad
  <1>2. /\ cpu' = cpu /\ currentThread' = currentThread /\ status' = status
        /\ context' = context /\ value' = value
        /\ UNCHANGED <<currentThread, threadVars, readyList, semVars, threadToBeDestroyed,
                       yieldOnReturn, pending>>
    BY <1>1, Zenon DEF vars, threadVars, semVars
  <1>3. ThreadsOK' /\ me \in Threads /\ status[me] = "RUNNING" /\ context[me] = "code"
    BY <1>1, <1>2, ProcessorMoves, CurrentRuns, Zenon DEF VMInv
  <1>4. /\ pc' \in [Threads -> {"user", "locking", "loading", "unlocking"}]
        /\ faulting' \in [Threads -> [page : Pages, frame : Frames]]
        /\ pc'[me] = IF swapChoice = 1 THEN "locking" ELSE "loading"
        /\ faulting'[me].page = x /\ faulting'[me].frame = f
        /\ \A t \in Threads \ {me} : pc'[t] = pc[t] /\ faulting'[t] = faulting[t]
    BY <1>1, <1>3, Zenon DEF VMInv, VMTypeOK
  <1>5. \A t \in Threads : pc[t] \notin {"locking", "unlocking"} /\ pc'[t] # "unlocking"
    BY <1>1, <1>4, Zenon DEF VMInv, FaultsOK
  <1>6. FaultsOK'
    <2>1. ASSUME NEW t \in Threads
          PROVE  /\ pc'[t] # "user" => status'[t] \in {"RUNNING", "READY"}
                                       /\ context'[t] \in {"code", "yield"}
                 /\ pc'[t] \in {"locking", "unlocking"} =>
                      t = currentThread' /\ cpu' = "thread" /\ swapChoice' = 1
                 /\ pc'[t] = "loading" /\ swapChoice' # 1 => t = currentThread' /\ cpu' = "thread"
                 /\ pc'[t] = "loading" /\ ~TimerOn =>
                      t = currentThread' /\ cpu' \in {"thread", "tick"}
      <3>1. CASE t = me
        BY <1>1, <1>2, <1>3, <1>4, <3>1, Zenon
      <3>2. CASE t # me
        BY <1>1, <1>2, <1>4, <3>2, Zenon DEF VMInv, FaultsOK
      <3> QED
        BY <3>1, <3>2, Zenon
    <2>2. ASSUME NEW t \in Threads, status'[t] = "FREE" \/ context'[t] = "finished"
          PROVE  physicalPage'[t] = Unmapped /\ valid'[t] = {}
      BY <1>2, <2>2, Zenon DEF VMInv, FaultsOK
    <2>3. failure' = "none"
      BY <1>1, Zenon DEF VMInv, FaultsOK
    <2> QED
      BY <2>1, <2>2, <2>3, Zenon DEF FaultsOK
  <1>7. LocksOK'
    <2> SUFFICES ASSUME NEW g \in Frames, swapChoice = 1
                 PROVE  (\E t \in Threads : pc[t] \in {"loading", "unlocking"}
                                            /\ faulting[t].frame = g)
                        <=> \E t \in Threads : pc'[t] \in {"loading", "unlocking"}
                                               /\ faulting'[t].frame = g
      BY <1>1, <1>2, Zenon DEF VMInv, LocksOK
    <2> QED
      BY <1>1, <1>4, Zenon
  <1>8. VictimFoundUnlessPreempted'
    BY <1>1, Zenon DEF VMInv, FaultsOK, VictimFoundUnlessPreempted
  <1> QED
    BY <1>1, <1>3, <1>4, <1>5, <1>6, <1>7, <1>8, Zenon

-----------------------------------------------------------------------------
(***************************************************************************)
(* Replacement and loading                                                 *)
(***************************************************************************)

\* A free frame is taken.
LEMMA TakeFreeKeeps ==
  ASSUME VMInv, NEW x \in Pages, TakeFree(x)
  PROVE  VMInv' /\ (DataOK => DataOK')
  <1> DEFINE me == currentThread
             f == Find
  <1>1. /\ InUser /\ x \notin valid[me] /\ memMap # Frames
        /\ memMap' = memMap \cup {f} /\ pageList' = Queued(pageList, f)
        /\ StartLoad(x, f)
        /\ physicalPage' = physicalPage /\ valid' = valid /\ swapped' = swapped
    BY Zenon DEF TakeFree, pageVars
  <1>2. f \in Frames /\ f \notin memMap
    <2>1. Frames \ memMap \subseteq Nat /\ Frames \ memMap # {}
      BY <1>1, FramesArePages, Zenon DEF VMInv, VMTypeOK
    <2> QED
      BY <2>1, MinInSet, Zenon DEF Find
  <1> HIDE DEF f
  <1>3. /\ ThreadsOK' /\ FaultsOK' /\ LocksOK' /\ VictimFoundUnlessPreempted'
        /\ pc' \in [Threads -> {"user", "locking", "loading", "unlocking"}]
        /\ faulting' \in [Threads -> [page : Pages, frame : Frames]]
        /\ me \in Threads
        /\ pc'[me] \in {"locking", "loading"}
        /\ faulting'[me].page = x /\ faulting'[me].frame = f
        /\ pc[me] = "user"
        /\ \A t \in Threads \ {me} : pc'[t] = pc[t] /\ faulting'[t] = faulting[t]
        /\ \A t \in Threads : pc[t] # "unlocking" /\ pc'[t] # "unlocking"
        /\ swapChoice' = swapChoice /\ ipt' = ipt /\ mem' = mem /\ failure' = failure
        /\ written' = written /\ clean' = clean
    BY <1>1, <1>2, StartLoadSteps, Zenon
  <1>4. /\ pageList' \in Seq(Frames)
        /\ swapChoice = 1 => Range(pageList') = Range(pageList) \cup {f}
    BY <1>1, <1>2, RangeAppend, SMTT(30) DEF VMInv, VMTypeOK, Queued
  <1>5. VMTypeOK'
    BY <1>1, <1>2, <1>3, <1>4, Zenon DEF VMInv, VMTypeOK
  <1>6. TablesOK'
    <2>1. NoFrameShared' /\ LoadedIsMapped'
      <3>1. NoFrameShared'
        BY <1>1, SMTT(30) DEF VMInv, TablesOK, NoFrameShared
      <3>2. LoadedIsMapped'
        BY <1>1, <1>3, Zenon DEF VMInv, TablesOK, LoadedIsMapped
      <3> QED
        BY <3>1, <3>2, Zenon
    <2>2. EntriesRecorded'
      BY <1>1, <1>3, Zenon DEF VMInv, TablesOK, EntriesRecorded
    <2>3. HeldApart'
      <3>1. \A u \in Threads, w \in Pages : physicalPage[u][w] # f
        BY <1>2, Zenon DEF VMInv, TablesOK, EntriesRecorded
      <3>2. \A u \in Threads : pc[u] \in {"locking", "loading"} => faulting[u].frame # f
        BY <1>2, Zenon DEF VMInv, TablesOK, HeldApart
      <3>3. ASSUME NEW t \in Threads, pc'[t] \in {"locking", "loading"}
            PROVE  /\ faulting'[t].frame \in memMap'
                   /\ faulting'[t].page \notin valid'[t]
                   /\ \A u \in Threads, w \in Pages : physicalPage'[u][w] # faulting'[t].frame
                   /\ \A u \in Threads : pc'[u] \in {"locking", "loading"}
                                         /\ faulting'[u].frame = faulting'[t].frame => u = t
        <4>1. CASE t = me
          BY <1>1, <1>3, <3>1, <3>2, <4>1, SMTT(30)
        <4>2. CASE t # me
          <5>1. pc[t] \in {"locking", "loading"} /\ faulting'[t] = faulting[t]
            BY <1>3, <3>3, <4>2, Zenon
          <5> QED
            BY <1>1, <1>3, <3>2, <4>2, <5>1, SMTT(30) DEF VMInv, TablesOK, HeldApart
        <4> QED
          BY <4>1, <4>2, Zenon
      <3> QED
        BY <3>3, Zenon DEF HeldApart
    <2> QED
      BY <2>1, <2>2, <2>3, Zenon DEF TablesOK
  <1>7. CleanOK'
    <2> SUFFICES ASSUME clean PROVE CleanOK'
      BY <1>3, Zenon DEF CleanOK
    <2>1. ASSUME NEW g \in memMap'
          PROVE  \E t \in Threads :
                   \/ \E v \in Pages : physicalPage'[t][v] = g
                   \/ pc'[t] \in {"locking", "loading"} /\ faulting'[t].frame = g
      <3>1. CASE g = f
        BY <1>3, <3>1, Zenon
      <3>2. CASE g # f
        <4>1. PICK t \in Threads : \/ \E v \in Pages : physicalPage[t][v] = g
                                   \/ pc[t] \in {"locking", "loading"} /\ faulting[t].frame = g
          BY <1>1, <3>2, Zenon DEF VMInv, CleanOK
        <4> QED
          BY <1>1, <1>3, <4>1, Zenon
      <3> QED
        BY <3>1, <3>2, Zenon
    <2> QED
      BY <1>1, <1>3, <2>1, Zenon DEF VMInv, CleanOK
  <1>8. ListOK' /\ OwnFrames' /\ (DataOK => DataOK')
    <2>1. physicalPage' = physicalPage /\ valid' = valid /\ mem' = mem
      BY <1>1, <1>3, Zenon
    <2>2. /\ clean' = clean /\ swapChoice' = swapChoice /\ written' = written
          /\ memMap' = memMap \cup {f}
      BY <1>1, <1>3, Zenon
    <2>3. ListOK'
      BY <1>4, <2>2, Zenon DEF VMInv, ListOK
    <2>4. OwnFrames'
      BY <2>1, Zenon DEF VMInv, OwnFrames
    <2>5. DataOK => DataOK'
      BY <2>1, <2>2, SMTT(30) DEF DataOK, Coherent
    <2> QED
      BY <2>3, <2>4, <2>5, Zenon
  <1> QED
    BY <1>3, <1>5, <1>6, <1>7, <1>8, Zenon DEF VMInv

\* A frame is taken from the page that was there.
LEMMA EvictKeeps ==
  ASSUME VMInv, NEW x \in Pages, NEW f \in Frames, Evict(x, f)
  PROVE  VMInv' /\ (DataOK => DataOK')
  <1> DEFINE me == currentThread
             t0 == ipt[f]
             w0 == Min(PagesAt(f))
  <1>1. /\ InUser /\ x \notin valid[me] /\ memMap = Frames /\ f \in Victims
        /\ SwapoutFailure(f) = "none"
        /\ physicalPage' = [physicalPage EXCEPT ![t0][w0] = -1]
        /\ valid' = [valid EXCEPT ![t0] = @ \ {w0}]
        /\ swapped' = [swapped EXCEPT ![t0] = @ \ {w0}]
        /\ pageList' = Queued(SubSeq(pageList, 2, Len(pageList)), f)
        /\ StartLoad(x, f) /\ memMap' = memMap
    BY Zenon DEF Evict, Swapout
  <1>2. t0 \in Threads /\ w0 \in Pages /\ physicalPage[t0][w0] = f
    <2>1. /\ t0 # NULL /\ PagesAt(f) # {}
          /\ PagesAt(f) = {v \in Pages : physicalPage[t0][v] = f}
      BY <1>1 DEF SwapoutFailure, PagesAt
    <2>2. w0 \in PagesAt(f)
      BY <2>1, MinInSet, FramesArePages, ZenonT(30)
    <2> QED
      BY <2>1, <2>2, Zenon DEF VMInv, VMTypeOK
  <1> HIDE DEF t0, w0
  <1>3. /\ physicalPage' \in [Threads -> [Pages -> Frames \cup {-1}]]
        /\ valid' \in [Threads -> SUBSET Pages] /\ swapped' \in [Threads -> SUBSET Pages]
        /\ physicalPage'[t0][w0] = -1
        /\ \A t \in Threads, v \in Pages :
             ~(t = t0 /\ v = w0) => physicalPage'[t][v] = physicalPage[t][v]
        /\ \A t \in Threads : t # t0 => physicalPage'[t] = physicalPage[t]
        /\ \A t \in Threads : /\ valid'[t] \subseteq valid[t] /\ swapped'[t] \subseteq swapped[t]
                              /\ \A v \in valid[t] : ~(t = t0 /\ v = w0) => v \in valid'[t]
        /\ w0 \notin valid'[t0]
    <2>1. /\ physicalPage' \in [Threads -> [Pages -> Frames \cup {-1}]]
          /\ physicalPage'[t0][w0] = -1
          /\ \A t \in Threads, v \in Pages :
               ~(t = t0 /\ v = w0) => physicalPage'[t][v] = physicalPage[t][v]
          /\ \A t \in Threads : t # t0 => physicalPage'[t] = physicalPage[t]
      BY <1>1, <1>2, Zenon DEF VMInv, VMTypeOK
    <2>2. /\ valid' \in [Threads -> SUBSET Pages] /\ swapped' \in [Threads -> SUBSET Pages]
          /\ \A t \in Threads : /\ valid'[t] \subseteq valid[t] /\ swapped'[t] \subseteq swapped[t]
                                /\ \A v \in valid[t] : ~(t = t0 /\ v = w0) => v \in valid'[t]
          /\ w0 \notin valid'[t0]
      BY <1>1, <1>2, Zenon DEF VMInv, VMTypeOK
    <2> QED
      BY <2>1, <2>2, Zenon
  \* The frame is in no page table any more.
  <1>4. \A u \in Threads, w \in Pages : physicalPage'[u][w] # f
    <2> SUFFICES ASSUME NEW u \in Threads, NEW w \in Pages, physicalPage'[u][w] = f
                 PROVE  FALSE
      BY Zenon
    <2>1. ~(u = t0 /\ w = w0)
      BY <1>3, FramesArePages, Zenon
    <2>2. physicalPage[u][w] = physicalPage[t0][w0] /\ physicalPage[t0][w0] \in Frames
      BY <1>2, <1>3, <2>1, Zenon
    <2> QED
      BY <1>2, <2>1, <2>2 DEF VMInv, TablesOK, NoFrameShared
  <1>5. \A u \in Threads, w \in Pages :
          physicalPage'[u][w] \in Frames => physicalPage'[u][w] = physicalPage[u][w]
    BY <1>3, FramesArePages, Zenon
  <1>6. \A t \in Threads : physicalPage[t] = Unmapped => physicalPage'[t] = Unmapped
    <2>1. physicalPage[t0] # Unmapped
      BY <1>2, FramesArePages, Zenon DEF Unmapped
    <2> QED
      BY <1>3, <2>1, Zenon
  <1>7. /\ ThreadsOK' /\ FaultsOK' /\ LocksOK' /\ VictimFoundUnlessPreempted'
        /\ pc' \in [Threads -> {"user", "locking", "loading", "unlocking"}]
        /\ faulting' \in [Threads -> [page : Pages, frame : Frames]]
        /\ me \in Threads
        /\ pc'[me] \in {"locking", "loading"}
        /\ faulting'[me].page = x /\ faulting'[me].frame = f
        /\ pc[me] = "user"
        /\ \A t \in Threads \ {me} : pc'[t] = pc[t] /\ faulting'[t] = faulting[t]
        /\ \A t \in Threads : pc[t] # "unlocking" /\ pc'[t] # "unlocking"
        /\ swapChoice' = swapChoice /\ ipt' = ipt /\ mem' = mem /\ failure' = failure
        /\ written' = written /\ clean' = clean
    BY <1>1, <1>3, <1>6, StartLoadSteps, Zenon
  <1>8. /\ pageList' \in Seq(Frames)
        /\ swapChoice = 1 => Frames \subseteq Range(pageList')
    <2> DEFINE r == SubSeq(pageList, 2, Len(pageList))
    <2>1. r \in Seq(Frames) /\ pageList \in Seq(Frames)
      BY DEF VMInv, VMTypeOK
    <2>2. CASE swapChoice # 1
      BY <1>1, <2>1, <2>2, Zenon DEF Queued
    <2>3. CASE swapChoice = 1
      <3>1. Frames \subseteq Range(pageList)
        BY <1>1, <2>3, Zenon DEF VMInv, ListOK
      <3>2. pageList # <<>>
        BY <3>1, FramesArePages DEF Range
      <3>3. f = Head(pageList) /\ r = Tail(pageList)
        BY <1>1, <2>1, <2>3, <3>2, SMTT(30) DEF Victims
      <3>4. Range(pageList) = Range(r) \cup {f}
        BY <2>1, <3>2, <3>3, HeadOrTail, ZenonT(30)
      <3> HIDE DEF r
      <3>5. pageList' = Append(r, f)
        BY <1>1, <2>3, Zenon DEF Queued, r
      <3>6. Range(pageList') = Range(r) \cup {f}
        BY <2>1, <3>5, RangeAppend
      <3> QED
        BY <2>1, <3>1, <3>4, <3>5, <3>6, SMTT(30)
    <2> QED
      BY <2>2, <2>3, Zenon
  <1>9. VMTypeOK'
    BY <1>1, <1>3, <1>7, <1>8, Zenon DEF VMInv, VMTypeOK
  <1>10. NoFrameShared' /\ EntriesRecorded' /\ LoadedIsMapped'
    <2>1. NoFrameShared'
      <3> SUFFICES ASSUME NEW t \in Threads, NEW u \in Threads, NEW v \in Pages, NEW w \in Pages,
                          physicalPage'[t][v] \in Frames,
                          physicalPage'[t][v] = physicalPage'[u][w]
                   PROVE  t = u /\ v = w
        BY Zenon DEF NoFrameShared
      <3>1. physicalPage[t][v] \in Frames /\ physicalPage[t][v] = physicalPage[u][w]
        BY <1>5, Zenon
      <3>2. NoFrameShared
        BY Zenon DEF VMInv, TablesOK
      <3> QED
        BY <3>1, <3>2, SMTT(30) DEF NoFrameShared
    <2>2. EntriesRecorded'
      BY <1>1, <1>5, <1>7, SMTT(30) DEF VMInv, TablesOK, EntriesRecorded
    <2>3. LoadedIsMapped'
      <3> SUFFICES ASSUME NEW t \in Threads, NEW v \in valid'[t]
                   PROVE  physicalPage'[t][v] \in Frames
        BY <1>7, Zenon DEF LoadedIsMapped
      <3>1. v \in valid[t] /\ v \in Pages /\ ~(t = t0 /\ v = w0)
        BY <1>3, Zenon
      <3> QED
        BY <1>3, <3>1, Zenon DEF VMInv, TablesOK, LoadedIsMapped
    <2> QED
      BY <2>1, <2>2, <2>3, Zenon
  <1>11. HeldApart'
    <2>1. \A u \in Threads : pc[u] \in {"locking", "loading"} => faulting[u].frame # f
      BY <1>2, Zenon DEF VMInv, TablesOK, HeldApart
    <2>2. ASSUME NEW t \in Threads, pc'[t] \in {"locking", "loading"}
          PROVE  /\ faulting'[t].frame \in memMap'
                 /\ faulting'[t].page \notin valid'[t]
                 /\ \A u \in Threads, w \in Pages : physicalPage'[u][w] # faulting'[t].frame
                 /\ \A u \in Threads : pc'[u] \in {"locking", "loading"}
                                       /\ faulting'[u].frame = faulting'[t].frame => u = t
      <3>1. CASE t = me
        BY <1>1, <1>3, <1>4, <1>7, <2>1, <3>1, SMTT(30)
      <3>2. CASE t # me
        <4>1. pc[t] \in {"locking", "loading"} /\ faulting'[t] = faulting[t]
          BY <1>7, <2>2, <3>2, Zenon
        <4>2. faulting[t].frame \in Frames
          BY Zenon DEF VMInv, VMTypeOK
        <4>3. \A u \in Threads, w \in Pages : physicalPage'[u][w] # faulting'[t].frame
          BY <1>5, <4>1, <4>2, SMTT(30) DEF VMInv, TablesOK, HeldApart
        <4>4. faulting[t].frame \in memMap /\ faulting[t].page \notin valid[t]
          BY <4>1, Zenon DEF VMInv, TablesOK, HeldApart
        <4>5. ASSUME NEW u \in Threads, pc'[u] \in {"locking", "loading"},
                     faulting'[u].frame = faulting'[t].frame
              PROVE  u = t
          <5>1. u # me
            BY <1>7, <2>1, <4>1, <4>5, Zenon
          <5>2. pc[u] \in {"locking", "loading"} /\ faulting[u].frame = faulting[t].frame
            BY <1>7, <4>1, <4>5, <5>1, Zenon
          <5> QED
            BY <4>1, <5>2, Zenon DEF VMInv, TablesOK, HeldApart
        <4>6. faulting'[t].frame \in memMap' /\ faulting'[t].page \notin valid'[t]
          BY <1>1, <1>3, <4>1, <4>4, Zenon
        <4> QED
          BY <4>3, <4>5, <4>6, Zenon
      <3> QED
        BY <3>1, <3>2, Zenon
    <2> QED
      BY <2>2, Zenon DEF HeldApart
  <1>12. CleanOK'
    <2> SUFFICES ASSUME clean PROVE CleanOK'
      BY <1>7, Zenon DEF CleanOK
    <2>1. \A t \in Threads : swapped'[t] = {}
      BY <1>3, Zenon DEF VMInv, CleanOK
    <2>2. ASSUME NEW t \in Threads, NEW v \in Pages, physicalPage'[t][v] \in Frames
          PROVE  v \in valid'[t]
      <3>1. ~(t = t0 /\ v = w0) /\ physicalPage[t][v] \in Frames
        BY <1>3, <1>5, <2>2, FramesArePages, Zenon
      <3> QED
        BY <1>3, <3>1, Zenon DEF VMInv, CleanOK
    <2>3. ASSUME NEW g \in memMap'
          PROVE  \E t \in Threads :
                   \/ \E v \in Pages : physicalPage'[t][v] = g
                   \/ pc'[t] \in {"locking", "loading"} /\ faulting'[t].frame = g
      <3>1. CASE g = f
        BY <1>7, <3>1, Zenon
      <3>2. CASE g # f
        <4>1. PICK t \in Threads : \/ \E v \in Pages : physicalPage[t][v] = g
                                   \/ pc[t] \in {"locking", "loading"} /\ faulting[t].frame = g
          BY <1>1, Zenon DEF VMInv, CleanOK
        <4>2. ASSUME NEW v \in Pages, physicalPage[t][v] = g PROVE physicalPage'[t][v] = g
          BY <1>2, <1>3, <3>2, <4>2, Zenon
        <4>3. ASSUME pc[t] \in {"locking", "loading"}
              PROVE  pc'[t] = pc[t] /\ faulting'[t] = faulting[t]
          BY <1>7, <4>3, Zenon
        <4> QED
          BY <4>1, <4>2, <4>3, Zenon
      <3> QED
        BY <3>1, <3>2, Zenon
    <2> QED
      BY <2>1, <2>2, <2>3, Zenon DEF CleanOK
  <1>13. ListOK'
    BY <1>1, <1>7, <1>8, Zenon DEF ListOK
  <1>14. \A t \in Threads : \A v \in valid'[t] :
           v \in valid[t] /\ physicalPage'[t][v] = physicalPage[t][v]
    BY <1>3, Zenon
  <1>15. OwnFrames'
    BY <1>7, <1>14, SMTT(30) DEF VMInv, OwnFrames
  <1>16. DataOK => DataOK'
    <2>1. swapChoice # 0
      BY <1>1 DEF Victims
    <2> QED
      BY <1>7, <1>14, <2>1, SMTT(30) DEF DataOK
  <1> QED
    BY <1>7, <1>9, <1>10, <1>11, <1>12, <1>13, <1>15, <1>16, Zenon DEF VMInv, TablesOK

\* The P: the lock of a frame that is about to be loaded is free.
LEMMA LockFrameKeeps ==
  ASSUME VMInv, LockFrame
  PROVE  VMInv' /\ (DataOK => DataOK')
  <1> DEFINE me == currentThread
             f == faulting[me].frame
  <1>1. /\ pc[me] = "locking" /\ PDone(f)
        /\ pc' = [pc EXCEPT ![me] = "loading"]
        /\ swapChoice' = swapChoice /\ memMap' = memMap /\ ipt' = ipt
        /\ pageList' = pageList /\ physicalPage' = physicalPage /\ valid' = valid
        /\ swapped' = swapped /\ mem' = mem /\ faulting' = faulting
        /\ failure' = failure /\ written' = written /\ clean' = clean
    BY Zenon DEF LockFrame, frameVars, pageVars
  <1>2. me \in Threads
    BY Zenon DEF VMInv, ThreadsOK, TypeOK
  <1>3. f \in Frames /\ f \in Sems
    BY <1>2, VMAssumption, Zenon DEF VMInv, VMTypeOK
  <1>4. /\ ThreadsOK' /\ cpu = "thread" /\ cpu' = "tick"
        /\ currentThread' = currentThread /\ status' = status /\ context' = context
        /\ value' = [value EXCEPT ![f] = @ - 1]
    BY <1>1, <1>3, LockThreads, Zenon DEF VMInv
  <1>5. /\ pc' \in [Threads -> {"user", "locking", "loading", "unlocking"}]
        /\ pc'[me] = "loading"
        /\ \A t \in Threads \ {me} : pc'[t] = pc[t]
    BY <1>1, <1>2, Zenon DEF VMInv, VMTypeOK
  <1>6. swapChoice = 1
    BY <1>1, <1>2, Zenon DEF VMInv, FaultsOK
  <1>7. \A t \in Threads : pc'[t] \in {"locking", "loading"} <=> pc[t] \in {"locking", "loading"}
    BY <1>1, <1>5, Zenon
  <1>8. \A t \in Threads : pc'[t] = "unlocking" <=> pc[t] = "unlocking"
    BY <1>1, <1>5, Zenon
  <1>9. VMTypeOK'
    BY <1>1, <1>5, Zenon DEF VMInv, VMTypeOK
  <1>10. FaultsOK'
    <2>1. ASSUME NEW t \in Threads
          PROVE  /\ pc'[t] # "user" => status'[t] \in {"RUNNING", "READY"}
                                       /\ context'[t] \in {"code", "yield"}
                 /\ pc'[t] \in {"locking", "unlocking"} =>
                      t = currentThread' /\ cpu' = "thread" /\ swapChoice' = 1
                 /\ pc'[t] = "loading" /\ swapChoice' # 1 => t = currentThread' /\ cpu' = "thread"
                 /\ pc'[t] = "loading" /\ ~TimerOn =>
                      t = currentThread' /\ cpu' \in {"thread", "tick"}
                 /\ status'[t] = "FREE" \/ context'[t] = "finished" =>
                      physicalPage'[t] = Unmapped /\ valid'[t] = {}
      BY <1>1, <1>4, <1>5, <1>6, Zenon DEF VMInv, FaultsOK
    <2>2. failure' = "none"
      BY <1>1, <1>4, Zenon DEF VMInv, FaultsOK
    <2> QED
      BY <2>1, <2>2, Zenon DEF FaultsOK
  <1>11. LocksOK'
    <2>1. \A t \in Threads \ {me} : pc[t] \in {"loading", "unlocking"} => faulting[t].frame # f
      <3>1. \A t \in Threads \ {me} : pc[t] # "unlocking"
        BY Zenon DEF VMInv, FaultsOK
      <3> QED
        BY <1>1, <1>2, <3>1, Zenon DEF VMInv, TablesOK, HeldApart
    <2>2. value[f] = 1
      BY <1>1, <1>2, <1>3, <2>1, Zenon DEF VMInv, LocksOK
    <2>3. ASSUME NEW g \in Frames
          PROVE  value'[g] = IF swapChoice' = 1 /\ \E t \in Threads :
                                  pc'[t] \in {"loading", "unlocking"} /\ faulting'[t].frame = g
                             THEN 0 ELSE 1
      <3>1. CASE g = f
        <4>1. value'[f] = 0
          BY <1>3, <1>4, <2>2, SMTT(30) DEF VMInv, ThreadsOK, TypeOK
        <4> QED
          BY <1>1, <1>2, <1>5, <1>6, <3>1, <4>1, Zenon
      <3>2. CASE g # f
        <4>1. value'[g] = value[g]
          BY <1>3, <1>4, <3>2, VMAssumption, Zenon DEF VMInv, ThreadsOK, TypeOK
        <4>2. \A t \in Threads : faulting[t].frame = g => t # me /\ pc'[t] = pc[t]
          BY <1>5, <3>2, Zenon
        <4> QED
          BY <1>1, <1>6, <4>1, <4>2, Zenon DEF VMInv, LocksOK
      <3> QED
        BY <3>1, <3>2, Zenon
    <2> QED
      BY <2>3, Zenon DEF LocksOK
  <1>12. TablesOK'
    BY <1>1, <1>7, <1>8, SMTT(30) DEF VMInv, TablesOK, NoFrameShared, EntriesRecorded, HeldApart, LoadedIsMapped
  <1>13. CleanOK'
    BY <1>1, <1>7 DEF VMInv, CleanOK
  <1>14. ListOK' /\ OwnFrames' /\ (DataOK => DataOK')
    BY <1>1, Zenon DEF VMInv, ListOK, OwnFrames, DataOK, Coherent
  <1>15. VictimFoundUnlessPreempted'
    BY <1>10, <1>4, Zenon DEF FaultsOK, VictimFoundUnlessPreempted
  <1> QED
    BY <1>4, <1>9, <1>10, <1>11, <1>12, <1>13, <1>14, <1>15, Zenon DEF VMInv

\* The V.
LEMMA UnlockFrameKeeps ==
  ASSUME VMInv, UnlockFrame
  PROVE  VMInv' /\ (DataOK => DataOK')
  <1> DEFINE me == currentThread
             f == faulting[me].frame
  <1>1. /\ pc[me] = "unlocking" /\ V(f)
        /\ pc' = [pc EXCEPT ![me] = "user"]
        /\ faulting' = [faulting EXCEPT ![me] = NoFault]
        /\ swapChoice' = swapChoice /\ memMap' = memMap /\ ipt' = ipt
        /\ pageList' = pageList /\ physicalPage' = physicalPage /\ valid' = valid
        /\ swapped' = swapped /\ mem' = mem
        /\ failure' = failure /\ written' = written /\ clean' = clean
    BY Zenon DEF UnlockFrame, frameVars, pageVars
  <1>2. me \in Threads
    BY DEF VMInv, ThreadsOK, TypeOK
  <1>3. f \in Frames /\ f \in Sems
    BY <1>2, VMAssumption DEF VMInv, VMTypeOK
  <1>4. /\ ThreadsOK' /\ cpu = "thread" /\ cpu' = "tick"
        /\ currentThread' = currentThread /\ status' = status /\ context' = context
        /\ value' = [value EXCEPT ![f] = @ + 1]
    BY <1>1, <1>3, UnlockThreads, Zenon DEF VMInv
  <1>5. /\ pc' \in [Threads -> {"user", "locking", "loading", "unlocking"}]
        /\ faulting' \in [Threads -> [page : Pages, frame : Frames]]
        /\ pc'[me] = "user"
        /\ \A t \in Threads \ {me} : pc'[t] = pc[t] /\ faulting'[t] = faulting[t]
    BY <1>1, <1>2, FramesArePages, Zenon DEF VMInv, VMTypeOK, NoFault
  <1>6. swapChoice = 1
    BY <1>1, <1>2, Zenon DEF VMInv, FaultsOK
  <1>7. \A t \in Threads : pc'[t] \in {"locking", "loading"} =>
          pc[t] = pc'[t] /\ faulting'[t] = faulting[t]
    BY <1>5, Zenon
  <1>8. \A t \in Threads : pc[t] \in {"locking", "loading"} =>
          pc'[t] = pc[t] /\ faulting'[t] = faulting[t]
    BY <1>1, <1>5, Zenon
  <1>9. \A t \in Threads : pc'[t] # "unlocking" /\ pc[t] # "locking"
    BY <1>1, <1>2, <1>5, Zenon DEF VMInv, FaultsOK
  <1>10. VMTypeOK'
    BY <1>1, <1>5, Zenon DEF VMInv, VMTypeOK
  <1>11. FaultsOK'
    <2>1. ASSUME NEW t \in Threads
          PROVE  /\ pc'[t] # "user" => status'[t] \in {"RUNNING", "READY"}
                                       /\ context'[t] \in {"code", "yield"}
                 /\ pc'[t] \in {"locking", "unlocking"} =>
                      t = currentThread' /\ cpu' = "thread" /\ swapChoice' = 1
                 /\ pc'[t] = "loading" /\ swapChoice' # 1 => t = currentThread' /\ cpu' = "thread"
                 /\ pc'[t] = "loading" /\ ~TimerOn =>
                      t = currentThread' /\ cpu' \in {"thread", "tick"}
                 /\ status'[t] = "FREE" \/ context'[t] = "finished" =>
                      physicalPage'[t] = Unmapped /\ valid'[t] = {}
      BY <1>1, <1>4, <1>5, <1>6, <1>9, Zenon DEF VMInv, FaultsOK
    <2>2. failure' = "none"
      BY <1>1, <1>4, Zenon DEF VMInv, FaultsOK
    <2> QED
      BY <2>1, <2>2 DEF FaultsOK
  <1>12. LocksOK'
    <2>1. \A t \in Threads \ {me} : pc[t] # "unlocking"
      BY DEF VMInv, FaultsOK
    <2>2. physicalPage[me][faulting[me].page] = f /\ faulting[me].page \in Pages
      BY <1>1, <1>2, Zenon DEF VMInv, VMTypeOK, TablesOK, LoadedIsMapped
    <2>3. \A t \in Threads : pc[t] = "loading" => faulting[t].frame # f
      BY <1>2, <2>2, SMTT(30) DEF VMInv, TablesOK, HeldApart
    <2>4. value[f] = 0
      BY <1>1, <1>2, <1>3, <1>6, Zenon DEF VMInv, LocksOK
    <2>5. ASSUME NEW g \in Frames
          PROVE  value'[g] = IF swapChoice' = 1 /\ \E t \in Threads :
                                  pc'[t] \in {"loading", "unlocking"} /\ faulting'[t].frame = g
                             THEN 0 ELSE 1
      <3>1. CASE g = f
        <4>1. value'[f] = 1
          BY <1>3, <1>4, <2>4, SMTT(30) DEF VMInv, ThreadsOK, TypeOK
        <4> QED
          BY <1>5, <2>1, <2>3, <3>1, <4>1, SMTT(30)
      <3>2. CASE g # f
        <4>1. value'[g] = value[g]
          BY <1>3, <1>4, <3>2, VMAssumption, Zenon DEF VMInv, ThreadsOK, TypeOK
        <4>2. (\E t \in Threads : pc[t] \in {"loading", "unlocking"} /\ faulting[t].frame = g)
              <=> \E t \in Threads : pc'[t] \in {"loading", "unlocking"} /\ faulting'[t].frame = g
          BY <1>5, <3>2, Zenon
        <4> QED
          BY <1>1, <1>6, <4>1, <4>2, Zenon DEF VMInv, LocksOK
      <3> QED
        BY <3>1, <3>2
    <2> QED
      BY <2>5 DEF LocksOK
  <1>13. TablesOK'
    <2>1. NoFrameShared' /\ EntriesRecorded' /\ LoadedIsMapped'
      BY <1>1, <1>9, SMTT(30) DEF VMInv, TablesOK, NoFrameShared, EntriesRecorded, LoadedIsMapped
    <2>2. HeldApart'
      BY <1>1, <1>7, SMTT(30) DEF VMInv, TablesOK, HeldApart
    <2> QED
      BY <2>1, <2>2, Zenon DEF TablesOK
  <1>14. CleanOK'
    BY <1>1, <1>8, SMTT(30) DEF VMInv, CleanOK
  <1>15. ListOK' /\ OwnFrames' /\ (DataOK => DataOK')
    BY <1>1, Zenon DEF VMInv, ListOK, OwnFrames, DataOK, Coherent
  <1>16. VictimFoundUnlessPreempted'
    BY <1>11, <1>4, Zenon DEF FaultsOK, VictimFoundUnlessPreempted
  <1> QED
    BY <1>4, <1>10, <1>11, <1>12, <1>13, <1>14, <1>15, <1>16, Zenon DEF VMInv

\* The load itself: the frame becomes an entry of the process.
LEMMA LoadKeeps ==
  ASSUME VMInv, Load
  PROVE  VMInv' /\ (Overruns = {} /\ DataOK => DataOK')
  <1> DEFINE me == currentThread
             x == faulting[me].page
             f == faulting[me].frame
  <1>1. /\ cpu = "thread" /\ pc[me] = "loading"
        /\ ipt' = [ipt EXCEPT ![f] = me]
        /\ physicalPage' = [physicalPage EXCEPT ![me][x] = f]
        /\ \/ x \notin swapped[me] /\ LoadFromExecutable(x, f)
           \/ x \in swapped[me] /\ Swapin(x, f)
        /\ \/ /\ swapChoice = 1
              /\ pc' = [pc EXCEPT ![me] = "unlocking"]
              /\ cpu' = cpu /\ faulting' = faulting
           \/ /\ swapChoice # 1
              /\ pc' = [pc EXCEPT ![me] = "user"]
              /\ faulting' = [faulting EXCEPT ![me] = NoFault]
              /\ cpu' = "tick"
        /\ UNCHANGED <<currentThread, threadVars, readyList, semVars, threadToBeDestroyed,
                       yieldOnReturn, pending>>
        /\ swapChoice' = swapChoice /\ memMap' = memMap /\ pageList' = pageList
        /\ swapped' = swapped
        /\ failure' = failure /\ written' = written /\ clean' = clean
    BY Zenon DEF Load, LoadThreadIntoIPT
  <1>2. /\ me \in Threads /\ x \in Pages /\ f \in Frames
    <2>1. me \in Threads
      BY DEF VMInv, ThreadsOK, TypeOK
    <2> QED
      BY <2>1, Zenon DEF VMInv, VMTypeOK
  <1>3. /\ f \in memMap /\ x \notin valid[me]
        /\ \A u \in Threads, w \in Pages : physicalPage[u][w] # f
        /\ \A u \in Threads : pc[u] \in {"locking", "loading"} /\ faulting[u].frame = f => u = me
    BY <1>1, <1>2, Zenon DEF VMInv, TablesOK, HeldApart
  <1> HIDE DEF x, f
  <1>4. /\ ThreadsOK' /\ cpu' \in {"thread", "tick"} /\ (swapChoice = 1 => cpu' = "thread")
        /\ currentThread' = currentThread /\ status' = status /\ context' = context
        /\ value' = value
    <2>1. cpu' \in {"thread", "tick"} /\ (swapChoice = 1 => cpu' = "thread")
      BY <1>1, Zenon
    <2> QED
      BY <1>1, <2>1, ProcessorMoves, Zenon DEF VMInv, threadVars, semVars
  <1>5. /\ ipt' \in [Frames -> Threads \cup {NULL}]
        /\ ipt'[f] = me /\ \A g \in Frames \ {f} : ipt'[g] = ipt[g]
    BY <1>1, <1>2, Zenon DEF VMInv, VMTypeOK
  <1>6. /\ physicalPage' \in [Threads -> [Pages -> Frames \cup {-1}]]
        /\ physicalPage'[me][x] = f
        /\ \A t \in Threads, v \in Pages :
             ~(t = me /\ v = x) => physicalPage'[t][v] = physicalPage[t][v]
        /\ \A t \in Threads \ {me} : physicalPage'[t] = physicalPage[t]
    BY <1>1, <1>2, SMTT(30) DEF VMInv, VMTypeOK
  <1>7. /\ pc' \in [Threads -> {"user", "locking", "loading", "unlocking"}]
        /\ faulting' \in [Threads -> [page : Pages, frame : Frames]]
        /\ pc'[me] = IF swapChoice = 1 THEN "unlocking" ELSE "user"
        /\ \A t \in Threads \ {me} : pc'[t] = pc[t] /\ faulting'[t] = faulting[t]
        /\ swapChoice = 1 => faulting'[me].page = x /\ faulting'[me].frame = f
    <2>1. /\ pc \in [Threads -> {"user", "locking", "loading", "unlocking"}]
          /\ faulting \in [Threads -> [page : Pages, frame : Frames]]
          /\ NoFault \in [page : Pages, frame : Frames]
      BY FramesArePages, Zenon DEF VMInv, VMTypeOK, NoFault
    <2>2. CASE swapChoice = 1
      BY <1>1, <1>2, <2>1, <2>2, Zenon DEF x, f
    <2>3. CASE swapChoice # 1
      BY <1>1, <1>2, <2>1, <2>3, ZenonT(30)
    <2> QED
      BY <2>2, <2>3, Zenon
  <1>8. \A t \in Threads : pc[t] \notin {"locking", "unlocking"}
    BY <1>1, <1>2, Zenon DEF VMInv, FaultsOK
  \* What the executable or the swap file leaves in memory and in "valid".
  <1>9. /\ mem' \in [Frames -> [owner : Threads \cup {NULL}, page : Pages \cup {-1},
                                data : {"exe", "new", "junk"}]]
        /\ valid' \in [Threads -> SUBSET Pages]
        /\ \A t \in Threads \ {me} : valid'[t] = valid[t]
        /\ valid[me] \subseteq valid'[me] /\ valid'[me] \subseteq valid[me] \cup {x}
        /\ \A g \in Frames \ {f} : mem'[g].owner = mem[g].owner /\ mem'[g].page = mem[g].page
        /\ x \in valid'[me] => mem'[f].owner = me /\ mem'[f].page = x
        /\ x \notin swapped[me] =>
             /\ x \in valid'[me]
             /\ mem'[f] = [owner |-> me, page |-> x, data |-> "exe"]
             /\ Overruns = {} => \A g \in Frames \ {f} : mem'[g] = mem[g]
    <2>1. /\ mem \in [Frames -> [owner : Threads \cup {NULL}, page : Pages \cup {-1},
                                 data : {"exe", "new", "junk"}]]
          /\ valid \in [Threads -> SUBSET Pages]
      BY Zenon DEF VMInv, VMTypeOK
    <2>2. CASE x \notin swapped[me] /\ LoadFromExecutable(x, f)
      BY <1>2, <2>1, <2>2, SMTT(30) DEF LoadFromExecutable
    <2>3. CASE x \in swapped[me] /\ Swapin(x, f)
      BY <1>2, <1>3, <2>1, <2>3, SMTT(30) DEF Swapin
    <2> QED
      BY <1>1, <2>2, <2>3, Zenon
  <1>10. VMTypeOK'
    BY <1>1, <1>5, <1>6, <1>7, <1>9, Zenon DEF VMInv, VMTypeOK
  <1>11. FaultsOK'
    <2>1. ASSUME NEW t \in Threads
          PROVE  /\ pc'[t] # "user" => status'[t] \in {"RUNNING", "READY"}
                                       /\ context'[t] \in {"code", "yield"}
                 /\ pc'[t] \in {"locking", "unlocking"} =>
                      t = currentThread' /\ cpu' = "thread" /\ swapChoice' = 1
                 /\ pc'[t] = "loading" /\ swapChoice' # 1 => t = currentThread' /\ cpu' = "thread"
                 /\ pc'[t] = "loading" /\ ~TimerOn =>
                      t = currentThread' /\ cpu' \in {"thread", "tick"}
      <3>1. CASE t = me
        BY <1>1, <1>4, <1>7, <3>1, Zenon DEF VMInv, FaultsOK
      <3>2. CASE t # me
        BY <1>1, <1>4, <1>7, <1>8, <3>2, Zenon DEF VMInv, FaultsOK
      <3> QED
        BY <3>1, <3>2, Zenon
    <2>2. ASSUME NEW t \in Threads, status'[t] = "FREE" \/ context'[t] = "finished"
          PROVE  physicalPage'[t] = Unmapped /\ valid'[t] = {}
      <3>1. t # me
        <4>1. status[me] = "RUNNING" /\ context[me] = "code"
          BY <1>1, CurrentRuns, Zenon DEF VMInv
        <4> QED
          BY <1>4, <2>2, <4>1, Zenon
      <3> QED
        BY <1>4, <1>6, <1>9, <2>2, <3>1, SMTT(30) DEF VMInv, FaultsOK
    <2>3. failure' = "none"
      BY <1>1, Zenon DEF VMInv, FaultsOK
    <2> QED
      BY <2>1, <2>2, <2>3, Zenon DEF FaultsOK
  <1>12. LocksOK'
    <2> SUFFICES ASSUME NEW g \in Frames, swapChoice = 1
                 PROVE  (\E t \in Threads : pc[t] \in {"loading", "unlocking"}
                                            /\ faulting[t].frame = g)
                        <=> \E t \in Threads : pc'[t] \in {"loading", "unlocking"}
                                               /\ faulting'[t].frame = g
      BY <1>1, <1>4, Zenon DEF VMInv, LocksOK
    <2> QED
      BY <1>1, <1>2, <1>7, Zenon DEF f
  <1>13. NoFrameShared'
    <2> SUFFICES ASSUME NEW t \in Threads, NEW u \in Threads, NEW v \in Pages, NEW w \in Pages,
                        physicalPage'[t][v] \in Frames,
                        physicalPage'[t][v] = physicalPage'[u][w]
                 PROVE  t = u /\ v = w
      BY Zenon DEF NoFrameShared
    <2>1. CASE t = me /\ v = x
      BY <1>3, <1>6, <2>1, SMTT(30)
    <2>2. CASE u = me /\ w = x
      BY <1>3, <1>6, <2>2, SMTT(30)
    <2>3. CASE ~(t = me /\ v = x) /\ ~(u = me /\ w = x)
      <3>1. physicalPage[t][v] \in Frames /\ physicalPage[t][v] = physicalPage[u][w]
        BY <1>6, <2>3, Zenon
      <3>2. NoFrameShared
        BY Zenon DEF VMInv, TablesOK
      <3> QED
        BY <3>1, <3>2, SMTT(30) DEF NoFrameShared
    <2> QED
      BY <2>1, <2>2, <2>3, Zenon
  <1>14. EntriesRecorded'
    <2> SUFFICES ASSUME NEW t \in Threads, NEW v \in Pages, physicalPage'[t][v] \in Frames
                 PROVE  physicalPage'[t][v] \in memMap' /\ ipt'[physicalPage'[t][v]] = t
      BY Zenon DEF EntriesRecorded
    <2>1. CASE t = me /\ v = x
      BY <1>1, <1>3, <1>5, <1>6, <2>1, SMTT(30)
    <2>2. CASE ~(t = me /\ v = x)
      <3>1. physicalPage'[t][v] = physicalPage[t][v] /\ physicalPage[t][v] \in Frames \ {f}
        BY <1>3, <1>6, <2>2, Zenon
      <3>2. physicalPage[t][v] \in memMap /\ ipt[physicalPage[t][v]] = t
        BY <3>1, Zenon DEF VMInv, TablesOK, EntriesRecorded
      <3> QED
        BY <1>1, <1>5, <3>1, <3>2, SMTT(30)
    <2> QED
      BY <2>1, <2>2, Zenon
  <1>15. HeldApart'
    <2> SUFFICES ASSUME NEW t \in Threads, pc'[t] \in {"locking", "loading"}
                 PROVE  /\ faulting'[t].frame \in memMap'
                        /\ faulting'[t].page \notin valid'[t]
                        /\ \A u \in Threads, w \in Pages :
                             physicalPage'[u][w] # faulting'[t].frame
                        /\ \A u \in Threads : pc'[u] \in {"locking", "loading"}
                             /\ faulting'[u].frame = faulting'[t].frame => u = t
      BY Zenon DEF HeldApart
    <2>1. t # me
      BY <1>7, Zenon
    <2>2. pc[t] \in {"locking", "loading"} /\ faulting'[t] = faulting[t] /\ valid'[t] = valid[t]
      BY <1>7, <1>9, <2>1, Zenon
    <2>3. /\ faulting[t].frame \in memMap /\ faulting[t].page \notin valid[t]
          /\ faulting[t].frame # f
          /\ \A u \in Threads, w \in Pages : physicalPage[u][w] # faulting[t].frame
          /\ \A u \in Threads : pc[u] \in {"locking", "loading"}
                                /\ faulting[u].frame = faulting[t].frame => u = t
      BY <1>3, <2>1, <2>2, Zenon DEF VMInv, TablesOK, HeldApart
    <2>4. \A u \in Threads, w \in Pages : physicalPage'[u][w] # faulting'[t].frame
      BY <1>6, <2>2, <2>3, SMTT(30)
    <2>5. \A u \in Threads : pc'[u] \in {"locking", "loading"}
                             /\ faulting'[u].frame = faulting'[t].frame => u = t
      BY <1>7, <2>2, <2>3, Zenon
    <2> QED
      BY <1>1, <2>2, <2>3, <2>4, <2>5, Zenon
  <1>16. LoadedIsMapped'
    <2>1. ASSUME NEW t \in Threads, pc'[t] = "unlocking"
          PROVE  physicalPage'[t][faulting'[t].page] = faulting'[t].frame
      <3>1. t = me
        BY <1>7, <1>8, <2>1, Zenon
      <3> QED
        BY <1>6, <1>7, <2>1, <3>1, Zenon
    <2>2. ASSUME NEW t \in Threads, NEW v \in valid'[t]
          PROVE  physicalPage'[t][v] \in Frames
      <3>1. CASE t = me /\ v = x
        BY <1>2, <1>6, <3>1, Zenon
      <3>2. CASE ~(t = me /\ v = x)
        <4>1. v \in valid[t] /\ v \in Pages
          BY <1>2, <1>9, <2>2, <3>2, SMTT(30)
        <4> QED
          BY <1>6, <3>2, <4>1, Zenon DEF VMInv, TablesOK, LoadedIsMapped
      <3> QED
        BY <3>1, <3>2, Zenon
    <2> QED
      BY <2>1, <2>2, Zenon DEF LoadedIsMapped
  <1>17. CleanOK'
    <2> SUFFICES ASSUME clean PROVE CleanOK'
      BY <1>1, Zenon DEF CleanOK
    <2>1. \A t \in Threads : swapped[t] = {}
      BY Zenon DEF VMInv, CleanOK
    <2>2. x \in valid'[me]
      BY <1>2, <1>9, <2>1, Zenon
    <2>3. ASSUME NEW t \in Threads, NEW v \in Pages, physicalPage'[t][v] \in Frames
          PROVE  v \in valid'[t]
      <3>1. CASE t = me /\ v = x
        BY <2>2, <3>1, Zenon
      <3>2. CASE ~(t = me /\ v = x)
        <4>1. v \in valid[t]
          BY <1>6, <2>3, <3>2, SMTT(30) DEF VMInv, CleanOK
        <4> QED
          BY <1>9, <4>1, Zenon
      <3> QED
        BY <3>1, <3>2, Zenon
    <2>4. ASSUME NEW g \in memMap'
          PROVE  \E t \in Threads :
                   \/ \E v \in Pages : physicalPage'[t][v] = g
                   \/ pc'[t] \in {"locking", "loading"} /\ faulting'[t].frame = g
      <3>1. PICK t \in Threads : \/ \E v \in Pages : physicalPage[t][v] = g
                                 \/ pc[t] \in {"locking", "loading"} /\ faulting[t].frame = g
        BY <1>1, Zenon DEF VMInv, CleanOK
      <3>2. ASSUME NEW v \in Pages, physicalPage[t][v] = g
            PROVE  physicalPage'[t][v] = g
        <4>1. g \in Frames
          BY <1>1, Zenon DEF VMInv, VMTypeOK
        <4>2. v \in valid[t]
          BY <3>2, <4>1, Zenon DEF VMInv, CleanOK
        <4> QED
          BY <1>3, <1>6, <3>2, <4>2, Zenon
      <3>3. CASE t = me /\ faulting[t].frame = g
        BY <1>2, <1>6, <3>3, Zenon DEF f
      <3>4. CASE t # me /\ pc[t] \in {"locking", "loading"} /\ faulting[t].frame = g
        BY <1>7, <3>4, Zenon
      <3> QED
        BY <3>1, <3>2, <3>3, <3>4, Zenon
    <2> QED
      BY <1>1, <2>1, <2>3, <2>4, Zenon DEF CleanOK
  \* Every other page is where it was.
  <1>18. \A t \in Threads : \A v \in valid'[t] : ~(t = me /\ v = x) =>
           /\ v \in valid[t] /\ v \in Pages
           /\ physicalPage'[t][v] = physicalPage[t][v] /\ physicalPage[t][v] \in Frames \ {f}
    <2> SUFFICES ASSUME NEW t \in Threads, NEW v \in valid'[t], ~(t = me /\ v = x)
                 PROVE  /\ v \in valid[t] /\ v \in Pages
                        /\ physicalPage'[t][v] = physicalPage[t][v]
                        /\ physicalPage[t][v] \in Frames \ {f}
      BY Zenon
    <2>1. v \in valid[t] /\ v \in Pages
      BY <1>9, SMTT(30)
    <2> QED
      BY <1>3, <1>6, <2>1, Zenon DEF VMInv, TablesOK, LoadedIsMapped
  <1>19. OwnFrames'
    <2> SUFFICES ASSUME NEW t \in Threads, NEW v \in valid'[t]
                 PROVE  /\ mem'[physicalPage'[t][v]].owner = t
                        /\ mem'[physicalPage'[t][v]].page = v
      BY Zenon DEF OwnFrames
    <2>1. CASE t = me /\ v = x
      BY <1>6, <1>9, <2>1, Zenon
    <2>2. CASE ~(t = me /\ v = x)
      BY <1>9, <1>18, <2>2, SMTT(30) DEF VMInv, OwnFrames
    <2> QED
      BY <2>1, <2>2, Zenon
  <1>20. ASSUME Overruns = {}, DataOK PROVE DataOK'
    <2> SUFFICES ASSUME clean PROVE DataOK'
      BY <1>1, Zenon DEF DataOK
    <2>1. x \notin swapped[me]
      BY <1>2, Zenon DEF VMInv, CleanOK
    <2>2. /\ x \in valid'[me]
          /\ mem'[f] = [owner |-> me, page |-> x, data |-> "exe"]
          /\ \A g \in Frames \ {f} : mem'[g] = mem[g]
      BY <1>9, <1>20, <2>1, Zenon
    <2>3. ASSUME NEW t \in Threads, NEW v \in valid'[t]
          PROVE  \/ mem'[physicalPage'[t][v]].data = "exe"
                 \/ mem'[physicalPage'[t][v]].data = "new" /\ v \in written[t]
      <3>1. CASE t = me /\ v = x
        BY <1>6, <2>2, <3>1, SMTT(30)
      <3>2. CASE ~(t = me /\ v = x)
        BY <1>18, <1>20, <2>2, <3>2, SMTT(30) DEF DataOK
      <3> QED
        BY <3>1, <3>2, Zenon
    <2>4. ASSUME swapChoice = 0
          PROVE  Coherent' /\ \A t \in Threads : written'[t] \subseteq valid'[t]
      <3>1. \A t \in Threads : written[t] \subseteq valid[t]
        BY <1>20, <2>4, Zenon DEF DataOK
      <3>2. ASSUME NEW t \in Threads, NEW v \in valid'[t]
            PROVE  mem'[physicalPage'[t][v]] =
                     [owner |-> t, page |-> v, data |-> IF v \in written'[t] THEN "new" ELSE "exe"]
        <4>1. CASE t = me /\ v = x
          BY <1>1, <1>2, <1>3, <1>6, <2>2, <3>1, <4>1, Zenon
        <4>2. CASE ~(t = me /\ v = x)
          BY <1>1, <1>18, <1>20, <2>2, <2>4, <4>2, SMTT(30) DEF DataOK, Coherent
        <4> QED
          BY <4>1, <4>2, Zenon
      <3>3. \A t \in Threads : written'[t] \subseteq valid'[t]
        BY <1>1, <1>9, <3>1, Zenon
      <3> QED
        BY <3>2, <3>3, Zenon DEF Coherent
    <2> QED
      BY <1>1, <2>3, <2>4, Zenon DEF DataOK
  <1>21. ListOK' /\ VictimFoundUnlessPreempted'
    BY <1>1, <1>11, <1>4, Zenon DEF VMInv, ListOK, FaultsOK, VictimFoundUnlessPreempted
  <1> QED
    BY <1>4, <1>10, <1>11, <1>12, <1>13, <1>14, <1>15, <1>16, <1>17, <1>19, <1>20, <1>21, Zenon
    DEF VMInv, TablesOK

-----------------------------------------------------------------------------
(***************************************************************************)
(* The results                                                             *)
(***************************************************************************)

\* The spaces that ipt leads to, when page tables only lose entries.
LEMMA FreedStays ==
  ASSUME FreedOK, freed' \subseteq freed,
         \A t \in Threads, v \in Pages :
           physicalPage'[t][v] \in Frames => physicalPage'[t][v] = physicalPage[t][v]
  PROVE  FreedOK'
  BY Zenon DEF FreedOK

\* A process that exits leaves dangling pointers in ipt only for its own frames, and
\* a load replaces the pointer before the frame is in a page table again.
LEMMA FreedKeeps ==
  ASSUME VMInv, FreedOK, [VMNext]_allVars
  PROVE  FreedOK'
  <1> DEFINE me == currentThread
  <1>1. /\ physicalPage \in [Threads -> [Pages -> Frames \cup {-1}]]
        /\ me \in Threads /\ -1 \notin Frames
    BY FramesArePages, Zenon DEF VMInv, VMTypeOK, ThreadsOK, TypeOK
  <1>2. CASE physicalPage' = physicalPage /\ freed' = freed
    BY <1>2, FreedStays, Zenon
  <1>3. ASSUME NEW u \in Threads, Exec(u) PROVE FreedOK'
    <2>1. physicalPage' = [physicalPage EXCEPT ![u] = Unmapped] /\ freed' = freed
      BY <1>3, Zenon DEF Exec, frameVars
    <2>2. ASSUME NEW t \in Threads, NEW v \in Pages, physicalPage'[t][v] \in Frames
          PROVE  physicalPage'[t][v] = physicalPage[t][v]
      BY <1>1, <2>1, <2>2, Zenon DEF Unmapped
    <2> QED
      BY <2>1, <2>2, FreedStays, Zenon
  <1>4. CASE Exit
    <2>1. /\ physicalPage' = [physicalPage EXCEPT ![me] = Unmapped]
          /\ freed' = freed \cup {f \in Frames : ipt[f] = me}
      BY <1>4, Zenon DEF Exit
    <2> SUFFICES ASSUME NEW t \in Threads, NEW v \in Pages, physicalPage'[t][v] \in Frames
                 PROVE  physicalPage'[t][v] \notin freed'
      BY Zenon DEF FreedOK
    <2>2. t # me /\ physicalPage'[t][v] = physicalPage[t][v]
      BY <1>1, <2>1, Zenon DEF Unmapped
    <2>3. ipt[physicalPage[t][v]] = t
      BY <2>2, Zenon DEF VMInv, TablesOK, EntriesRecorded
    <2>4. physicalPage[t][v] \notin freed
      BY <2>2, Zenon DEF FreedOK
    <2> QED
      BY <2>1, <2>2, <2>3, <2>4
  <1>5. ASSUME NEW x \in Pages, NEW f \in Frames, Evict(x, f) PROVE FreedOK'
    <2>1. /\ physicalPage' = [physicalPage EXCEPT ![ipt[f]][Min(PagesAt(f))] = -1]
          /\ freed' = freed
      BY <1>5, Zenon DEF Evict, Swapout, StartLoad
    <2>2. ASSUME NEW t \in Threads, NEW v \in Pages, physicalPage'[t][v] \in Frames
          PROVE  physicalPage'[t][v] = physicalPage[t][v]
      BY <1>1, <2>1, <2>2
    <2> QED
      BY <2>1, <2>2, FreedStays, Zenon
  <1>6. CASE Load
    <2> DEFINE x == faulting[me].page
               f == faulting[me].frame
    <2>1. /\ physicalPage' = [physicalPage EXCEPT ![me][x] = f]
          /\ freed' = freed \ {f} /\ pc[me] = "loading"
      BY <1>6, Zenon DEF Load
    <2> HIDE DEF x, f
    <2> SUFFICES ASSUME NEW t \in Threads, NEW v \in Pages, physicalPage'[t][v] \in Frames
                 PROVE  physicalPage'[t][v] \notin freed'
      BY Zenon DEF FreedOK
    <2>2. CASE physicalPage'[t][v] = physicalPage[t][v]
      <3>1. physicalPage[t][v] \notin freed
        BY <2>2, Zenon DEF FreedOK
      <3> QED
        BY <2>1, <2>2, <3>1
    <2>3. CASE physicalPage'[t][v] = f
      BY <2>1, <2>3
    <2>4. physicalPage'[t][v] \in {physicalPage[t][v], f}
      BY <1>1, <2>1
    <2> QED
      BY <2>2, <2>3, <2>4, Zenon
  <1> QED
    BY <1>2, <1>3, <1>4, <1>5, <1>6, ZenonT(30)
    DEF VMNext, UserStep, Write, TakeFree, StartLoad, Abort, LockFrame, UnlockFrame, Kernel,
        allVars, vmVars, frameVars, pageVars

LEMMA VMNextKeeps ==
  ASSUME VMInv, FreedOK, [VMNext]_allVars
  PROVE  VMInv' /\ (Overruns = {} /\ DataOK => DataOK')
  <1>1. CASE UserStep
    BY <1>1, UserStepKeeps, Zenon
  <1>2. ASSUME NEW t \in Threads, Exec(t) PROVE VMInv' /\ (DataOK => DataOK')
    BY <1>2, ExecKeeps, Zenon
  <1>3. CASE Exit
    BY <1>3, ExitKeeps
  <1>4. ASSUME NEW v \in Pages, Write(v) PROVE VMInv' /\ (DataOK => DataOK')
    BY <1>4, WriteKeeps, Zenon
  <1>5. ASSUME NEW v \in Pages, TakeFree(v) PROVE VMInv' /\ (DataOK => DataOK')
    BY <1>5, TakeFreeKeeps, Zenon
  <1>6. ASSUME NEW v \in Pages, Abort(v) PROVE VMInv' /\ (DataOK => DataOK')
    BY <1>6, AbortKeeps
  <1>7. ASSUME NEW v \in Pages, NEW f \in Frames, Evict(v, f)
        PROVE  VMInv' /\ (DataOK => DataOK')
    BY <1>7, EvictKeeps, Zenon
  <1>8. CASE LockFrame
    BY <1>8, LockFrameKeeps
  <1>9. CASE Load
    BY <1>9, LoadKeeps, Zenon
  <1>10. CASE UnlockFrame
    BY <1>10, UnlockFrameKeeps
  <1>11. CASE Kernel
    BY <1>11, KernelKeeps
  <1>12. CASE UNCHANGED allVars
    <2>1. UNCHANGED vmVars /\ UNCHANGED vars
      BY <1>12, Zenon DEF allVars
    <2>2. /\ cpu' = cpu /\ currentThread' = currentThread /\ status' = status
          /\ context' = context /\ value' = value /\ inP' = inP /\ queue' = queue
          /\ pending' = pending /\ yieldOnReturn' = yieldOnReturn /\ readyList' = readyList
          /\ threadToBeDestroyed' = threadToBeDestroyed
      BY <2>1, Zenon DEF vars, threadVars, semVars
    <2>3. /\ VMTypeOK' /\ LocksOK' /\ TablesOK' /\ CleanOK' /\ ListOK' /\ OwnFrames'
          /\ DataOK => DataOK'
      BY <2>1, <2>2, TablesStay, Zenon
    <2>4. ThreadsOK'
      <3>1. cpu # "halted" => KernelInv'
        BY <2>1, NextKeepsInv, Zenon DEF VMInv, ThreadsOK
      <3> QED
        BY <2>2, <3>1, Zenon DEF VMInv, ThreadsOK, TypeOK
    <2>5. /\ pc' = pc /\ physicalPage' = physicalPage /\ valid' = valid /\ failure' = failure
          /\ swapChoice' = swapChoice /\ clean' = clean
      BY <2>1, Zenon DEF vmVars, frameVars, pageVars
    <2>6. FaultsOK' /\ VictimFoundUnlessPreempted'
      BY <2>2, <2>5, Zenon DEF VMInv, FaultsOK, VictimFoundUnlessPreempted
    <2> QED
      BY <2>3, <2>4, <2>6, Zenon DEF VMInv
  <1> QED
    BY <1>1, <1>2, <1>3, <1>4, <1>5, <1>6, <1>7, <1>8, <1>9, <1>10, <1>11, <1>12, Zenon DEF VMNext

\* The invariant holds always: for any number of processes, pages and frames, with
\* or without garbage in "swapped", overrunning loads and the timer.
THEOREM VirtualMemoryBookkeeping == VMSpec => [](VMInv /\ FreedOK)
  <1>1. VMInit => VMInv /\ FreedOK
    BY VMInitOK, Zenon DEF VMInit, FreedOK
  <1>2. VMInv /\ FreedOK /\ [VMNext]_allVars => VMInv' /\ FreedOK'
    BY VMNextKeeps, FreedKeeps, Zenon
  <1> QED
    BY <1>1, <1>2, PTL DEF VMSpec

\* What a page table entry or a load in progress says about its frame.
LEMMA InvFramesAgree ==
  ASSUME VMInv, FreedOK
  PROVE  FramesAgree
  <1>1. ASSUME NEW t \in Threads, NEW g \in FramesOf(t)
        PROVE  \E v \in Pages : physicalPage[t][v] = g /\ g \in Frames
    BY DEF FramesOf, VMInv, VMTypeOK
  <1>2. ASSUME NEW t \in Threads, NEW g \in Held(t)
        PROVE  pc[t] \in {"locking", "loading"} /\ faulting[t].frame = g
    BY Zenon DEF Held
  <1>3. ASSUME clean PROVE memMap = UNION {FramesOf(t) \cup Held(t) : t \in Threads}
    <2>1. ASSUME NEW g \in memMap PROVE \E t \in Threads : g \in FramesOf(t) \cup Held(t)
      <3>1. PICK t \in Threads : \/ \E v \in Pages : physicalPage[t][v] = g
                                 \/ pc[t] \in {"locking", "loading"} /\ faulting[t].frame = g
        BY <1>3, Zenon DEF VMInv, CleanOK
      <3>2. g # -1
        BY FramesArePages, Zenon DEF VMInv, VMTypeOK
      <3> QED
        BY <3>1, <3>2, Zenon DEF FramesOf, Held
    <2>2. ASSUME NEW t \in Threads, NEW g \in FramesOf(t) \cup Held(t) PROVE g \in memMap
      BY <1>1, <1>2, SMTT(30) DEF VMInv, TablesOK, EntriesRecorded, HeldApart
    <2> QED
      BY <2>1, <2>2, Zenon
  <1>4. ASSUME NEW t \in Threads, NEW u \in Threads, NEW g, g \in FramesOf(t), g \in Held(u)
        PROVE  FALSE
    BY <1>1, <1>2, <1>4, SMTT(30) DEF VMInv, TablesOK, HeldApart
  <1>5. ASSUME NEW t \in Threads, NEW u \in Threads, NEW g, g \in Held(t), g \in Held(u)
        PROVE  t = u
    BY <1>2, <1>5 DEF VMInv, TablesOK, HeldApart
  <1>6. ASSUME NEW t \in Threads, NEW u \in Threads, NEW g, g \in FramesOf(t), g \in FramesOf(u)
        PROVE  t = u
    <2>1. PICK v \in Pages : physicalPage[t][v] = g /\ g \in Frames
      BY <1>1, <1>6, Zenon
    <2>2. PICK w \in Pages : physicalPage[u][w] = g
      BY <1>1, <1>6, Zenon
    <2>3. NoFrameShared
      BY Zenon DEF VMInv, TablesOK
    <2> QED
      BY <2>1, <2>2, <2>3, Zenon DEF NoFrameShared
  <1>7. ASSUME NEW t \in Threads, NEW u \in Threads
        PROVE  /\ t # u => (FramesOf(t) \cup Held(t)) \cap (FramesOf(u) \cup Held(u)) = {}
               /\ FramesOf(t) \cap Held(t) = {}
    BY <1>4, <1>5, <1>6, Zenon
  <1>8. ASSUME NEW t \in Threads, NEW v \in Pages, NEW w \in Pages, physicalPage[t][v] # -1
        PROVE  /\ ipt[physicalPage[t][v]] = t /\ physicalPage[t][v] \notin freed
               /\ physicalPage[t][v] = physicalPage[t][w] => v = w
    <2>1. physicalPage[t][v] \in Frames
      BY <1>8 DEF VMInv, VMTypeOK
    <2>2. NoFrameShared /\ EntriesRecorded
      BY Zenon DEF VMInv, TablesOK
    <2> QED
      BY <2>1, <2>2, SMTT(30) DEF NoFrameShared, EntriesRecorded, FreedOK
  <1>9. ASSUME swapChoice = 1, memMap = Frames PROVE Range(pageList) = Frames
    <2>1. Range(pageList) \subseteq Frames
      BY DEF VMInv, VMTypeOK, Range
    <2> QED
      BY <1>9, <2>1, Zenon DEF VMInv, ListOK
  <1> QED
    BY <1>3, <1>7, <1>8, <1>9, Zenon DEF FramesAgree

\* memMap, the page tables, ipt and pageList agree in every reachable state.
THEOREM FrameTablesAgree == VMSpec => []FramesAgree
  <1>1. VMInv /\ FreedOK => FramesAgree
    BY InvFramesAgree, Zenon
  <1> QED
    BY <1>1, VirtualMemoryBookkeeping, PTL

\* Looking up and swapping out a victim goes wrong, by a NULL in ipt, a deleted space
\* or the ASSERT, only over a process preempted in pageLock->P.
THEOREM SwapoutFindsItsPage == VMSpec => []VictimFoundUnlessPreempted
  <1>1. VMInv => VictimFoundUnlessPreempted
    BY Zenon DEF VMInv
  <1> QED
    BY <1>1, VirtualMemoryBookkeeping, PTL

\* pageLock->P never waits.
THEOREM PageLocksAreFree == VMSpec => []LockNeverWaits
  <1>1. ASSUME VMInv PROVE LockNeverWaits
    <2> SUFFICES ASSUME NEW t \in Threads, pc[t] = "locking"
                 PROVE  value[faulting[t].frame] = 1
      BY Zenon DEF LockNeverWaits
    <2>1. faulting[t].frame \in Frames
      BY <1>1, Zenon DEF VMInv, VMTypeOK
    <2>2. \A u \in Threads : u # t => pc[u] \notin {"locking", "unlocking"}
      BY <1>1, Zenon DEF VMInv, FaultsOK
    <2>3. \A u \in Threads : pc[u] \in {"loading", "unlocking"} =>
            faulting[u].frame # faulting[t].frame
      BY <1>1, <2>2, Zenon DEF VMInv, TablesOK, HeldApart
    <2> QED
      BY <1>1, <2>1, <2>3, Zenon DEF VMInv, LocksOK
  <1> QED
    BY <1>1, VirtualMemoryBookkeeping, PTL

LEMMA VMDataInit ==
  ASSUME VMInit
  PROVE  DataOK
  BY Zenon DEF VMInit, DataOK, Coherent

\* As long as no load of a page overruns its frame, a process sees only its own
\* pages, as in the executable unless it wrote to them.
THEOREM ProcessesAreIsolated ==
  ASSUME Overruns = {}
  PROVE  VMSpec => []Isolation
  <1>1. VMInit => VMInv /\ DataOK
    BY VMInitOK, VMDataInit, Zenon
  <1>2. VMInv /\ FreedOK /\ DataOK /\ [VMNext]_allVars => DataOK'
    BY VMNextKeeps, Zenon
  <1>3. ASSUME VMInv, DataOK PROVE Isolation
    <2> SUFFICES ASSUME NEW t \in Threads, NEW v \in valid[t]
                 PROVE  LET f == physicalPage[t][v]
                        IN  /\ f \in memMap /\ ipt[f] = t
                            /\ mem[f].owner = t /\ mem[f].page = v
                            /\ clean => \/ mem[f].data = "exe"
                                        \/ mem[f].data = "new" /\ v \in written[t]
      BY Zenon DEF Isolation
    <2>1. v \in Pages /\ physicalPage[t][v] \in Frames
      BY <1>3, Zenon DEF VMInv, VMTypeOK, TablesOK, LoadedIsMapped
    <2>2. physicalPage[t][v] \in memMap /\ ipt[physicalPage[t][v]] = t
      BY <1>3, <2>1, Zenon DEF VMInv, TablesOK, EntriesRecorded
    <2>3. mem[physicalPage[t][v]].owner = t /\ mem[physicalPage[t][v]].page = v
      BY <1>3, Zenon DEF VMInv, OwnFrames
    <2> QED
      BY <1>3, <2>2, <2>3, Zenon DEF DataOK
  <1> QED
    BY <1>1, <1>2, <1>3, VirtualMemoryBookkeeping, PTL DEF VMSpec

\* As long as no load overruns its frame, memory without replacement keeps what
\* was written to it.
THEOREM DemandPagingKeepsWrites ==
  ASSUME Overruns = {}
  PROVE  VMSpec => []DemandCoherent
  <1>1. VMInit => VMInv /\ DataOK
    BY VMInitOK, VMDataInit
  <1>2. VMInv /\ FreedOK /\ DataOK /\ [VMNext]_allVars => DataOK'
    BY VMNextKeeps
  <1>3. DataOK => DemandCoherent
    BY Zenon DEF DataOK, DemandCoherent
  <1> QED
    BY <1>1, <1>2, <1>3, VirtualMemoryBookkeeping, PTL DEF VMSpec

\* As long as no load overruns its frame, nothing but a write of its own process
\* changes a page while it is valid, whatever is replaced, preempted or garbage.
THEOREM PagesAreKept ==
  ASSUME Overruns = {}
  PROVE  VMSpec => ValidPagesKept
  <1> DEFINE me == currentThread
             Kept == \A t \in Threads : \A v \in valid[t] \cap valid'[t] : PageKept(t, v)
  <1>1. ASSUME VMInv, [VMNext]_allVars PROVE Kept
    <2>1. /\ physicalPage \in [Threads -> [Pages -> Frames \cup {-1}]]
          /\ valid \in [Threads -> SUBSET Pages] /\ me \in Threads
          /\ \A t \in Threads : \A v \in valid[t] : v \in Pages /\ physicalPage[t][v] \in Frames
      BY <1>1, Zenon DEF VMInv, VMTypeOK, ThreadsOK, TypeOK, TablesOK, LoadedIsMapped
    <2>2. CASE physicalPage' = physicalPage /\ mem' = mem
      BY <2>2, Zenon DEF PageKept
    <2>3. ASSUME NEW u \in Threads, mem' = mem, valid' = [valid EXCEPT ![u] = {}],
                 physicalPage' = [physicalPage EXCEPT ![u] = Unmapped]
          PROVE  Kept
      BY <2>1, <2>3, Zenon DEF PageKept
    <2>4. ASSUME NEW x \in Pages, Write(x) PROVE Kept
      <3>1. /\ mem' = [mem EXCEPT ![physicalPage[me][x]].data = "new"]
            /\ physicalPage' = physicalPage /\ x \in valid[me]
        BY <2>4, Zenon DEF Write
      <3> SUFFICES ASSUME NEW t \in Threads, NEW v \in valid[t] PROVE PageKept(t, v)
        BY Zenon
      <3>2. physicalPage[t][v] = physicalPage[me][x] => t = me
        BY <1>1, <2>1, <3>1 DEF VMInv, TablesOK, NoFrameShared
      <3>3. mem \in [Frames -> [owner : Threads \cup {NULL}, page : Pages \cup {-1},
                                data : {"exe", "new", "junk"}]]
        BY <1>1, Zenon DEF VMInv, VMTypeOK
      <3> QED
        BY <2>1, <3>1, <3>2, <3>3, SMTT(30) DEF PageKept
    <2>5. ASSUME NEW x \in Pages, NEW f \in Frames, Evict(x, f) PROVE Kept
      <3> DEFINE t0 == ipt[f]
                 w0 == Min(PagesAt(f))
      <3>1. /\ physicalPage' = [physicalPage EXCEPT ![t0][w0] = -1]
            /\ valid' = [valid EXCEPT ![t0] = @ \ {w0}] /\ mem' = mem
        BY <2>5, Zenon DEF Evict, Swapout, StartLoad
      <3> HIDE DEF t0, w0
      <3> SUFFICES ASSUME NEW t \in Threads, NEW v \in valid[t], v \in valid'[t]
                   PROVE PageKept(t, v)
        BY Zenon
      <3>2. ~(t = t0 /\ v = w0)
        BY <2>1, <3>1, Zenon
      <3>3. physicalPage'[t][v] = physicalPage[t][v]
        BY <2>1, <3>1, <3>2, Zenon
      <3> QED
        BY <3>1, <3>3, Zenon DEF PageKept
    <2>6. CASE Load
      <3> DEFINE x == faulting[me].page
                 f == faulting[me].frame
      <3>1. /\ physicalPage' = [physicalPage EXCEPT ![me][x] = f] /\ pc[me] = "loading"
            /\ LoadFromExecutable(x, f) \/ Swapin(x, f)
        BY <2>6, Zenon DEF Load
      <3>2. /\ x \in Pages /\ f \in Frames /\ x \notin valid[me]
            /\ \A u \in Threads, w \in Pages : physicalPage[u][w] # f
        BY <1>1, <2>1, <3>1, Zenon DEF VMInv, VMTypeOK, TablesOK, HeldApart
      <3> HIDE DEF x, f
      <3>3. mem \in [Frames -> [owner : Threads \cup {NULL}, page : Pages \cup {-1},
                                data : {"exe", "new", "junk"}]]
        BY <1>1, Zenon DEF VMInv, VMTypeOK
      <3>4. \A g \in Frames : g # f => mem'[g] = mem[g]
        BY <3>1, <3>2, <3>3, Zenon DEF LoadFromExecutable, Swapin
      <3> SUFFICES ASSUME NEW t \in Threads, NEW v \in valid[t] PROVE PageKept(t, v)
        BY Zenon
      <3>5. ~(t = me /\ v = x)
        BY <3>2, Zenon
      <3>6. physicalPage'[t][v] = physicalPage[t][v]
        BY <2>1, <3>1, <3>2, <3>5, Zenon
      <3> QED
        BY <2>1, <3>2, <3>4, <3>6, Zenon DEF PageKept
    <2>7. ASSUME NEW u \in Threads, Exec(u) PROVE Kept
      BY <2>3, <2>7, Zenon DEF Exec
    <2>8. CASE Exit
      BY <2>1, <2>3, <2>8, Zenon DEF Exit
    <2> HIDE DEF Kept
    <2> QED
      BY <1>1, <2>2, <2>4, <2>5, <2>6, <2>7, <2>8, ZenonT(30)
      DEF VMNext, UserStep, TakeFree, StartLoad, Abort, LockFrame, UnlockFrame, Kernel,
          allVars, vmVars, pageVars
  <1>2. VMInv /\ [VMNext]_allVars => [Kept]_allVars
    BY <1>1, Zenon
  <1> QED
    BY <1>2, VirtualMemoryBookkeeping, PTL DEF VMSpec, ValidPagesKept
=============================================================================
