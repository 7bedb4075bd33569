-------------------------- MODULE ProcessesProofs --------------------------
(***************************************************************************)
(* Proofs about Processes, for any number of threads and of process        *)
(* numbers: the bookkeeping of Exec, Join and Exit stays consistent, and   *)
(* Join returns only when the process it names has finished.               *)
(***************************************************************************)
EXTENDS Processes, ThreadKernelProofs

-----------------------------------------------------------------------------
(***************************************************************************)
(* The loop of Finish                                                      *)
(***************************************************************************)

\* The state of the loop after i passes over a list of n elements: t is gone, or
\* nothing is and t is among the elements the loop has not seen.
Sweeping(q, i, n, t, elements) ==
  /\ q \in Seq(Threads) /\ IsInjective(q)
  /\ Range(q) \ {t} = elements \ {t}
  /\ t \in Range(q) => Len(q) = n /\ \E j \in 1 .. (n - i) : q[j] = t

\* One pass keeps it.
LEMMA PassSweeps ==
  ASSUME NEW n \in Nat, NEW i \in 0 .. (n - 1), NEW t \in Threads, NEW elements,
         NEW q, Sweeping(q, i, n, t, elements)
  PROVE  Sweeping(SweepPass(q, i, t, 0), i + 1, n, t, elements)
  <1> DEFINE p == SweepPass(q, i, t, 0)
  <1>1. q \in Seq(Threads) /\ IsInjective(q) /\ Len(q) \in Nat
    BY DEF Sweeping
  <1>2. CASE i >= Len(q)
    <2>1. p = q /\ t \notin Range(q)
      BY <1>1, <1>2 DEF SweepPass, Sweeping
    <2> QED
      BY <2>1, Zenon DEF Sweeping
  <1>3. CASE i < Len(q)
    <2>1. q # <<>>
      BY <1>1, <1>3
    <2>2. /\ Head(q) \in Threads /\ Head(q) \in Range(q)
          /\ Tail(q) \in Seq(Threads) /\ IsInjective(Tail(q))
          /\ Range(Tail(q)) = Range(q) \ {Head(q)}
      BY <1>1, <2>1, RangeTail, Zenon
    <2>3. CASE Head(q) = t
      <3>1. p = Tail(q)
        BY <1>1, <1>3, <2>3 DEF SweepPass
      <3> QED
        BY <2>2, <2>3, <3>1, Zenon DEF Sweeping
    <2>4. CASE Head(q) # t
      <3>1. p = Append(Tail(q), Head(q))
        BY <1>1, <1>3, <2>4 DEF SweepPass
      <3>2. /\ p \in Seq(Threads) /\ IsInjective(p)
            /\ Range(p) = Range(q)
        <4> DEFINE x == Head(q)
                   r == Tail(q)
        <4>1. /\ x \in Threads /\ x \in Range(q) /\ x \notin Range(r)
              /\ r \in Seq(Threads) /\ IsInjective(r)
              /\ Range(r) = Range(q) \ {x}
          BY <2>2, Zenon
        <4>2. p = Append(r, x)
          BY <3>1, Zenon
        <4> HIDE DEF p, x, r
        <4>3. Append(r, x) \in Seq(Threads) /\ Range(Append(r, x)) = Range(r) \cup {x}
          BY <4>1, RangeAppend
        <4>4. IsInjective(Append(r, x))
          BY <4>1, InjectiveAppend, Zenon
        <4> QED
          BY <4>1, <4>2, <4>3, <4>4, Zenon
      <3>3. ASSUME t \in Range(p) PROVE Len(p) = n /\ \E j \in 1 .. (n - (i + 1)) : p[j] = t
        <4>1. PICK j \in 1 .. (n - i) : q[j] = t
          BY <3>2, <3>3, Zenon DEF Sweeping
        <4>2. Len(q) = n
          BY <3>2, <3>3, Zenon DEF Sweeping
        <4>3. Head(q) = q[1] /\ Len(Tail(q)) = Len(q) - 1
              /\ \A k \in 1 .. Len(q) - 1 : Tail(q)[k] = q[k + 1]
          BY <1>1, <2>1
        <4>4. Len(p) = n /\ \A k \in 1 .. Len(q) - 1 : p[k] = Tail(q)[k]
          BY <1>1, <2>2, <3>1, <4>2, <4>3
        <4>5. j - 1 \in 1 .. (n - (i + 1)) /\ p[j - 1] = t
          BY <2>4, <4>1, <4>2, <4>3, <4>4
        <4> QED
          BY <4>4, <4>5, Zenon
      <3> QED
        BY <3>2, <3>3, Zenon DEF Sweeping
    <2> QED
      BY <2>3, <2>4, Zenon
  <1> QED
    BY <1>1, <1>2, <1>3

\* The loop drops exactly its own entry, although its bound shrinks while it runs.
LEMMA SweptRemoves ==
  ASSUME NEW list \in Seq(Threads), IsInjective(list), NEW t \in Threads
  PROVE  /\ Swept(list, t) \in Seq(Threads)
         /\ IsInjective(Swept(list, t))
         /\ Range(Swept(list, t)) = Range(list) \ {t}
  <1> DEFINE n == Len(list)
             h == [i \in 1 .. n |-> [q \in Seq(Threads) |-> SweepPass(q, i - 1, t, 0)]]
             IsPass(f) == f = [i \in 0 .. n |-> IF i = 0 THEN list
                                               ELSE SweepPass(f[i - 1], i - 1, t, 0)]
             pass == CHOOSE f : IsPass(f)
  <1>1. n \in Nat
    OBVIOUS
  <1>2. Swept(list, t) = pass[n]
    BY Zenon DEF Swept
  <1>3. IsPass(pass)
    <2>1. ASSUME NEW i \in 1 .. n, NEW q \in Seq(Threads)
          PROVE  SweepPass(q, i - 1, t, 0) \in Seq(Threads)
      <3>1. CASE i - 1 >= Len(q)
        BY <3>1 DEF SweepPass
      <3>2. CASE i - 1 < Len(q)
        <4>1. q # <<>>
          BY <1>1, <3>2
        <4>2. Tail(q) \in Seq(Threads) /\ Head(q) \in Threads
          BY <4>1
        <4> QED
          BY <3>2, <4>2 DEF SweepPass
      <3> QED
        BY <1>1, <3>1, <3>2
    <2>2. h \in [1 .. n -> [Seq(Threads) -> Seq(Threads)]]
      BY <2>1, Zenon
    <2>3. PICK f \in [0 .. n -> Seq(Threads)] :
            f[0] = list /\ \A i \in 1 .. n : f[i] = h[i][f[i - 1]]
      <3>1. h \in Steps(n, Seq(Threads))
        BY <2>2, Zenon DEF Steps
      <3> HIDE DEF h, n
      <3>2. \E f : Computes(f, n, Seq(Threads), list, h)
        BY <1>1, <3>1, Recursion, Zenon
      <3> QED
        BY <3>2, Zenon DEF Computes
    <2>4. \A i \in 1 .. n : f[i] = SweepPass(f[i - 1], i - 1, t, 0)
      <3>1. \A i \in 1 .. n : f[i - 1] \in Seq(Threads)
        BY <1>1, <2>3
      <3> QED
        BY <2>3, <3>1, Zenon
    <2>5. IsPass(f)
      <3>1. \A i \in 0 .. n : f[i] = IF i = 0 THEN list ELSE SweepPass(f[i - 1], i - 1, t, 0)
        BY <1>1, <2>3, <2>4
      <3> QED
        BY <2>3, <3>1, Zenon
    <2> HIDE DEF IsPass
    <2> QED
      BY <2>5, Zenon
  <1> HIDE DEF pass, n
  <1>4. pass[0] = list /\ \A i \in 1 .. n : pass[i] = SweepPass(pass[i - 1], i - 1, t, 0)
    BY <1>1, <1>3
  <1> DEFINE T == {i \in 0 .. n : Sweeping(pass[i], i, n, t, Range(list))}
  <1>5. 0 \in T
    BY <1>1, <1>4 DEF Sweeping, Range, n
  <1>6. ASSUME NEW m \in 0 .. (n - 1), m \in T PROVE m + 1 \in T
    <2>1. pass[m + 1] = SweepPass(pass[m], m, t, 0)
      BY <1>1, <1>4
    <2> QED
      BY <1>1, <1>6, <2>1, PassSweeps
  <1>7. n \in T
    <2> HIDE DEF T
    <2>1. 0 .. n \subseteq T
      BY <1>1, <1>5, <1>6, SetInduction, Zenon
    <2> QED
      BY <1>1, <2>1
  <1>8. t \notin Range(pass[n])
    BY <1>1, <1>7 DEF Sweeping
  <1> QED
    BY <1>2, <1>7, <1>8, Zenon DEF Sweeping

-----------------------------------------------------------------------------
(***************************************************************************)
(* The inductive invariant                                                 *)
(***************************************************************************)

\* Types, of the thread system and of the fields Exec and Join add.
ProcTypeOK ==
  /\ TypeOK
  /\ ID \in [Threads -> Nat]
  /\ parent \in [Threads -> Threads \cup {NULL}]
  /\ isJoined \in [Threads -> BOOLEAN]
  /\ activeThreads \in Seq(Threads)
  /\ threadID \in Nat \ {0}
  /\ fresh \subseteq Threads
  /\ joinTarget \in [Threads -> Int]
  /\ displaced \subseteq Threads

\* Nothing of the userprog build uses a semaphore or a device here.
NoSemaphores ==
  /\ inP = [t \in Threads |-> NULL]
  /\ queue = [s \in Sems |-> <<>>]
  /\ pending = {}
  /\ cpu # "idle"

\* Where each thread continues, by its status; the threads that have not reached
\* processCreator; and the carcass, which is there only until a thread that was
\* dispatched before, or processCreator, takes over.
Stacks ==
  /\ \A t \in Threads :
       /\ status[t] # "JUST_CREATED"
       /\ status[t] = "FREE" <=> context[t] = "none"
       /\ status[t] = "READY" => context[t] \in {"root", "yield", "join"}
       /\ status[t] = "RUNNING" => context[t] \in {"code", "join"}
       /\ status[t] = "BLOCKED" => context[t] \in {"join", "finished"}
       /\ context[t] = "root" => t \in fresh
       /\ t \in fresh => context[t] \in {"root", "yield", "code"}
       /\ context[t] = "finished" => status[t] = "BLOCKED" /\ t = threadToBeDestroyed
  /\ cpu \in {"thread", "tick"} => context[currentThread] = "code"
  /\ cpu = "resume" => context[currentThread] = "join"
  /\ threadToBeDestroyed # NULL =>
       /\ context[threadToBeDestroyed] = "finished"
       /\ threadToBeDestroyed = currentThread \/ currentThread \in fresh

\* While the machine runs, a thread is in one place (see OnePlace; no semaphore
\* has a queue here).
InOnePlace ==
  /\ IsInjective(readyList)
  /\ \A t \in Threads :
       /\ status[t] = "RUNNING" <=> t = currentThread /\ ~Asleep
       /\ status[t] = "READY" <=> t \in Range(readyList)

\* Process numbers are given out once.
Numbers == \A t \in Threads : ID[t] < threadID

\* The parent of a live process sleeps in a Join of that process.
TargetIsChild ==
  \A c \in Threads : Alive(c) /\ parent[c] # NULL =>
    ID[c] # 0 /\ joinTarget[parent[c]] = ID[c]

\* The threads, as the scheduler sees them.
ThreadsOK == ProcTypeOK /\ NoSemaphores /\ Stacks /\ (cpu # "halted" => InOnePlace)

\* The processes, as Exec, Join and Exit see them.
ProcessesOK == Numbers /\ ActiveIsAlive /\ JoinersAreParents /\ TargetIsChild

ProcInv == ThreadsOK /\ ProcessesOK

\* A step that creates, ends and wakes no process.
SameProcesses ==
  \A t \in Threads : (Alive(t)' <=> Alive(t)) /\ (InJoin(t)' <=> InJoin(t))

LEMMA ProcInitOK ==
  ASSUME ProcInit
  PROVE  ProcInv
  <1> USE KernelAssumption
  <1>1. <<>> \in Seq(Threads) /\ IsInjective(<<>>) /\ Range(<<>>) = {}
    BY DEF IsInjective, Range
  <1>2. ProcTypeOK
    <2>1. TypeOK
      BY <1>1, Zenon DEF ProcInit, Init, TypeOK, Statuses, Contexts, CpuStates
    <2> QED
      BY <1>1, <2>1 DEF ProcInit, ProcTypeOK
  <1>3. NoSemaphores /\ Stacks
    BY Zenon DEF ProcInit, Init, NoSemaphores, Stacks
  <1>4. InOnePlace
    BY <1>1, Zenon DEF ProcInit, Init, InOnePlace, Asleep
  <1>5. Numbers /\ ActiveIsAlive
    BY <1>1 DEF ProcInit, Init, Numbers, ActiveIsAlive
  <1>6. JoinersAreParents /\ TargetIsChild
    BY Zenon DEF ProcInit, Init, JoinersAreParents, TargetIsChild, InJoin
  <1> QED
    BY <1>2, <1>3, <1>4, <1>5, <1>6, Zenon DEF ProcInv, ThreadsOK, ProcessesOK

-----------------------------------------------------------------------------
(***************************************************************************)
(* The kernel's steps under a process                                      *)
(***************************************************************************)

\* A step that leaves the processes alone leaves their bookkeeping right.
LEMMA ProcessesStay ==
  ASSUME ProcTypeOK, ProcessesOK, SameProcesses,
         UNCHANGED <<ID, parent, isJoined, activeThreads, threadID, joinTarget, displaced>>
  PROVE  ProcessesOK'
  <1>1. /\ ID' = ID /\ parent' = parent /\ isJoined' = isJoined
        /\ activeThreads' = activeThreads /\ threadID' = threadID
        /\ joinTarget' = joinTarget /\ displaced' = displaced
    BY Zenon
  <1>2. Numbers' /\ ActiveIsAlive'
    BY <1>1, Zenon DEF ProcessesOK, SameProcesses, Numbers, ActiveIsAlive
  <1>3. TargetIsChild'
    BY <1>1, Zenon DEF ProcessesOK, SameProcesses, TargetIsChild
  <1>4. JoinersAreParents'
    <2>1. ASSUME NEW c \in Threads, Alive(c)', parent'[c] # NULL
          PROVE  /\ InJoin(parent[c])'
                 /\ \A d \in Threads : Alive(d)' /\ parent'[d] = parent'[c] => d = c
      <3>1. parent[c] \in Threads
        BY <1>1, <2>1, Zenon DEF ProcTypeOK
      <3> QED
        BY <1>1, <2>1, <3>1, Zenon DEF ProcessesOK, SameProcesses, JoinersAreParents
    <2>2. ASSUME NEW t \in Threads, InJoin(t)', t \notin displaced'
          PROVE  \E c \in Threads : Alive(c)' /\ ID'[c] = joinTarget'[t] /\ parent'[c] = t
      BY <1>1, <2>2 DEF ProcessesOK, SameProcesses, JoinersAreParents
    <2>3. \A t \in Threads : isJoined'[t] <=> Alive(t)' /\ InJoin(t)'
      BY <1>1 DEF ProcessesOK, SameProcesses, JoinersAreParents
    <2> QED
      BY <2>1, <2>2, <2>3, Zenon DEF JoinersAreParents
  <1> QED
    BY <1>2, <1>3, <1>4, Zenon DEF ProcessesOK

\* The state Scheduler::Run is called in, as BeforeSwitch has it without Join: the
\* processes that exist and those asleep in Join are the ones before the step.
BeforeProcSwitch(next, rl, st, ctx) ==
  /\ next \in Threads /\ rl \in Seq(Threads)
  /\ st \in [Threads -> Statuses] /\ ctx \in [Threads -> Contexts]
  /\ IsInjective(rl)
  /\ st[next] = "READY" /\ next \notin Range(rl)
  /\ \A t \in Threads :
       /\ st[t] \notin {"RUNNING", "JUST_CREATED"}
       /\ t # next => (st[t] = "READY" <=> t \in Range(rl))
       /\ st[t] = "FREE" <=> ctx[t] = "none"
       /\ st[t] = "READY" => ctx[t] \in {"root", "yield", "join"}
       /\ st[t] = "BLOCKED" => ctx[t] \in {"join", "finished"}
       /\ ctx[t] = "root" => t \in fresh
       /\ t \in fresh => ctx[t] \in {"root", "yield"}
       /\ ctx[t] = "finished" => st[t] = "BLOCKED" /\ t = threadToBeDestroyed
       /\ Alive(t) <=> st[t] # "FREE" /\ ctx[t] # "finished"
       /\ InJoin(t) <=> st[t] = "BLOCKED" /\ ctx[t] = "join"
  /\ threadToBeDestroyed # NULL => ctx[threadToBeDestroyed] = "finished"

\* Run keeps the bookkeeping, and the carcass it deletes is of no process.
LEMMA ProcRun ==
  ASSUME ProcTypeOK, NoSemaphores, yieldOnReturn' \in BOOLEAN, UNCHANGED procVars,
         NEW next, NEW rl, NEW st, NEW ctx,
         BeforeProcSwitch(next, rl, st, ctx), Run(next, rl, st, ctx)
  PROVE  ThreadsOK' /\ SameProcesses
  <1> DEFINE corpse == IF ctx[next] = "root" THEN NULL ELSE threadToBeDestroyed
  <1> USE KernelAssumption
  <1>1. /\ currentThread' = next
        /\ readyList' = rl
        /\ status' = [t \in Threads |-> IF t = corpse THEN "FREE"
                                        ELSE IF t = next THEN "RUNNING" ELSE st[t]]
        /\ context' = [t \in Threads |->
                         IF t = corpse THEN "none"
                         ELSE IF t = next /\ ctx[t] \in {"root", "yield"} THEN "code"
                         ELSE ctx[t]]
        /\ threadToBeDestroyed' = IF corpse = NULL THEN threadToBeDestroyed ELSE NULL
        /\ cpu' = IF ctx[next] \in {"root", "yield"} THEN "tick" ELSE "resume"
        /\ inP' = inP /\ value' = value /\ queue' = queue /\ pending' = pending
    BY Zenon DEF Run, semVars
  <1>2. /\ ID' = ID /\ parent' = parent /\ isJoined' = isJoined
        /\ activeThreads' = activeThreads /\ threadID' = threadID /\ fresh' = fresh
        /\ joinTarget' = joinTarget /\ displaced' = displaced
    BY Zenon DEF procVars
  <1>3. /\ corpse # next
        /\ corpse # NULL => corpse \in Threads /\ st[corpse] = "BLOCKED"
                            /\ ctx[corpse] = "finished" /\ corpse = threadToBeDestroyed
        /\ corpse = NULL => threadToBeDestroyed = NULL \/ ctx[next] = "root"
    BY DEF BeforeProcSwitch, ProcTypeOK, TypeOK
  <1> HIDE DEF corpse
  <1>4. ProcTypeOK'
    BY <1>1, <1>2, <1>3, SMTT(30) DEF ProcTypeOK, TypeOK, BeforeProcSwitch, Statuses, Contexts, CpuStates
  <1>5. NoSemaphores' /\ ~Asleep'
    BY <1>1, Zenon DEF NoSemaphores, Asleep
  <1>6. InOnePlace'
    BY <1>1, <1>3, <1>5, Zenon DEF InOnePlace, BeforeProcSwitch
  <1>7. Stacks'
    <2>1. ASSUME NEW t \in Threads
          PROVE  /\ status'[t] # "JUST_CREATED"
                 /\ status'[t] = "FREE" <=> context'[t] = "none"
                 /\ status'[t] = "READY" => context'[t] \in {"root", "yield", "join"}
                 /\ status'[t] = "RUNNING" => context'[t] \in {"code", "join"}
                 /\ status'[t] = "BLOCKED" => context'[t] \in {"join", "finished"}
                 /\ context'[t] = "root" => t \in fresh'
                 /\ t \in fresh' => context'[t] \in {"root", "yield", "code"}
                 /\ context'[t] = "finished" => status'[t] = "BLOCKED"
                                                /\ t = threadToBeDestroyed'
      BY <1>1, <1>2, <1>3, SMTT(30) DEF BeforeProcSwitch
    <2>2. /\ cpu' \in {"thread", "tick"} => context'[currentThread'] = "code"
          /\ cpu' = "resume" => context'[currentThread'] = "join"
      BY <1>1, <1>3, Zenon DEF BeforeProcSwitch
    <2>3. threadToBeDestroyed' # NULL =>
            /\ context'[threadToBeDestroyed'] = "finished"
            /\ threadToBeDestroyed' = currentThread' \/ currentThread' \in fresh'
      BY <1>1, <1>2, <1>3, Zenon DEF BeforeProcSwitch, ProcTypeOK, TypeOK
    <2> QED
      BY <2>1, <2>2, <2>3, Zenon DEF Stacks
  <1>8. SameProcesses
    BY <1>1, <1>3 DEF SameProcesses, BeforeProcSwitch, Alive, InJoin
  <1> QED
    BY <1>4, <1>5, <1>6, <1>7, <1>8, Zenon DEF ThreadsOK

\* Thread::Yield, called by SC_Yield or by OneTick.
LEMMA ProcYield ==
  ASSUME ThreadsOK, cpu \in {"thread", "tick"}, YieldBody, yieldOnReturn' \in BOOLEAN,
         UNCHANGED procVars
  PROVE  ThreadsOK' /\ SameProcesses
  <1> USE KernelAssumption
  <1>1. CASE readyList = <<>>
    <2>1. /\ cpu' = "tick"
          /\ currentThread' = currentThread /\ status' = status /\ context' = context
          /\ inP' = inP /\ readyList' = readyList /\ value' = value /\ queue' = queue
          /\ threadToBeDestroyed' = threadToBeDestroyed /\ pending' = pending
          /\ ID' = ID /\ parent' = parent /\ isJoined' = isJoined
          /\ activeThreads' = activeThreads /\ threadID' = threadID /\ fresh' = fresh
          /\ joinTarget' = joinTarget /\ displaced' = displaced
      BY <1>1, Zenon DEF YieldBody, threadVars, semVars, procVars, Run
    <2> QED
      BY <2>1, Zenon DEF ThreadsOK, ProcTypeOK, TypeOK, CpuStates, NoSemaphores, Stacks,
                  InOnePlace, Asleep, SameProcesses, Alive, InJoin
  <1>2. CASE readyList # <<>>
    <2> DEFINE next == Head(readyList)
               tail == Tail(readyList)
               rl == Append(Tail(readyList), currentThread)
               st == [status EXCEPT ![currentThread] = "READY"]
               ctx == [context EXCEPT ![currentThread] = "yield"]
    <2>1. /\ next \in Threads /\ next \in Range(readyList)
          /\ tail \in Seq(Threads) /\ IsInjective(tail)
          /\ Range(tail) = Range(readyList) \ {next}
      BY <1>2, RangeTail, Zenon DEF ThreadsOK, ProcTypeOK, TypeOK, InOnePlace
    <2>2. /\ currentThread \in Threads /\ status[currentThread] = "RUNNING"
          /\ context[currentThread] = "code" /\ currentThread \notin Range(readyList)
      BY Zenon DEF ThreadsOK, ProcTypeOK, TypeOK, InOnePlace, Asleep, Stacks
    <2>3. rl = Append(tail, currentThread)
      BY Zenon
    <2>4. Run(next, rl, st, ctx)
      BY <1>2, Zenon DEF YieldBody, Enqueued
    <2> HIDE DEF next, tail, rl
    <2>5. rl \in Seq(Threads) /\ Range(rl) = Range(tail) \cup {currentThread}
      BY <2>1, <2>2, <2>3, RangeAppend, SMTT(30)
    <2>6. IsInjective(rl)
      BY <2>1, <2>2, <2>3, InjectiveAppend, Zenon
    <2>7. BeforeProcSwitch(next, rl, st, ctx)
      BY <2>1, <2>2, <2>5, <2>6, SMTT(30)
         DEF BeforeProcSwitch, ThreadsOK, ProcTypeOK, TypeOK, InOnePlace, Stacks,
             Asleep, Statuses, Contexts, Alive, InJoin
    <2> HIDE DEF st, ctx
    <2> QED
      BY <2>4, <2>7, ProcRun, Zenon DEF ThreadsOK
  <1> QED
    BY <1>1, <1>2, Zenon

\* The end of Thread::Sleep.
LEMMA ProcDispatch ==
  ASSUME ThreadsOK, SleepDispatch, UNCHANGED procVars
  PROVE  ThreadsOK' /\ SameProcesses
  <1> DEFINE next == Head(readyList)
             tail == Tail(readyList)
  <1>1. /\ next \in Threads /\ next \in Range(readyList)
        /\ tail \in Seq(Threads) /\ IsInjective(tail)
        /\ Range(tail) = Range(readyList) \ {next}
    BY RangeTail, Zenon DEF SleepDispatch, ThreadsOK, ProcTypeOK, TypeOK, InOnePlace
  <1>2. cpu = "sleep" /\ Run(next, tail, status, context) /\ yieldOnReturn' = yieldOnReturn
    BY Zenon DEF SleepDispatch
  <1> HIDE DEF next, tail
  <1>3. BeforeProcSwitch(next, tail, status, context)
    BY <1>1, <1>2, KernelAssumption
       DEF BeforeProcSwitch, ThreadsOK, ProcTypeOK, TypeOK, InOnePlace, Stacks,
           Asleep, Statuses, Alive, InJoin
  <1>4. yieldOnReturn' \in BOOLEAN
    BY <1>2, Zenon DEF ThreadsOK, ProcTypeOK, TypeOK
  <1> QED
    BY <1>2, <1>3, <1>4, ProcRun, Zenon DEF ThreadsOK

\* A step that moves only the processor, and the deferred yield, within the code of
\* one thread.
LEMMA ProcessorMoves ==
  ASSUME ThreadsOK, yieldOnReturn' \in BOOLEAN, UNCHANGED procVars,
         UNCHANGED <<currentThread, threadVars, readyList, semVars,
                     threadToBeDestroyed, pending>>,
         \/ cpu \in {"thread", "tick"} /\ cpu' \in {"thread", "tick", "halted"}
         \/ cpu = "sleep" /\ cpu' \in {"sleep", "halted"}
         \/ cpu' = cpu
  PROVE  ThreadsOK' /\ SameProcesses
  <1>1. /\ currentThread' = currentThread /\ status' = status /\ context' = context
        /\ inP' = inP /\ readyList' = readyList /\ value' = value /\ queue' = queue
        /\ threadToBeDestroyed' = threadToBeDestroyed /\ pending' = pending
        /\ ID' = ID /\ parent' = parent /\ isJoined' = isJoined
        /\ activeThreads' = activeThreads /\ threadID' = threadID /\ fresh' = fresh
        /\ joinTarget' = joinTarget /\ displaced' = displaced
    BY Zenon DEF threadVars, semVars, procVars
  <1>2. ProcTypeOK' /\ NoSemaphores'
    BY <1>1, Zenon DEF ThreadsOK, ProcTypeOK, TypeOK, CpuStates, NoSemaphores
  <1>3. Stacks' /\ SameProcesses
    BY <1>1 DEF ThreadsOK, Stacks, SameProcesses, Alive, InJoin
  <1>4. cpu' # "halted" => InOnePlace'
    BY <1>1, Zenon DEF ThreadsOK, InOnePlace, Asleep
  <1> QED
    BY <1>2, <1>3, <1>4, Zenon DEF ThreadsOK

\* SC_Yield and the kernel's own steps.
LEMMA KernelKeeps ==
  ASSUME ThreadsOK, Kernel
  PROVE  ThreadsOK' /\ SameProcesses /\ UNCHANGED procVars
  <1>1. UNCHANGED procVars /\ yieldOnReturn \in BOOLEAN /\ cpu # "idle" /\ pending = {}
    BY Zenon DEF Kernel, ThreadsOK, ProcTypeOK, TypeOK, NoSemaphores
  <1>2. CASE Yield
    <2>1. yieldOnReturn' \in BOOLEAN /\ cpu \in {"thread", "tick"} /\ YieldBody
      BY <1>1, <1>2, Zenon DEF Yield
    <2> QED
      BY <1>1, <2>1, ProcYield, Zenon
  <1>3. CASE TimerInterrupt
    <2>1. /\ UNCHANGED <<currentThread, threadVars, readyList, semVars,
                         threadToBeDestroyed, pending>>
          /\ yieldOnReturn' \in BOOLEAN /\ cpu' = cpu
      BY <1>1, <1>3, Zenon DEF TimerInterrupt, CanFire, IdleFires
    <2> QED
      BY <1>1, <2>1, ProcessorMoves, Zenon
  <1>4. CASE SleepDispatch
    BY <1>1, <1>4, ProcDispatch, Zenon
  <1>5. CASE TickReturns
    <2>1. CASE yieldOnReturn
      BY <1>1, <1>5, <2>1, ProcYield, Zenon DEF TickReturns
    <2>2. CASE ~yieldOnReturn
      BY <1>1, <1>5, <2>2, ProcessorMoves, Zenon DEF TickReturns
    <2> QED
      BY <2>1, <2>2, Zenon
  <1>6. CASE Halt
    BY <1>1, <1>6, ProcessorMoves, Zenon DEF Halt
  <1>7. CASE Halted
    BY <1>1, <1>7, ProcessorMoves, Zenon DEF Halted, vars
  <1> QED
    BY <1>2, <1>3, <1>4, <1>5, <1>6, <1>7, Zenon DEF Kernel

\* A user instruction, a system call that fails, and SC_Halt.
LEMMA UserKeeps ==
  ASSUME ThreadsOK, UserStep \/ HaltCall \/ \E n \in IDs : JoinContinues(n)
  PROVE  ThreadsOK' /\ SameProcesses /\ UNCHANGED procVars
  <1>1. /\ UNCHANGED procVars /\ yieldOnReturn' = yieldOnReturn
        /\ cpu = "thread" /\ cpu' \in {"tick", "halted"}
        /\ UNCHANGED <<currentThread, threadVars, readyList, semVars,
                       threadToBeDestroyed, pending>>
    BY Zenon DEF UserStep, HaltCall, JoinContinues, InUser, procVars
  <1>2. yieldOnReturn' \in BOOLEAN
    BY <1>1, Zenon DEF ThreadsOK, ProcTypeOK, TypeOK
  <1> QED
    BY <1>1, <1>2, ProcessorMoves, Zenon

\* A thread in its user program has had the carcass removed: whoever was dispatched
\* after a Finish has been through Run or through processCreator since.
LEMMA NoCarcass ==
  ASSUME ThreadsOK, InUser \/ cpu = "resume"
  PROVE  /\ threadToBeDestroyed = NULL
         /\ currentThread \in Threads /\ status[currentThread] = "RUNNING"
         /\ currentThread \notin fresh
         /\ currentThread \notin Range(readyList)
         /\ \A t \in Threads : context[t] # "finished"
  <1>1. /\ currentThread \in Threads /\ status[currentThread] = "RUNNING"
        /\ currentThread \notin Range(readyList) /\ currentThread \notin fresh
        /\ context[currentThread] \in {"code", "join"}
    BY Zenon DEF InUser, ThreadsOK, ProcTypeOK, TypeOK, InOnePlace, Asleep, Stacks
  <1>2. threadToBeDestroyed = NULL
    BY <1>1, Zenon DEF ThreadsOK, Stacks
  <1> QED
    BY <1>1, <1>2, KernelAssumption, Zenon DEF ThreadsOK, Stacks

\* processCreator.
LEMMA ProcessCreatorKeeps ==
  ASSUME ProcInv, ProcessCreator
  PROVE  ProcInv' /\ SameProcesses
  <1> USE KernelAssumption
  <1> DEFINE me == currentThread
             carcass == threadToBeDestroyed
  <1>1. /\ cpu = "thread" /\ me \in fresh
        /\ fresh' = fresh \ {me}
        /\ status' = [t \in Threads |-> IF t = carcass THEN "FREE" ELSE status[t]]
        /\ context' = [t \in Threads |-> IF t = carcass THEN "none" ELSE context[t]]
        /\ threadToBeDestroyed' = NULL
        /\ currentThread' = me /\ inP' = inP /\ readyList' = readyList
        /\ value' = value /\ queue' = queue /\ cpu' = cpu
        /\ yieldOnReturn' = yieldOnReturn /\ pending' = pending
        /\ ID' = ID /\ parent' = parent /\ isJoined' = isJoined
        /\ activeThreads' = activeThreads /\ threadID' = threadID
        /\ joinTarget' = joinTarget /\ displaced' = displaced
    BY Zenon DEF ProcessCreator, ProcessCreatorDeletes, semVars
  <1>2. /\ me \in Threads /\ status[me] = "RUNNING" /\ context[me] = "code"
        /\ carcass # me
        /\ carcass # NULL => /\ carcass \in Threads /\ status[carcass] = "BLOCKED"
                             /\ context[carcass] = "finished"
    BY <1>1, Zenon DEF ProcInv, ThreadsOK, ProcTypeOK, TypeOK, InOnePlace, Asleep, Stacks
  <1> HIDE DEF me, carcass
  <1>3. ProcTypeOK' /\ NoSemaphores'
    BY <1>1, <1>2, Zenon DEF ProcInv, ThreadsOK, ProcTypeOK, TypeOK, Statuses, Contexts, NoSemaphores
  <1>4. InOnePlace'
    BY <1>1, <1>2, Zenon DEF ProcInv, ThreadsOK, InOnePlace, Asleep, me
  <1>5. Stacks'
    BY <1>1, <1>2, SMTT(30) DEF ProcInv, ThreadsOK, Stacks, me, carcass
  <1>6. SameProcesses
    BY <1>1, <1>2, Zenon DEF SameProcesses, Alive, InJoin
  <1>7. ProcessesOK'
    BY <1>1, <1>6, ProcessesStay, Zenon DEF ProcInv, ThreadsOK
  <1> QED
    BY <1>3, <1>4, <1>5, <1>6, <1>7, Zenon DEF ProcInv, ThreadsOK

-----------------------------------------------------------------------------
(***************************************************************************)
(* Exec, Join and Exit                                                     *)
(***************************************************************************)

\* SC_Exec.
LEMMA ExecKeeps ==
  ASSUME ProcInv, NEW u \in Threads, Exec(u)
  PROVE  ProcInv' /\ \A t \in Threads : InJoin(t)' <=> InJoin(t)
  <1> USE KernelAssumption
  <1>1. /\ cpu = "thread" /\ status[u] = "FREE"
        /\ ID' = [ID EXCEPT ![u] = threadID]
        /\ parent' = [parent EXCEPT ![u] = NULL]
        /\ isJoined' = [isJoined EXCEPT ![u] = FALSE]
        /\ activeThreads' = Append(activeThreads, u)
        /\ threadID' = threadID + 1
        /\ fresh' = fresh \cup {u}
        /\ status' = [status EXCEPT ![u] = "READY"]
        /\ context' = [context EXCEPT ![u] = "root"]
        /\ readyList' = Append(readyList, u)
        /\ cpu' = "tick"
        /\ currentThread' = currentThread /\ inP' = inP /\ value' = value /\ queue' = queue
        /\ threadToBeDestroyed' = threadToBeDestroyed
        /\ yieldOnReturn' = yieldOnReturn /\ pending' = pending
        /\ joinTarget' = joinTarget /\ displaced' = displaced
    BY Zenon DEF Exec, ExecAs, Enqueued, InUser, semVars
  <1>2. /\ threadToBeDestroyed = NULL /\ context[u] = "none"
        /\ currentThread \in Threads /\ status[currentThread] = "RUNNING"
        /\ \A t \in Threads : context[t] # "finished"
    BY <1>1, NoCarcass, Zenon DEF Exec, ExecAs, ProcInv, ThreadsOK, Stacks
  <1>3. u # currentThread /\ u \notin Range(readyList) /\ ~Alive(u) /\ ~InJoin(u)
    BY <1>1, <1>2, Zenon DEF ProcInv, ThreadsOK, InOnePlace, Alive, InJoin
  <1>4. /\ readyList' \in Seq(Threads) /\ Range(readyList') = Range(readyList) \cup {u}
        /\ IsInjective(readyList')
    BY <1>1, <1>3, RangeAppend, InjectiveAppend
       DEF ProcInv, ThreadsOK, ProcTypeOK, TypeOK, InOnePlace
  <1>5. u \notin Range(activeThreads)
    BY <1>3, Zenon DEF ProcInv, ProcessesOK, ActiveIsAlive
  <1>6. /\ activeThreads' \in Seq(Threads)
        /\ Range(activeThreads') = Range(activeThreads) \cup {u}
        /\ IsInjective(activeThreads')
    BY <1>1, <1>5, RangeAppend, InjectiveAppend, SMTT(30)
       DEF ProcInv, ThreadsOK, ProcessesOK, ProcTypeOK, ActiveIsAlive
  <1>7. ProcTypeOK' /\ NoSemaphores'
    <2>1. TypeOK'
      BY <1>1, <1>4, Zenon DEF ProcInv, ThreadsOK, ProcTypeOK, TypeOK, Statuses, Contexts, CpuStates
    <2>2. threadID \in Nat \ {0} /\ threadID + 1 \in Nat \ {0}
      BY DEF ProcInv, ThreadsOK, ProcTypeOK
    <2>3. /\ ID' \in [Threads -> Nat] /\ parent' \in [Threads -> Threads \cup {NULL}]
          /\ isJoined' \in [Threads -> BOOLEAN]
      BY <1>1, <2>2, Zenon DEF ProcInv, ThreadsOK, ProcTypeOK
    <2>4. fresh' \subseteq Threads
      BY <1>1, Zenon DEF ProcInv, ThreadsOK, ProcTypeOK
    <2>5. ProcTypeOK'
      BY <1>1, <1>6, <2>1, <2>2, <2>3, <2>4, Zenon DEF ProcInv, ThreadsOK, ProcTypeOK
    <2>6. NoSemaphores'
      BY <1>1, Zenon DEF ProcInv, ThreadsOK, NoSemaphores
    <2> QED
      BY <2>5, <2>6, Zenon
  <1>8. InOnePlace'
    BY <1>1, <1>3, <1>4, Zenon DEF ProcInv, ThreadsOK, ProcTypeOK, TypeOK, InOnePlace, Asleep
  <1>9. Stacks'
    BY <1>1, <1>2, <1>3, SMTT(30) DEF ProcInv, ThreadsOK, ProcTypeOK, TypeOK, Stacks
  <1>10. \A t \in Threads : /\ InJoin(t)' <=> InJoin(t)
                            /\ Alive(t)' <=> Alive(t) \/ t = u
    BY <1>1, <1>3, Zenon DEF Alive, InJoin, ProcInv, ThreadsOK, ProcTypeOK, TypeOK
  <1>11. Numbers' /\ ActiveIsAlive'
    BY <1>1, <1>6, <1>10, SMTT(30) DEF ProcInv, ThreadsOK, ProcTypeOK, ProcessesOK, Numbers,
                             ActiveIsAlive
  <1>12. JoinersAreParents' /\ TargetIsChild'
    <2>1. \A c \in Threads : Alive(c)' /\ parent'[c] # NULL =>
            /\ c # u /\ Alive(c) /\ parent'[c] = parent[c] /\ parent[c] \in Threads
            /\ ID'[c] = ID[c]
      BY <1>1, <1>10, Zenon DEF ProcInv, ThreadsOK, ProcTypeOK
    <2>2. \A c \in Threads : Alive(c)' /\ parent'[c] # NULL =>
            /\ InJoin(parent[c])'
            /\ \A d \in Threads : Alive(d)' /\ parent'[d] = parent'[c] => d = c
      <3>1. \A c \in Threads : Alive(c) /\ parent[c] # NULL =>
              InJoin(parent[c]) /\ \A d \in Threads : Alive(d) /\ parent[d] = parent[c] => d = c
        BY Zenon DEF ProcInv, ProcessesOK, JoinersAreParents
      <3>2. \A c \in Threads : InJoin(c)' <=> InJoin(c)
        BY <1>10, Zenon
      <3>3. ASSUME NEW c \in Threads, Alive(c)', parent'[c] # NULL
            PROVE  InJoin(parent[c])'
        BY <2>1, <3>1, <3>2, <3>3, Zenon
      <3>4. ASSUME NEW c \in Threads, NEW d \in Threads, Alive(c)', parent'[c] # NULL,
                   Alive(d)', parent'[d] = parent'[c]
            PROVE  d = c
        <4>1. parent'[d] # NULL
          BY <3>4, Zenon
        <4>2. Alive(c) /\ parent'[c] = parent[c]
          BY <2>1, <3>4, Zenon
        <4>3. Alive(d) /\ parent'[d] = parent[d]
          BY <2>1, <3>4, <4>1, Zenon
        <4>4. parent[c] # NULL /\ parent[d] = parent[c]
          BY <3>4, <4>2, <4>3, Zenon
        <4> QED
          BY <3>1, <4>2, <4>3, <4>4, Zenon
      <3> QED
        BY <3>3, <3>4, Zenon
    <2>3. ASSUME NEW t \in Threads, InJoin(t)', t \notin displaced'
          PROVE  \E c \in Threads : Alive(c)' /\ ID'[c] = joinTarget'[t] /\ parent'[c] = t
      <3>1. PICK c \in Threads : Alive(c) /\ ID[c] = joinTarget[t] /\ parent[c] = t
        BY <1>1, <1>10, <2>3, Zenon DEF ProcInv, ProcessesOK, JoinersAreParents
      <3> QED
        BY <1>1, <1>3, <1>10, <3>1, Zenon DEF ProcInv, ThreadsOK, ProcTypeOK
    <2>4. \A t \in Threads : isJoined'[t] <=> Alive(t)' /\ InJoin(t)'
      <3> SUFFICES ASSUME NEW t \in Threads
                   PROVE  isJoined'[t] <=> Alive(t)' /\ InJoin(t)'
        OBVIOUS
      <3>1. isJoined[t] <=> Alive(t) /\ InJoin(t)
        BY Zenon DEF ProcInv, ProcessesOK, JoinersAreParents
      <3> QED
        BY <1>1, <1>3, <1>10, <3>1, SMTT(30) DEF ProcInv, ThreadsOK, ProcTypeOK
    <2>5. TargetIsChild'
      BY <1>1, <2>1 DEF ProcInv, ProcessesOK, TargetIsChild
    <2> QED
      BY <2>2, <2>3, <2>4, <2>5, Zenon DEF JoinersAreParents
  <1> QED
    BY <1>7, <1>8, <1>9, <1>10, <1>11, <1>12, Zenon DEF ProcInv, ThreadsOK, ProcessesOK

\* getID finds a live process with the number, and never the first one.
LEMMA GetIDFinds ==
  ASSUME ProcInv, NEW n, GetID(n) # NULL
  PROVE  GetID(n) \in Threads /\ Alive(GetID(n)) /\ ID[GetID(n)] = n /\ n # 0
  <1>1. PICK t \in Range(activeThreads) : ID[t] = n
    BY Zenon DEF GetID
  <1>2. GetID(n) \in Range(activeThreads) /\ ID[GetID(n)] = n
    BY <1>1, Zenon DEF GetID
  <1> QED
    BY <1>2, Zenon DEF ProcInv, ProcessesOK, ActiveIsAlive

\* SC_Join, going to sleep.
LEMMA JoinSleepsKeeps ==
  ASSUME ProcInv, NEW n \in IDs, JoinSleeps(n)
  PROVE  ProcInv' /\ \A t \in Threads : InJoin(t) => InJoin(t)'
  <1> USE KernelAssumption
  <1> DEFINE me == currentThread
             child == GetID(n)
  <1>1. /\ n \in Int /\ cpu = "thread"
        /\ parent' = [parent EXCEPT ![child] = me]
        /\ isJoined' = [isJoined EXCEPT ![me] = TRUE]
        /\ joinTarget' = [joinTarget EXCEPT ![me] = n]
        /\ displaced' = displaced \cup ({parent[child]} \ {NULL})
        /\ status' = [status EXCEPT ![me] = "BLOCKED"]
        /\ context' = [context EXCEPT ![me] = "join"]
        /\ cpu' = "sleep"
        /\ currentThread' = me /\ inP' = inP /\ readyList' = readyList
        /\ value' = value /\ queue' = queue
        /\ threadToBeDestroyed' = threadToBeDestroyed
        /\ yieldOnReturn' = yieldOnReturn /\ pending' = pending
        /\ ID' = ID /\ activeThreads' = activeThreads /\ threadID' = threadID
        /\ fresh' = fresh
    BY ProcessAssumption, SMTT(30) DEF JoinSleeps, JoinSleepsAs, InUser, semVars, IDs
  <1>2. /\ child \in Threads /\ Alive(child) /\ ID[child] = n /\ n # 0
    BY GetIDFinds, Zenon DEF JoinSleeps, JoinSleepsAs
  <1>3. /\ threadToBeDestroyed = NULL /\ me \in Threads /\ status[me] = "RUNNING"
        /\ me \notin fresh /\ me \notin Range(readyList)
        /\ \A t \in Threads : context[t] # "finished"
    BY NoCarcass, Zenon DEF JoinSleeps, JoinSleepsAs, ProcInv
  <1> HIDE DEF child
  <1>4. ProcTypeOK' /\ NoSemaphores'
    BY <1>1, <1>2, <1>3, SMTT(30) DEF ProcInv, ThreadsOK, ProcTypeOK, TypeOK, Statuses, Contexts,
                            CpuStates, NoSemaphores
  <1>5. InOnePlace'
    BY <1>1, <1>3, Zenon DEF ProcInv, ThreadsOK, ProcTypeOK, TypeOK, InOnePlace, Asleep
  <1>6. Stacks'
    BY <1>1, <1>3, Zenon DEF ProcInv, ThreadsOK, ProcTypeOK, TypeOK, Stacks
  <1>7. /\ \A t \in Threads : /\ Alive(t)' <=> Alive(t)
                              /\ InJoin(t)' <=> InJoin(t) \/ t = me
        /\ ~InJoin(me) /\ Alive(me)
    BY <1>1, <1>3, Zenon DEF Alive, InJoin, ProcInv, ThreadsOK, ProcTypeOK, TypeOK
  <1>8. Numbers' /\ ActiveIsAlive'
    BY <1>1, <1>7, Zenon DEF ProcInv, ProcessesOK, Numbers, ActiveIsAlive
  <1>9. \A c \in Threads : Alive(c) /\ parent[c] # NULL => parent[c] # me
    BY <1>7 DEF ProcInv, ProcessesOK, JoinersAreParents
  <1>10. \A c \in Threads : parent'[c] = IF c = child THEN me ELSE parent[c]
    BY <1>1, <1>2, Zenon DEF ProcInv, ThreadsOK, ProcTypeOK
  <1>11. \A t \in Threads : joinTarget'[t] = IF t = me THEN n ELSE joinTarget[t]
    BY <1>1, <1>3, Zenon DEF ProcInv, ThreadsOK, ProcTypeOK
  <1>12. ASSUME NEW c \in Threads, Alive(c)', parent'[c] # NULL
         PROVE  /\ InJoin(parent[c])'
                /\ \A d \in Threads : Alive(d)' /\ parent'[d] = parent'[c] => d = c
                /\ ID'[c] # 0 /\ joinTarget'[parent'[c]] = ID'[c]
    <2>1. CASE c = child
      BY <1>1, <1>2, <1>3, <1>7, <1>9, <1>10, <1>11, <2>1, SMTT(30)
    <2>2. CASE c # child
      <3>1. parent'[c] = parent[c] /\ parent[c] \in Threads /\ parent[c] # me /\ Alive(c)
        BY <1>7, <1>9, <1>10, <1>12, <2>2, Zenon DEF ProcInv, ThreadsOK, ProcTypeOK
      <3>2. InJoin(parent[c])'
        BY <1>7, <3>1, Zenon DEF ProcInv, ProcessesOK, JoinersAreParents
      <3>3. \A d \in Threads : Alive(d)' /\ parent'[d] = parent'[c] => d = c
        BY <1>7, <1>10, <1>12, <3>1, SMTT(30) DEF ProcInv, ProcessesOK, JoinersAreParents
      <3>4. ID'[c] # 0 /\ joinTarget'[parent'[c]] = ID'[c]
        BY <1>1, <1>11, <1>12, <3>1, Zenon DEF ProcInv, ProcessesOK, TargetIsChild
      <3> QED
        BY <3>2, <3>3, <3>4, Zenon
    <2> QED
      BY <2>1, <2>2, Zenon
  <1>13. ASSUME NEW t \in Threads, InJoin(t)', t \notin displaced'
         PROVE  \E c \in Threads : Alive(c)' /\ ID'[c] = joinTarget'[t] /\ parent'[c] = t
    <2>1. CASE t = me
      BY <1>1, <1>2, <1>7, <1>10, <1>11, <2>1, Zenon
    <2>2. CASE t # me
      <3>1. PICK c \in Threads : Alive(c) /\ ID[c] = joinTarget[t] /\ parent[c] = t
        BY <1>1, <1>7, <1>13, <2>2, Zenon DEF ProcInv, ProcessesOK, JoinersAreParents
      <3>2. c # child
        BY <1>1, <1>13, <3>1, Zenon
      <3> QED
        BY <1>1, <1>7, <1>10, <1>11, <2>2, <3>1, <3>2, Zenon
    <2> QED
      BY <2>1, <2>2, Zenon
  <1>14. \A t \in Threads : isJoined'[t] <=> Alive(t)' /\ InJoin(t)'
    BY <1>1, <1>3, <1>7, SMTT(30) DEF ProcInv, ThreadsOK, ProcTypeOK, ProcessesOK, JoinersAreParents
  <1>15. JoinersAreParents' /\ TargetIsChild'
    BY <1>12, <1>13, <1>14, Zenon DEF JoinersAreParents, TargetIsChild
  <1> QED
    BY <1>4, <1>5, <1>6, <1>7, <1>8, <1>15, Zenon DEF ProcInv, ThreadsOK, ProcessesOK

\* Join returns into the program.
LEMMA JoinReturnsKeeps ==
  ASSUME ProcInv, JoinReturns
  PROVE  ProcInv' /\ SameProcesses
  <1> USE KernelAssumption
  <1> DEFINE me == currentThread
  <1>1. /\ cpu = "resume" /\ context[me] = "join"
        /\ context' = [context EXCEPT ![me] = "code"]
        /\ joinTarget' = [joinTarget EXCEPT ![me] = -1]
        /\ displaced' = displaced \ {me}
        /\ cpu' = "tick"
        /\ currentThread' = me /\ status' = status /\ inP' = inP /\ readyList' = readyList
        /\ value' = value /\ queue' = queue
        /\ threadToBeDestroyed' = threadToBeDestroyed
        /\ yieldOnReturn' = yieldOnReturn /\ pending' = pending
        /\ ID' = ID /\ parent' = parent /\ isJoined' = isJoined
        /\ activeThreads' = activeThreads /\ threadID' = threadID /\ fresh' = fresh
    BY Zenon DEF JoinReturns, semVars
  <1>2. /\ threadToBeDestroyed = NULL /\ me \in Threads /\ status[me] = "RUNNING"
        /\ \A t \in Threads : context[t] # "finished"
    BY <1>1, NoCarcass, Zenon DEF ProcInv
  <1>3. ProcTypeOK' /\ NoSemaphores'
    BY <1>1, <1>2, SMTT(30) DEF ProcInv, ThreadsOK, ProcTypeOK, TypeOK, Contexts, CpuStates, NoSemaphores
  <1>4. InOnePlace' /\ Stacks'
    BY <1>1, <1>2, Zenon DEF ProcInv, ThreadsOK, ProcTypeOK, TypeOK, InOnePlace, Asleep, Stacks
  <1>5. SameProcesses /\ ~InJoin(me)
    BY <1>1, <1>2, Zenon DEF SameProcesses, Alive, InJoin, ProcInv, ThreadsOK, ProcTypeOK, TypeOK
  <1>6. Numbers' /\ ActiveIsAlive'
    BY <1>1, <1>5, Zenon DEF ProcInv, ProcessesOK, SameProcesses, Numbers, ActiveIsAlive
  <1>7. \A t \in Threads : t # me => joinTarget'[t] = joinTarget[t]
    BY <1>1, Zenon DEF ProcInv, ThreadsOK, ProcTypeOK
  <1>8. ASSUME NEW c \in Threads, Alive(c)', parent'[c] # NULL
        PROVE  /\ InJoin(parent[c])'
               /\ \A d \in Threads : Alive(d)' /\ parent'[d] = parent'[c] => d = c
               /\ ID'[c] # 0 /\ joinTarget'[parent'[c]] = ID'[c]
    <2>1. Alive(c) /\ parent'[c] = parent[c] /\ parent[c] \in Threads
      BY <1>1, <1>5, <1>8, Zenon DEF ProcInv, ThreadsOK, ProcTypeOK, SameProcesses
    <2>2. InJoin(parent[c]) /\ parent[c] # me
      <3>1. InJoin(parent[c])
        BY <1>8, <2>1, Zenon DEF ProcInv, ProcessesOK, JoinersAreParents
      <3> QED
        BY <1>5, <3>1, Zenon
    <2>3. InJoin(parent[c])'
      BY <1>5, <2>1, <2>2, Zenon DEF SameProcesses
    <2>4. \A d \in Threads : Alive(d)' /\ parent'[d] = parent'[c] => d = c
      BY <1>1, <1>5, <1>8, <2>1, Zenon DEF ProcInv, ProcessesOK, JoinersAreParents, SameProcesses
    <2>5. ID'[c] # 0 /\ joinTarget'[parent'[c]] = ID'[c]
      BY <1>1, <1>7, <1>8, <2>1, <2>2, Zenon DEF ProcInv, ProcessesOK, TargetIsChild
    <2> QED
      BY <2>3, <2>4, <2>5, Zenon
  <1>9. ASSUME NEW t \in Threads, InJoin(t)', t \notin displaced'
        PROVE  \E c \in Threads : Alive(c)' /\ ID'[c] = joinTarget'[t] /\ parent'[c] = t
    <2>1. InJoin(t) /\ t # me /\ t \notin displaced
      BY <1>1, <1>5, <1>9, Zenon DEF SameProcesses
    <2>2. PICK c \in Threads : Alive(c) /\ ID[c] = joinTarget[t] /\ parent[c] = t
      BY <2>1, Zenon DEF ProcInv, ProcessesOK, JoinersAreParents
    <2> QED
      BY <1>1, <1>5, <1>7, <2>1, <2>2, Zenon DEF SameProcesses
  <1>10. \A t \in Threads : isJoined'[t] <=> Alive(t)' /\ InJoin(t)'
    BY <1>1, <1>5, Zenon DEF ProcInv, ProcessesOK, JoinersAreParents, SameProcesses
  <1>11. JoinersAreParents' /\ TargetIsChild'
    BY <1>8, <1>9, <1>10, Zenon DEF JoinersAreParents, TargetIsChild
  <1> QED
    BY <1>3, <1>4, <1>5, <1>6, <1>11, Zenon DEF ProcInv, ThreadsOK, ProcessesOK

\* What Exit does to the threads and to the lists: the process is dead, a joined
\* parent is ready, and activeThreads has lost the process.
LEMMA ExitSteps ==
  ASSUME ProcInv, Exit
  PROVE  /\ ThreadsOK' /\ ~Alive(currentThread)' /\ Alive(currentThread)
         /\ currentThread \in Threads
         /\ \A t \in Threads :
              /\ Alive(t)' <=> Alive(t) /\ t # currentThread
              /\ InJoin(t)' <=> InJoin(t) /\ t # parent[currentThread]
              /\ isJoined'[t] <=> isJoined[t] /\ t # parent[currentThread]
         /\ ~InJoin(currentThread)
         /\ IsInjective(activeThreads')
         /\ Range(activeThreads') = Range(activeThreads) \ {currentThread}
         /\ ID' = ID /\ parent' = parent /\ threadID' = threadID
         /\ joinTarget' = joinTarget /\ displaced' = displaced
  <1> USE KernelAssumption
  <1> DEFINE me == currentThread
             p == parent[currentThread]
  <1>1. /\ cpu = "thread"
        /\ threadToBeDestroyed' = me
        /\ activeThreads' = Swept(activeThreads, me)
        /\ context' = [context EXCEPT ![me] = "finished"]
        /\ cpu' = "sleep"
        /\ currentThread' = me /\ inP' = inP /\ value' = value /\ queue' = queue
        /\ yieldOnReturn' = yieldOnReturn /\ pending' = pending
        /\ ID' = ID /\ parent' = parent /\ threadID' = threadID /\ fresh' = fresh
        /\ joinTarget' = joinTarget /\ displaced' = displaced
    BY Zenon DEF Exit, InUser, semVars
  <1>2. /\ threadToBeDestroyed = NULL /\ me \in Threads /\ status[me] = "RUNNING"
        /\ context[me] = "code" /\ me \notin fresh /\ me \notin Range(readyList)
        /\ \A t \in Threads : context[t] # "finished"
    BY <1>1, NoCarcass, Zenon DEF Exit, ProcInv, ThreadsOK, Stacks
  <1>3. Alive(me) /\ ~InJoin(me)
    BY <1>2, Zenon DEF Alive, InJoin
  <1>4. p # NULL => p \in Threads /\ p # me /\ InJoin(p) /\ p \notin Range(readyList)
                    /\ status[p] = "BLOCKED" /\ context[p] = "join"
    <2> SUFFICES ASSUME p # NULL
                 PROVE  /\ p \in Threads /\ p # me /\ InJoin(p) /\ p \notin Range(readyList)
                        /\ status[p] = "BLOCKED" /\ context[p] = "join"
      BY Zenon
    <2>1. p \in Threads
      BY <1>2, Zenon DEF ProcInv, ThreadsOK, ProcTypeOK
    <2>2. InJoin(p)
      BY <1>2, <1>3, Zenon DEF ProcInv, ProcessesOK, JoinersAreParents
    <2>3. status[p] = "BLOCKED" /\ context[p] = "join"
      BY <2>2, Zenon DEF InJoin
    <2>4. \A t \in Threads : t \in Range(readyList) => status[t] = "READY"
      BY <1>1, Zenon DEF ProcInv, ThreadsOK, InOnePlace
    <2> QED
      BY <1>3, <2>1, <2>2, <2>3, <2>4, Zenon
  <1>5. /\ readyList' \in Seq(Threads) /\ IsInjective(readyList')
        /\ Range(readyList') = Range(readyList) \cup (IF p = NULL THEN {} ELSE {p})
    <2>1. readyList \in Seq(Threads) /\ IsInjective(readyList)
      BY <1>1, Zenon DEF ProcInv, ThreadsOK, ProcTypeOK, TypeOK, InOnePlace
    <2>2. CASE p = NULL
      BY <2>1, <2>2, Zenon DEF Exit
    <2>3. CASE p # NULL
      <3>1. readyList' = <<p>> \o readyList
        BY <2>3, Zenon DEF Exit, WakeUpFromJoin
      <3> HIDE DEF p
      <3> QED
        BY <1>4, <2>1, <2>3, <3>1, RangePrepend
    <2> QED
      BY <2>2, <2>3, Zenon
  <1>6. /\ status' \in [Threads -> Statuses]
        /\ \A t \in Threads :
             status'[t] = IF t = me THEN "BLOCKED" ELSE IF t = p THEN "READY" ELSE status[t]
    <2>1. status \in [Threads -> Statuses]
      BY Zenon DEF ProcInv, ThreadsOK, ProcTypeOK, TypeOK
    <2>2. CASE p = NULL
      <3>1. status' = [status EXCEPT ![me] = "BLOCKED"]
        BY <2>2, Zenon DEF Exit
      <3> QED
        BY <1>2, <2>1, <2>2, <3>1, Zenon DEF Statuses
    <2>3. CASE p # NULL
      <3>1. status' = [status EXCEPT ![p] = "READY", ![me] = "BLOCKED"]
        BY <2>3, Zenon DEF Exit, WakeUpFromJoin
      <3> HIDE DEF p
      <3> QED
        BY <1>2, <1>4, <2>1, <2>3, <3>1, Zenon DEF Statuses
    <2> QED
      BY <2>2, <2>3, Zenon
  <1>7. /\ isJoined' \in [Threads -> BOOLEAN]
        /\ \A t \in Threads : isJoined'[t] <=> isJoined[t] /\ t # p
    BY <1>2, <1>4, Zenon DEF Exit, WakeUpFromJoin, ProcInv, ThreadsOK, ProcTypeOK
  <1>8. /\ activeThreads' \in Seq(Threads) /\ IsInjective(activeThreads')
        /\ Range(activeThreads') = Range(activeThreads) \ {me}
    <2>1. activeThreads \in Seq(Threads) /\ IsInjective(activeThreads)
      BY Zenon DEF ProcInv, ThreadsOK, ProcTypeOK, ProcessesOK, ActiveIsAlive
    <2> QED
      BY <1>1, <1>2, <2>1, SweptRemoves, Zenon
  <1> HIDE DEF p
  <1>9. \A t \in Threads : context'[t] = IF t = me THEN "finished" ELSE context[t]
    BY <1>1, Zenon DEF ProcInv, ThreadsOK, ProcTypeOK, TypeOK
  <1>10. ProcTypeOK' /\ NoSemaphores'
    BY <1>1, <1>2, <1>5, <1>6, <1>7, <1>8, Zenon
       DEF ProcInv, ThreadsOK, ProcTypeOK, TypeOK, Contexts, CpuStates, NoSemaphores
  <1>11. InOnePlace'
    BY <1>1, <1>2, <1>4, <1>5, <1>6, SMTT(30) DEF ProcInv, ThreadsOK, InOnePlace, Asleep
  <1>12. Stacks'
    BY <1>1, <1>2, <1>4, <1>6, <1>9, SMTT(30) DEF ProcInv, ThreadsOK, Stacks
  <1>13. \A t \in Threads : /\ Alive(t)' <=> Alive(t) /\ t # me
                            /\ InJoin(t)' <=> InJoin(t) /\ t # p
    BY <1>2, <1>4, <1>6, <1>9, Zenon DEF Alive, InJoin
  <1> QED
    BY <1>1, <1>2, <1>3, <1>7, <1>8, <1>10, <1>11, <1>12, <1>13, Zenon DEF ThreadsOK, p

\* SC_Exit.
LEMMA ExitKeeps ==
  ASSUME ProcInv, Exit
  PROVE  ProcInv'
  <1> DEFINE me == currentThread
             p == parent[currentThread]
  <1>1. /\ ThreadsOK' /\ ~Alive(me)' /\ Alive(me) /\ me \in Threads
        /\ \A t \in Threads : /\ Alive(t)' <=> Alive(t) /\ t # me
                              /\ InJoin(t)' <=> InJoin(t) /\ t # p
                              /\ isJoined'[t] <=> isJoined[t] /\ t # p
        /\ ~InJoin(me)
        /\ IsInjective(activeThreads') /\ Range(activeThreads') = Range(activeThreads) \ {me}
        /\ ID' = ID /\ parent' = parent /\ threadID' = threadID
        /\ joinTarget' = joinTarget /\ displaced' = displaced
    BY ExitSteps, Zenon
  <1>2. Numbers' /\ ActiveIsAlive'
    BY <1>1, Zenon DEF ProcInv, ProcessesOK, Numbers, ActiveIsAlive
  <1>3. ASSUME NEW c \in Threads, Alive(c)', parent'[c] # NULL
        PROVE  /\ InJoin(parent[c])'
               /\ \A d \in Threads : Alive(d)' /\ parent'[d] = parent'[c] => d = c
               /\ ID'[c] # 0 /\ joinTarget'[parent'[c]] = ID'[c]
    <2>1. Alive(c) /\ c # me /\ parent'[c] = parent[c] /\ parent[c] \in Threads
      BY <1>1, <1>3, Zenon DEF ProcInv, ThreadsOK, ProcTypeOK
    <2>2. InJoin(parent[c]) /\ parent[c] # p
      BY <1>1, <1>3, <2>1, Zenon DEF ProcInv, ProcessesOK, JoinersAreParents
    <2>3. InJoin(parent[c])'
      BY <1>1, <2>1, <2>2, Zenon
    <2>4. \A d \in Threads : Alive(d)' /\ parent'[d] = parent'[c] => d = c
      BY <1>1, <1>3, <2>1, Zenon DEF ProcInv, ProcessesOK, JoinersAreParents
    <2>5. ID'[c] # 0 /\ joinTarget'[parent'[c]] = ID'[c]
      BY <1>1, <1>3, <2>1, Zenon DEF ProcInv, ProcessesOK, TargetIsChild
    <2> QED
      BY <2>3, <2>4, <2>5, Zenon
  <1>4. ASSUME NEW t \in Threads, InJoin(t)', t \notin displaced'
        PROVE  \E c \in Threads : Alive(c)' /\ ID'[c] = joinTarget'[t] /\ parent'[c] = t
    <2>1. InJoin(t) /\ t # p /\ t \notin displaced
      BY <1>1, <1>4, Zenon
    <2>2. PICK c \in Threads : Alive(c) /\ ID[c] = joinTarget[t] /\ parent[c] = t
      BY <2>1, Zenon DEF ProcInv, ProcessesOK, JoinersAreParents
    <2> QED
      BY <1>1, <2>1, <2>2, Zenon
  <1>5. \A t \in Threads : isJoined'[t] <=> Alive(t)' /\ InJoin(t)'
    BY <1>1, SMTT(30) DEF ProcInv, ProcessesOK, JoinersAreParents
  <1>6. JoinersAreParents' /\ TargetIsChild'
    BY <1>3, <1>4, <1>5, Zenon DEF JoinersAreParents, TargetIsChild
  <1> QED
    BY <1>1, <1>2, <1>6, Zenon DEF ProcInv, ProcessesOK

\* The parent Exit wakes sleeps in a Join of the process that ends, and no other
\* live process has that number.
LEMMA ExitWakesItsJoiner ==
  ASSUME ProcInv, Exit, NEW t \in Threads, InJoin(t), ~InJoin(t)',
         NEW c \in Threads, Alive(c)'
  PROVE  ID'[c] # joinTarget[t]
  <1> DEFINE me == currentThread
  <1>1. t = parent[me] /\ Alive(c) /\ c # me /\ Alive(me) /\ me \in Threads /\ ID' = ID
    BY ExitSteps, Zenon
  <1>2. ID[me] # 0 /\ joinTarget[t] = ID[me]
    BY <1>1, KernelAssumption, Zenon DEF ProcInv, ProcessesOK, TargetIsChild
  <1>3. ASSUME ID[c] = ID[me] PROVE FALSE
    BY <1>1, <1>2, <1>3, Zenon DEF ProcInv, ProcessesOK, ActiveIsAlive
  <1> QED
    BY <1>1, <1>2, <1>3, Zenon

-----------------------------------------------------------------------------
(***************************************************************************)
(* The theorems                                                            *)
(***************************************************************************)

\* Every step keeps the invariant, and one that takes a thread out of its Join is
\* the Exit of the process it joined.
LEMMA ProcNextKeeps ==
  ASSUME ProcInv, [ProcNext]_allVars
  PROVE  /\ ProcInv'
         /\ \A t \in Threads : InJoin(t) /\ ~InJoin(t)' => Exit
  <1> DEFINE Goal == /\ ProcInv'
                     /\ \A t \in Threads : InJoin(t) /\ ~InJoin(t)' => Exit
  <1>1. ThreadsOK /\ ProcessesOK /\ ProcTypeOK
    BY Zenon DEF ProcInv, ThreadsOK
  <1>2. ASSUME ThreadsOK' /\ SameProcesses /\ UNCHANGED procVars PROVE Goal
    BY <1>1, <1>2, ProcessesStay, Zenon DEF ProcInv, SameProcesses, procVars
  <1>3. CASE UserStep \/ HaltCall \/ \E n \in IDs : JoinContinues(n)
    BY <1>1, <1>2, <1>3, UserKeeps, Zenon
  <1>4. CASE Kernel
    BY <1>1, <1>2, <1>4, KernelKeeps, Zenon
  <1>5. CASE ProcessCreator
    BY <1>5, ProcessCreatorKeeps, Zenon DEF SameProcesses
  <1>6. CASE \E t \in Threads : Exec(t)
    BY <1>6, ExecKeeps, Zenon
  <1>7. CASE \E n \in IDs : JoinSleeps(n)
    BY <1>7, JoinSleepsKeeps, Zenon
  <1>8. CASE JoinReturns
    BY <1>8, JoinReturnsKeeps DEF SameProcesses
  <1>9. CASE Exit
    BY <1>9, ExitKeeps, Zenon
  <1>10. CASE UNCHANGED allVars
    <2>1. UNCHANGED procVars /\ UNCHANGED vars
      BY <1>10, Zenon DEF allVars
    <2>2. yieldOnReturn' \in BOOLEAN
      BY <1>1, <2>1, Zenon DEF vars, ProcTypeOK, TypeOK
    <2>3. ThreadsOK' /\ SameProcesses
      BY <1>1, <2>1, <2>2, ProcessorMoves, Zenon DEF vars
    <2> QED
      BY <1>2, <2>1, <2>3, Zenon
  <1> QED
    BY <1>3, <1>4, <1>5, <1>6, <1>7, <1>8, <1>9, <1>10, Zenon DEF ProcNext

\* The bookkeeping of Exec, Join and Exit: the inductive invariant.
THEOREM ProcessBookkeeping == ProcSpec => []ProcInv
  <1>1. ProcInit => ProcInv
    BY ProcInitOK, Zenon
  <1>2. ProcInv /\ [ProcNext]_allVars => ProcInv'
    BY ProcNextKeeps, Zenon
  <1> QED
    BY <1>1, <1>2, PTL DEF ProcSpec

\* The thread system stays consistent under processes: a thread is in one place,
\* and only a finished thread is deleted, once.
THEOREM SchedulerStaysOK == ProcSpec => []SchedulerOK
  <1>1. ProcInv => SchedulerOK
    <2> SUFFICES ASSUME ProcInv PROVE SchedulerOK
      BY Zenon
    <2> USE KernelAssumption
    <2>1. ASSUME cpu # "halted" PROVE OnePlace
      <3>1. InOnePlace /\ NoSemaphores
        BY <2>1, Zenon DEF ProcInv, ThreadsOK
      <3>2. \A q \in Sems : IsInjective(queue[q]) /\ Range(queue[q]) = {}
        BY <3>1, SMTT(30) DEF NoSemaphores, IsInjective, Range
      <3> QED
        BY <3>1, <3>2, Zenon DEF OnePlace, InOnePlace, NoSemaphores
    <2>2. ASSUME cpu # "halted" PROVE CarcassIsDead
      BY <2>2, Zenon DEF ProcInv, ThreadsOK, ProcTypeOK, TypeOK, InOnePlace, Stacks, CarcassIsDead,
                  Asleep
    <2>3. \A t \in Threads : context[t] = "finished" => t = threadToBeDestroyed
      BY Zenon DEF ProcInv, ThreadsOK, Stacks
    <2> QED
      BY <2>1, <2>2, <2>3, Zenon DEF SchedulerOK
  <1> QED
    BY <1>1, ProcessBookkeeping, PTL

\* activeThreads lists exactly the live processes: getID never returns a deleted
\* Thread, and the loop of Finish removes what it must whatever the list.
THEOREM ActiveListIsRight == ProcSpec => []ActiveIsAlive
  <1>1. ProcInv => ActiveIsAlive
    BY Zenon DEF ProcInv, ProcessesOK
  <1> QED
    BY <1>1, ProcessBookkeeping, PTL

\* Finish never wakes a deleted, a running or an already woken thread, and a thread
\* asleep in Join has the process that will wake it unless its place was taken.
THEOREM ParentsSleepInJoin == ProcSpec => []JoinersAreParents
  <1>1. ProcInv => JoinersAreParents
    BY Zenon DEF ProcInv, ProcessesOK
  <1> QED
    BY <1>1, ProcessBookkeeping, PTL

\* Join returns only when the process it names has finished, for any number of
\* processes that join, exit and are created.
THEOREM JoinWaitsForExit == ProcSpec => JoinWaits
  <1>1. ProcInv /\ [ProcNext]_allVars =>
          [\A t \in Threads :
             InJoin(t) /\ ~InJoin(t)' =>
               ~\E c \in Threads : Alive(c)' /\ ID'[c] = joinTarget[t]]_allVars
    BY ProcNextKeeps, ExitWakesItsJoiner, Zenon
  <1> QED
    BY <1>1, ProcessBookkeeping, PTL DEF ProcSpec, JoinWaits
=============================================================================
