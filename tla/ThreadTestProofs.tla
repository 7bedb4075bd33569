-------------------------- MODULE ThreadTestProofs --------------------------
(***************************************************************************)
(* Proofs about the programs of threadtest.cc, for any number of threads:  *)
(* they use the thread kernel as it means to be used, and the busy-waiting *)
(* philosophers share their chopsticks and meals as they should.           *)
(***************************************************************************)
EXTENDS ThreadTest, ThreadKernelProofs, FiniteSetTheorems

-----------------------------------------------------------------------------
(***************************************************************************)
(* The programs are clients of the kernel                                  *)
(***************************************************************************)

\* Whatever a thread of a demonstration program does, the kernel sees one of its
\* own operations, or nothing.
LEMMA StepIsKernelStep == [TTNext]_allVars => [Next]_vars
  <1> USE DEF Goto, Local
  <1>1. ASSUME PhiloBusy PROVE [Next]_vars
    BY <1>1, Zenon DEF PhiloBusy, Arrive, Sit, Hungry, PickUpLeft, PickUpRight, PickUp, Served,
                Eating, PutDown, Thinking, Turns, YieldWhile, Next
  <1>2. ASSUME Band PROVE [Next]_vars
    <2>1. ASSUME NEW l, NEW n, GetInstrumentP(l, n) PROVE [Next]_vars
      BY <2>1, ThreadTestAssumption, Zenon DEF GetInstrumentP, Next
    <2>2. ASSUME Take \/ Drop PROVE [Next]_vars
      BY <2>2, ThreadTestAssumption, Zenon DEF Take, Takes, Drop, Next
    <2>3. ASSUME \/ Arrives \/ Gather \/ NextSong \/ Check \/ CountSpecs \/ NameSpecs
                 \/ Play \/ Dropped \/ Rest \/ Ready \/ Barrier \/ Passed \/ Reset
                 \/ Leave \/ Leaving
          PROVE  [Next]_vars
      BY <2>3, Zenon
         DEF Arrives, Gather, NextSong, Check, CountSpecs, NameSpecs, Play, Plays,
             Dropped, Rest, Ready, Barrier, Passed, Reset, Leave, Leaving,
             YieldWhile, Next
    <2> QED
      BY <1>2, <2>1, <2>2, <2>3, Zenon DEF Band
  <1>3. ASSUME Shout \/ Pause \/ ZombieStuff \/ HumanStuff \/ Flee \/ NoMore
               \/ SpawnYields \/ TestReturns \/ Returns
        PROVE  [Next]_vars
    BY <1>3, Zenon DEF Shout, Pause, ZombieStuff, HumanStuff, Flee, NoMore,
                SpawnYields, TestReturns, Returns, Turns, Next
  <1>4. ASSUME NEW t \in Workers, Born(t) \/ SpawnFork(t) \/ TestCreates(t) \/ TestForks(t)
        PROVE  [Next]_vars
    BY <1>4, Zenon DEF Born, SpawnFork, TestCreates, TestForks, Workers, Next
  <1>5. ASSUME Machine PROVE [Next]_vars
    BY <1>5, Zenon DEF Machine, Next
  <1>6. ASSUME UNCHANGED allVars PROVE [Next]_vars
    BY <1>6, Zenon DEF allVars
  <1> QED
    BY <1>1, <1>2, <1>3, <1>4, <1>5, <1>6, Zenon DEF TTNext

\* The programs implement the specification of the thread kernel: what is proved
\* of the kernel holds for them.
THEOREM ProgramsUseKernel == TTSpec => Spec
  <1>1. TTInit => Init
    BY Zenon DEF TTInit
  <1>2. [TTNext]_allVars => [Next]_vars
    BY StepIsKernelStep, Zenon
  <1>3. TTSpec => TTInit /\ [][TTNext]_allVars
    BY PTL DEF TTSpec
  <1> QED
    BY <1>1, <1>2, <1>3, PTL DEF Spec

-----------------------------------------------------------------------------
(***************************************************************************)
(* The philosophers                                                        *)
(***************************************************************************)

\* Thread objects that have no stack.
Unborn == {"FREE", "JUST_CREATED"}

PhiloLabels == {"none", "philosopher", "sit", "hungry", "left", "right", "served",
                "eating", "full", "thinking", "return", "gone"}

\* t has chopstick i in its hand.
Holds(t, i) ==
  \/ i = left(t) /\ pc[t] \in {"right", "served", "eating", "full"}
  \/ i = right(t) /\ pc[t] \in {"served", "eating", "full"}

\* Where the threads of the philosophers' program are.  A Thread object that is
\* forked again belongs to a thread that is gone, so no chopstick goes with it.
Places ==
  /\ pc \in [Threads -> PhiloLabels \cup {"test", "testFork"}]
  /\ pc[MainThread] \in {"test", "testFork", "return", "gone"}
  /\ \A t \in Workers : pc[t] \in PhiloLabels
  /\ \A t \in Workers : status[t] \in Unborn => pc[t] \in {"none", "gone"}
  /\ threadToBeDestroyed # NULL => pc[threadToBeDestroyed] = "gone"

\* A chopstick has at most one holder, and lies on the table when it has none.
Table ==
  /\ chops \in [Workers -> BOOLEAN]
  /\ \A i \in Workers : chops[i] <=> \A t \in Workers : ~Holds(t, i)
  /\ \A i, t, u \in Workers : Holds(t, i) /\ Holds(u, i) => t = u

Meals ==
  /\ philoAte \in Nat /\ philoAte <= NumMeals
  /\ threadChoice = 4 => \A t \in Workers : pc[t] \in {"return", "gone"} => philoAte = NumMeals

PhiloInv == Meals /\ (threadChoice = 4 => Places /\ Table)

\* There are finitely many philosophers, numbered from 0.
LEMMA WorkersCounted == NumWorkers \in Nat /\ NumWorkers > 0 /\ 0 \in Workers
  <1>1. IsFiniteSet(Workers)
    BY KernelAssumption, FS_Subset, Zenon DEF Workers
  <1>2. NumWorkers \in Nat
    BY <1>1, FS_CardinalityType, Zenon DEF NumWorkers
  <1> QED
    BY <1>2, ThreadTestAssumption

\* The right chopstick of a philosopher is one of the chopsticks.
LEMMA RightIsThere == \A t \in Workers : left(t) \in Workers /\ right(t) \in Workers
  BY WorkersCounted, ThreadTestAssumption DEF left, right

\* Which chopsticks a thread holds after a step depends on its label then.
LEMMA HoldsNext ==
  \A t, i \in Workers :
    Holds(t, i)' <=> \/ i = left(t) /\ pc'[t] \in {"right", "served", "eating", "full"}
                     \/ i = right(t) /\ pc'[t] \in {"served", "eating", "full"}
  BY Zenon DEF Holds, left, right, NumWorkers, Workers

\* What the kernel does in these steps to the threads a philosopher is not: an
\* object without a stack was one before or is the carcass, and no carcass is new.
Quiet ==
  /\ \A t \in Threads : status'[t] \in Unborn => status[t] \in Unborn \/ t = threadToBeDestroyed
  /\ threadToBeDestroyed' \in {threadToBeDestroyed, NULL}

\* Yield, dispatching, ticks and Halt are such steps: only Run deletes a thread,
\* and it deletes the carcass.
LEMMA QuietSteps ==
  ASSUME KernelInv,
         \/ Yield \/ UNCHANGED vars \/ SleepDispatch \/ TickReturns \/ TimerInterrupt
         \/ Halt \/ Halted
  PROVE  Quiet
  <1> USE DEF threadVars, Unborn, Quiet
  <1>1. ASSUME NEW next, NEW rl, NEW st, NEW ctx, Run(next, rl, st, ctx),
               \A t \in Threads : st[t] \in Unborn => status[t] \in Unborn
        PROVE  Quiet
    BY <1>1, KernelAssumption, Zenon DEF Run
  <1>2. ASSUME YieldBody PROVE Quiet
    <2>1. CASE readyList = <<>>
      BY <1>2, <2>1, Zenon DEF YieldBody
    <2>2. CASE readyList # <<>>
      <3>1. \A t \in Threads : [status EXCEPT ![currentThread] = "READY"][t] \in Unborn
                                  => status[t] \in Unborn
        BY Zenon DEF KernelInv, TypeOK
      <3> QED
        BY <1>1, <1>2, <2>2, <3>1, Zenon DEF YieldBody
    <2> QED
      BY <2>1, <2>2, Zenon
  <1>3. CASE SleepDispatch
    BY <1>1, <1>3, Zenon DEF SleepDispatch
  <1>4. CASE UNCHANGED vars \/ TimerInterrupt \/ Halt \/ Halted
    BY <1>4, Zenon DEF TimerInterrupt, Halt, Halted, vars
  <1>5. CASE Yield \/ TickReturns
    <2>1. CASE YieldBody
      BY <1>2, <2>1, Zenon
    <2>2. CASE UNCHANGED <<status, threadToBeDestroyed>>
      BY <2>2, Zenon
    <2> QED
      BY <1>5, <2>1, <2>2, Zenon DEF Yield, TickReturns
  <1> QED
    BY <1>3, <1>4, <1>5, Zenon

\* A philosopher who goes on to another label is still a thread that runs.
LEMMA GotoKeepsPlaces ==
  ASSUME KernelInv, Places, Quiet, cpu = "thread", me \in Workers,
         NEW l \in PhiloLabels, pc' = [pc EXCEPT ![me] = l]
  PROVE  Places'
  <1>1. status[me] = "RUNNING" /\ me # threadToBeDestroyed
    BY KernelAssumption DEF KernelInv, TypeOK, OnePlace, CarcassIsDead, Asleep, me, Workers
  <1>2. \A t \in Threads : pc'[t] = IF t = me THEN l ELSE pc[t]
    BY Zenon DEF Places
  <1>3. pc' \in [Threads -> PhiloLabels \cup {"test", "testFork"}]
    BY Zenon DEF Places
  <1>4. pc'[MainThread] = pc[MainThread]
    BY <1>2, KernelAssumption, Zenon DEF Workers
  <1>5. \A t \in Workers : pc'[t] \in PhiloLabels
    BY <1>2, Zenon DEF Places, Workers
  <1>6. \A t \in Workers : status'[t] \in Unborn => pc'[t] \in {"none", "gone"}
    BY <1>1, <1>2, KernelAssumption, Zenon DEF Places, Quiet, Unborn, Workers
  <1>7. threadToBeDestroyed' # NULL => pc'[threadToBeDestroyed'] = "gone"
    BY <1>1, <1>2, Zenon DEF Places, Quiet, KernelInv, TypeOK
  <1> QED
    BY <1>3, <1>4, <1>5, <1>6, <1>7, Zenon DEF Places

\* Nobody takes a chopstick or puts one down.
LEMMA HandsStill ==
  ASSUME Table, UNCHANGED chops,
         \A t, i \in Workers : Holds(t, i)' <=> Holds(t, i)
  PROVE  Table'
  BY Zenon DEF Table

\* A chopstick that lies on the table is taken by one philosopher.
LEMMA TakingOne ==
  ASSUME Table, NEW m \in Workers, NEW c \in Workers, chops[c],
         chops' = [chops EXCEPT ![c] = FALSE],
         \A t, i \in Workers : Holds(t, i)' <=> Holds(t, i) \/ (t = m /\ i = c)
  PROVE  Table'
  BY DEF Table

\* A philosopher puts both chopsticks down, and nobody else had them.
LEMMA PuttingDown ==
  ASSUME Table, NEW m \in Workers, NEW c \in Workers, NEW d \in Workers,
         Holds(m, c), Holds(m, d), \A i \in Workers : Holds(m, i) => i \in {c, d},
         chops' = [chops EXCEPT ![c] = TRUE, ![d] = TRUE],
         \A t, i \in Workers : Holds(t, i)' <=> Holds(t, i) /\ t # m
  PROVE  Table'
  <1>1. \A i \in Workers : chops'[i] = IF i \in {c, d} THEN TRUE ELSE chops[i]
    BY Zenon DEF Table
  <1>2. \A i \in Workers : chops'[i] <=> \A t \in Workers : ~Holds(t, i)'
    BY <1>1 DEF Table
  <1>3. chops' \in [Workers -> BOOLEAN]
    BY Zenon DEF Table
  <1>4. \A i, t, u \in Workers : Holds(t, i)' /\ Holds(u, i)' => t = u
    BY Zenon DEF Table
  <1> QED
    BY <1>2, <1>3, <1>4, Zenon DEF Table

\* The philosophers keep the invariant.
LEMMA PhiloKeepsInv ==
  ASSUME KernelInv, PhiloInv, threadChoice = 4, PhiloBusy
  PROVE  PhiloInv'
  <1> USE DEF Goto, Local, At
  <1>1. /\ cpu = "thread" /\ UNCHANGED threadChoice
        /\ pc[me] \in {"philosopher", "sit", "hungry", "left", "right", "served",
                       "eating", "full", "thinking"}
    BY Zenon DEF PhiloBusy, Arrive, Sit, Hungry, PickUpLeft, PickUpRight, PickUp, Served,
           Eating, PutDown, Thinking, Turns, YieldWhile
  <1>2. me \in Workers /\ me \in Threads
    BY <1>1, Zenon DEF PhiloInv, Places, KernelInv, TypeOK, me, Workers
  <1>3. Yield \/ UNCHANGED vars
    BY Zenon DEF PhiloBusy, Arrive, Sit, Hungry, PickUpLeft, PickUpRight, PickUp, Served,
           Eating, PutDown, Thinking, Turns, YieldWhile
  <1>4. Quiet
    BY <1>3, QuietSteps, Zenon
  <1>5. left(me) \in Workers /\ right(me) \in Workers
    BY <1>2, RightIsThere, Zenon
  <1>6. ASSUME NEW l \in PhiloLabels, pc' = [pc EXCEPT ![me] = l] PROVE Places'
    BY <1>1, <1>2, <1>4, <1>6, GotoKeepsPlaces, Zenon DEF PhiloInv
  <1>7. \A l : pc' = [pc EXCEPT ![me] = l] =>
                 \A t \in Workers : pc'[t] = IF t = me THEN l ELSE pc[t]
    BY <1>2, Zenon DEF PhiloInv, Places, Workers
  <1>8. ASSUME NEW l, pc' = [pc EXCEPT ![me] = l], UNCHANGED chops,
               pc[me] = l \/ {pc[me], l} \subseteq {"philosopher", "sit", "hungry", "left", "thinking", "return"}
                 \/ {pc[me], l} \subseteq {"served", "eating", "full"}
        PROVE  Table'
    <2>1. \A t, i \in Workers : Holds(t, i)' <=> Holds(t, i)
      BY <1>7, <1>8, HoldsNext DEF Holds
    <2> QED
      BY <1>8, <2>1, HandsStill, Zenon DEF PhiloInv
  <1>9. ASSUME NEW l, pc' = [pc EXCEPT ![me] = l], UNCHANGED philoAte,
               l = "return" => philoAte = NumMeals, l # "gone"
        PROVE  Meals'
    BY <1>1, <1>7, <1>9, Zenon DEF PhiloInv, Meals
  <1>10. CASE Arrive \/ Sit \/ Hungry \/ Thinking \/ Eating
    <2>1. PICK l \in {"sit", "hungry", "left", "return", "thinking", "eating", "full"} :
            /\ pc' = [pc EXCEPT ![me] = l]
            /\ l = "return" => philoAte >= NumMeals
            /\ \/ pc[me] = l
               \/ {pc[me], l} \subseteq {"philosopher", "sit", "hungry", "left", "thinking", "return"}
               \/ {pc[me], l} \subseteq {"served", "eating", "full"}
      <3>1. CASE Arrive
        BY <3>1, Zenon DEF Arrive
      <3>2. CASE Sit
        BY <3>2, Zenon DEF Sit, YieldWhile
      <3>3. CASE Hungry
        <4>1. CASE philoAte < NumMeals
          BY <3>3, <4>1, Zenon DEF Hungry
        <4>2. CASE ~(philoAte < NumMeals)
          <5>1. pc[me] = "hungry" /\ pc' = [pc EXCEPT ![me] = "return"]
            BY <3>3, <4>2, Zenon DEF Hungry
          <5>2. philoAte >= NumMeals
            BY <4>2, ThreadTestAssumption DEF PhiloInv, Meals
          <5> QED
            BY <5>1, <5>2, Zenon
        <4> QED
          BY <4>1, <4>2, Zenon
      <3>4. CASE Thinking
        BY <3>4, Zenon DEF Thinking, Turns
      <3>5. CASE Eating
        BY <3>5, Zenon DEF Eating, Turns
      <3> QED
        BY <1>10, <3>1, <3>2, <3>3, <3>4, <3>5, Zenon
    <2>2. UNCHANGED <<chops, philoAte>>
      BY <1>10, Zenon DEF Arrive, Sit, Hungry, Thinking, Eating, philoVars
    <2>3. l \in PhiloLabels /\ l # "gone"
      BY Zenon DEF PhiloLabels
    <2>4. l = "return" => philoAte = NumMeals
      BY <2>1, ThreadTestAssumption DEF PhiloInv, Meals
    <2> QED
      BY <1>6, <1>8, <1>9, <2>1, <2>2, <2>3, <2>4, Zenon DEF PhiloInv
  <1>11. CASE Served
    <2>1. PICK l \in {"eating", "full"} : pc' = [pc EXCEPT ![me] = l]
      BY <1>11, Zenon DEF Served
    <2>2. pc[me] = "served" /\ UNCHANGED chops
      BY <1>11, Zenon DEF Served
    <2>3. Places' /\ Table'
      BY <1>6, <1>8, <2>1, <2>2, Zenon DEF PhiloLabels
    <2>4. philoAte' = philoAte \/ (philoAte < NumMeals /\ philoAte' = philoAte + 1)
      BY <1>11, Zenon DEF Served
    <2>5. \A t \in Workers : pc'[t] \in {"return", "gone"} => pc[t] \in {"return", "gone"}
      BY <1>7, <2>1
    <2>6. Meals'
      BY <1>1, <2>4, <2>5, ThreadTestAssumption DEF PhiloInv, Meals
    <2> QED
      BY <2>3, <2>6, Zenon DEF PhiloInv
  <1>12. ASSUME NEW c \in Workers, NEW l \in {"left", "right"}, NEW n \in {"right", "served"},
                PickUp(l, c, n), l = "left" => c = left(me) /\ n = "right",
                l = "right" => c = right(me) /\ n = "served"
         PROVE  PhiloInv'
    <2>1. pc[me] = l /\ UNCHANGED philoAte /\ chops' = [chops EXCEPT ![c] = FALSE]
      BY <1>12, Zenon DEF PickUp, YieldWhile
    <2>2. CASE ~chops[c]
      <3>1. pc' = [pc EXCEPT ![me] = l]
        BY <1>12, <2>2, Zenon DEF PickUp, YieldWhile
      <3>2. UNCHANGED chops
        BY <2>1, <2>2, Zenon DEF PhiloInv, Table
      <3> QED
        BY <1>6, <1>8, <1>9, <2>1, <3>1, <3>2, Zenon DEF PhiloInv, PhiloLabels
    <2>3. CASE chops[c]
      <3>1. pc' = [pc EXCEPT ![me] = n]
        BY <1>12, <2>3, Zenon DEF PickUp, YieldWhile
      <3>2. Places' /\ Meals'
        BY <1>6, <1>9, <2>1, <3>1, Zenon DEF PhiloLabels
      <3>3. \A t, i \in Workers : Holds(t, i)' <=> Holds(t, i) \/ (t = me /\ i = c)
        <4>0. \A t \in Workers : pc'[t] = IF t = me THEN n ELSE pc[t]
          BY <1>7, <3>1, Zenon
        <4>1. CASE l = "left"
          BY <1>12, <2>1, <4>0, <4>1, HoldsNext, Zenon DEF Holds
        <4>2. CASE l = "right"
          BY <1>12, <2>1, <4>0, <4>2, HoldsNext, Zenon DEF Holds
        <4> QED
          BY <4>1, <4>2, Zenon
      <3>4. Table'
        BY <1>2, <1>12, <2>1, <2>3, <3>3, TakingOne, Zenon DEF PhiloInv
      <3> QED
        BY <3>2, <3>4, Zenon DEF PhiloInv
    <2> QED
      BY <2>2, <2>3, Zenon
  <1>13. CASE PutDown
    <2>1. /\ pc[me] = "full" /\ pc' = [pc EXCEPT ![me] = "thinking"] /\ UNCHANGED philoAte
          /\ chops' = [chops EXCEPT ![left(me)] = TRUE, ![right(me)] = TRUE]
      BY <1>13, Zenon DEF PutDown
    <2>2. Places' /\ Meals'
      BY <1>6, <1>9, <2>1, Zenon DEF PhiloLabels
    <2>3. \A t, i \in Workers : Holds(t, i)' <=> Holds(t, i) /\ t # me
      <3>1. \A t \in Workers : pc'[t] = IF t = me THEN "thinking" ELSE pc[t]
        BY <1>7, <2>1, Zenon
      <3> QED
        BY <2>1, <3>1, HoldsNext DEF Holds
    <2>4. Holds(me, left(me)) /\ Holds(me, right(me))
      BY <2>1, Zenon DEF Holds
    <2>5. \A i \in Workers : Holds(me, i) => i \in {left(me), right(me)}
      BY Zenon DEF Holds
    <2>6. Table'
      BY <1>2, <1>5, <2>1, <2>3, <2>4, <2>5, PuttingDown, Zenon DEF PhiloInv
    <2> QED
      BY <2>2, <2>6, Zenon DEF PhiloInv
  <1> QED
    BY <1>5, <1>10, <1>11, <1>12, <1>13, Zenon DEF PhiloBusy, PickUpLeft, PickUpRight

\* So does ThreadTest, which creates them: the object it forks has no chopstick.
LEMMA TestKeepsInv ==
  ASSUME KernelInv, PhiloInv, threadChoice = 4, NEW w \in Workers,
         TestCreates(w) \/ TestForks(w) \/ TestReturns
  PROVE  PhiloInv'
  <1> USE DEF Goto, Local, At, Others, philoVars
  <1>1. /\ UNCHANGED <<threadChoice, chops, philoAte>> /\ pc[me] \in {"test", "testFork"}
        /\ me = MainThread /\ me \in Threads /\ w \in Threads /\ w # me
    <2>1. UNCHANGED <<threadChoice, chops, philoAte>> /\ pc[me] \in {"test", "testFork"}
      BY Zenon DEF TestCreates, TestForks, TestReturns
    <2>2. me \in Threads
      BY Zenon DEF KernelInv, TypeOK, me
    <2> QED
      BY <2>1, <2>2, Zenon DEF PhiloInv, Places, Workers, PhiloLabels
  <1>2. PICK l \in {"test", "testFork", "return"}, u \in {pc[w], "philosopher"} :
          /\ \A t \in Threads : pc'[t] = IF t = me THEN l ELSE IF t = w THEN u ELSE pc[t]
          /\ pc' \in [Threads -> PhiloLabels \cup {"test", "testFork"}]
          /\ u = pc[w] \/ status[w] = "JUST_CREATED"
    <2>1. pc \in [Threads -> PhiloLabels \cup {"test", "testFork"}] /\ pc[w] \in PhiloLabels
      BY Zenon DEF PhiloInv, Places
    <2>2. CASE TestForks(w)
      <3>1. Entry(w) = "philosopher"
        BY DEF Entry
      <3>2. pc' = [pc EXCEPT ![me] = "test", ![w] = "philosopher"] /\ status[w] = "JUST_CREATED"
        BY <2>2, <3>1, Zenon DEF TestForks, Fork
      <3> QED
        BY <1>1, <2>1, <3>2, Zenon DEF PhiloLabels
    <2>3. CASE TestCreates(w) \/ TestReturns
      <3>1. PICK l \in {"testFork", "return"} : pc' = [pc EXCEPT ![me] = l]
        BY <2>3, Zenon DEF TestCreates, TestReturns
      <3> QED
        BY <1>1, <2>1, <3>1, Zenon DEF PhiloLabels
    <2> QED
      BY <2>2, <2>3, Zenon
  <1>3. /\ \A t \in Workers : status'[t] \in Unborn => status[t] \in Unborn
        /\ u # pc[w] => status'[w] \notin Unborn
        /\ UNCHANGED threadToBeDestroyed
    <2>1. status \in [Threads -> Statuses]
      BY Zenon DEF KernelInv, TypeOK
    <2>2. CASE TestForks(w)
      BY <1>1, <2>1, <2>2, Zenon DEF TestForks, Fork, Unborn, Workers
    <2>3. CASE TestCreates(w)
      <3>1. u = pc[w]
        BY <1>1, <1>2, <2>3, Zenon DEF TestCreates, NewThread
      <3> QED
        BY <1>1, <2>1, <2>3, <3>1, Zenon DEF TestCreates, NewThread, Unborn, Workers
    <2>4. CASE TestReturns
      <3>1. u = pc[w] /\ UNCHANGED vars
        BY <1>1, <1>2, <2>4, Zenon DEF TestReturns, PhiloInv, Places
      <3> QED
        BY <3>1, Zenon DEF vars, threadVars
    <2> QED
      BY <2>2, <2>3, <2>4, Zenon
  <1>4. pc[w] = u \/ pc[w] \in {"none", "gone"}
    BY <1>2, Zenon DEF PhiloInv, Places, Unborn
  <1>5. threadToBeDestroyed # NULL =>
          threadToBeDestroyed \in Threads /\ threadToBeDestroyed # me
          /\ (u # pc[w] => threadToBeDestroyed # w)
    BY <1>1, <1>2, Zenon DEF PhiloInv, Places, KernelInv, TypeOK, CarcassIsDead
  <1>6. Places'
    <2>1. pc'[MainThread] \in {"test", "testFork", "return", "gone"}
      BY <1>1, <1>2, Zenon
    <2>2. \A t \in Workers : pc'[t] \in PhiloLabels
      BY <1>1, <1>2, Zenon DEF PhiloInv, Places, Workers, PhiloLabels
    <2>3. \A t \in Workers : status'[t] \in Unborn => pc'[t] \in {"none", "gone"}
      BY <1>1, <1>2, <1>3, Zenon DEF PhiloInv, Places, Workers
    <2>4. threadToBeDestroyed' # NULL => pc'[threadToBeDestroyed'] = "gone"
      BY <1>2, <1>3, <1>5, Zenon DEF PhiloInv, Places
    <2> QED
      BY <1>2, <2>1, <2>2, <2>3, <2>4, Zenon DEF Places
  <1>7. \A t \in Workers : pc'[t] = IF t = w THEN u ELSE pc[t]
    BY <1>1, <1>2, Zenon DEF Workers
  <1>8. Table'
    <2>1. \A t, i \in Workers : Holds(t, i)' <=> Holds(t, i)
      BY <1>2, <1>4, <1>7, HoldsNext, Zenon DEF Holds
    <2> QED
      BY <1>1, <2>1, HandsStill, Zenon DEF PhiloInv
  <1>9. Meals'
    BY <1>1, <1>2, <1>7, Zenon DEF PhiloInv, Meals
  <1> QED
    BY <1>6, <1>8, <1>9, Zenon DEF PhiloInv

\* A thread that returns into Finish has put its chopsticks down, and becomes the
\* carcass.
LEMMA ReturnKeepsInv ==
  ASSUME KernelInv, PhiloInv, threadChoice = 4, Returns, UNCHANGED Others
  PROVE  PhiloInv'
  <1>1. /\ UNCHANGED <<threadChoice, chops, philoAte>> /\ pc[me] = "return"
        /\ pc' = [pc EXCEPT ![me] = "gone"] /\ threadToBeDestroyed' = me
        /\ status' = [status EXCEPT ![me] = "BLOCKED"]
    BY Zenon DEF Returns, Finish, At, Goto, Others, philoVars, me
  <1>2. me \in Threads /\ status \in [Threads -> Statuses]
    BY Zenon DEF KernelInv, TypeOK, me
  <1>3. \A t \in Threads : pc'[t] = IF t = me THEN "gone" ELSE pc[t]
    BY <1>1, <1>2, Zenon DEF PhiloInv, Places
  <1>4. Places'
    <2>1. pc' \in [Threads -> PhiloLabels \cup {"test", "testFork"}]
      BY <1>1, <1>2, Zenon DEF PhiloInv, Places, PhiloLabels
    <2>2. \A t \in Workers : status'[t] \in Unborn => pc'[t] \in {"none", "gone"}
      BY <1>1, <1>2, <1>3, Zenon DEF PhiloInv, Places, Workers, Unborn
    <2>3. \A t \in Workers : pc'[t] \in PhiloLabels
      BY <1>3, Zenon DEF PhiloInv, Places, PhiloLabels, Workers
    <2>4. pc'[MainThread] \in {"test", "testFork", "return", "gone"}
      BY <1>3, KernelAssumption, Zenon DEF PhiloInv, Places
    <2> QED
      BY <1>1, <1>2, <1>3, <2>1, <2>2, <2>3, <2>4, Zenon DEF Places
  <1>5. Table'
    <2>1. \A t, i \in Workers : Holds(t, i)' <=> Holds(t, i)
      BY <1>1, <1>3, HoldsNext DEF Holds, Workers
    <2> QED
      BY <1>1, <2>1, HandsStill, Zenon DEF PhiloInv
  <1>6. Meals'
    BY <1>1, <1>3, Zenon DEF PhiloInv, Meals, Workers
  <1> QED
    BY <1>4, <1>5, <1>6, Zenon DEF PhiloInv

\* Dispatching, ticks and the timer move no philosopher and no chopstick.
LEMMA MachineKeepsInv ==
  ASSUME KernelInv, PhiloInv, Quiet, UNCHANGED <<testVars, philoVars>>
  PROVE  PhiloInv'
  <1>1. UNCHANGED <<threadChoice, pc, chops, philoAte>>
    BY Zenon DEF testVars, philoVars
  <1>2. Meals'
    BY <1>1, Zenon DEF PhiloInv, Meals
  <1>3. ASSUME threadChoice = 4 PROVE Places' /\ Table'
    <2>1. Places'
      <3>1. \A t \in Workers : status'[t] \in Unborn => pc[t] \in {"none", "gone"}
        BY <1>3, KernelAssumption, Zenon DEF PhiloInv, Places, Quiet, Workers
      <3> QED
        BY <1>1, <1>3, <3>1, Zenon DEF PhiloInv, Places, Quiet
    <2>2. \A t, i \in Workers : Holds(t, i)' <=> Holds(t, i)
      BY <1>1, HoldsNext, Zenon DEF Holds
    <2> QED
      BY <1>1, <1>3, <2>1, <2>2, HandsStill, Zenon DEF PhiloInv
  <1> QED
    BY <1>1, <1>2, <1>3, Zenon DEF PhiloInv

\* The programs other than the philosophers' do not run with threadChoice 4.
LEMMA OthersElsewhere ==
  ASSUME KernelInv, PhiloInv, threadChoice = 4
  PROVE  /\ ~Band
         /\ ~Shout /\ ~Pause /\ ~ZombieStuff /\ ~HumanStuff /\ ~Flee
         /\ \A t \in Workers : ~Born(t) /\ ~SpawnFork(t)
         /\ ~NoMore /\ ~SpawnYields
  <1>1. pc[me] \in PhiloLabels \cup {"test", "testFork"}
    BY Zenon DEF PhiloInv, Places, KernelInv, TypeOK, me
  <1>2. ~Band
    BY <1>1, Zenon DEF Band, Arrives, Gather, NextSong, GetInstrumentP, Take, Takes, Check,
                CountSpecs, NameSpecs, Play, Plays, Drop, Dropped, Rest, Ready, Barrier,
                Passed, Reset, Leave, Leaving, YieldWhile, At, PhiloLabels
  <1> QED
    BY <1>1, <1>2, Zenon DEF Shout, Pause, ZombieStuff, HumanStuff, Flee,
                      Born, SpawnFork, NoMore, SpawnYields, Turns, At, PhiloLabels

\* Every step of every program keeps the invariant.
LEMMA NextPhiloInv ==
  ASSUME KernelInv, PhiloInv, [TTNext]_allVars
  PROVE  PhiloInv'
  <1>1. CASE UNCHANGED allVars
    BY <1>1, QuietSteps, MachineKeepsInv, Zenon DEF allVars
  <1>2. CASE Machine /\ UNCHANGED <<ownVars, Others>>
    BY <1>2, QuietSteps, MachineKeepsInv, Zenon DEF Machine, Others
  <1>3. CASE TTNext /\ threadChoice = 4
    <2>1. ASSUME TestReturns PROVE PhiloInv'
      BY <1>3, <2>1, WorkersCounted, TestKeepsInv, Zenon
    <2> QED
      BY <1>2, <1>3, <2>1, PhiloKeepsInv, TestKeepsInv, ReturnKeepsInv, OthersElsewhere
         DEF TTNext
  <1>4. CASE TTNext /\ threadChoice # 4
    <2>1. ASSUME PhiloBusy
          PROVE  /\ UNCHANGED threadChoice
                 /\ philoAte' = philoAte \/ (philoAte < NumMeals /\ philoAte' = philoAte + 1)
      BY <2>1, Zenon DEF PhiloBusy, Arrive, Sit, Hungry, PickUpLeft, PickUpRight, PickUp, Served,
                  Eating, PutDown, Thinking, Turns, YieldWhile, Goto, Local, philoVars
    <2>2. ASSUME Band, UNCHANGED philoVars PROVE UNCHANGED <<threadChoice, philoAte>>
      BY <2>2, ZenonT(30) DEF Band, Arrives, Gather, NextSong, GetInstrumentP, Take, Takes, Check,
                  CountSpecs, NameSpecs, Play, Plays, Drop, Dropped, Rest, Ready, Barrier,
                  Passed, Reset, Leave, Leaving, YieldWhile, Goto, Local, philoVars
    <2>3. ASSUME \/ Shout \/ Pause \/ ZombieStuff \/ HumanStuff \/ Flee
                 \/ \E t \in Workers : Born(t) \/ SpawnFork(t) \/ TestCreates(t) \/ TestForks(t)
                 \/ NoMore \/ SpawnYields \/ TestReturns
                 \/ Returns /\ UNCHANGED Others
                 \/ Machine /\ UNCHANGED Others
          PROVE  UNCHANGED <<threadChoice, philoAte>>
      BY <2>3, Zenon DEF Shout, Pause, ZombieStuff, HumanStuff,
                  Flee, Born, SpawnFork, NoMore, SpawnYields, TestCreates, TestForks,
                  TestReturns, Returns, Machine, Turns, Goto, Local, Others, philoVars, testVars
    <2>4. \/ PhiloBusy
          \/ UNCHANGED <<threadChoice, philoAte>>
      BY <1>4, <2>2, <2>3, Zenon DEF TTNext
    <2>5. /\ UNCHANGED threadChoice
          /\ philoAte' = philoAte \/ (philoAte < NumMeals /\ philoAte' = philoAte + 1)
      BY <2>1, <2>4, Zenon
    <2> QED
      BY <1>4, <2>5, ThreadTestAssumption, SMTT(30) DEF PhiloInv, Meals
  <1> QED
    BY <1>1, <1>3, <1>4, Zenon

\* At the start all the chopsticks lie on the table.
LEMMA InitPhiloInv == TTInit => PhiloInv
  <1> SUFFICES ASSUME TTInit PROVE PhiloInv
    BY Zenon
  <1>1. /\ pc = [t \in Threads |-> IF t = MainThread THEN "test" ELSE "none"]
        /\ philoAte = 0 /\ chops = [i \in Workers |-> TRUE] /\ threadToBeDestroyed = NULL
    BY Zenon DEF TTInit, PhiloInit, Init
  <1>2. Places
    BY <1>1, KernelAssumption, Zenon DEF Places, PhiloLabels, Workers
  <1>3. \A t, i \in Workers : ~Holds(t, i)
    BY <1>1, Zenon DEF Holds, Workers
  <1>4. Table
    BY <1>1, <1>3, Zenon DEF Table
  <1>5. Meals
    BY <1>1, ThreadTestAssumption DEF Meals, Workers
  <1> QED
    BY <1>2, <1>4, <1>5, Zenon DEF PhiloInv

\* PhiloBusy is right for any number of philosophers and of meals, with and without
\* the timer: a chopstick that is off the table has one holder, and no meal is
\* eaten twice or left over.
THEOREM PhilosophersShare == TTSpec => [](ChopsticksHeld /\ MealsEaten)
  <1>1. TTSpec => TTInit /\ [][TTNext]_allVars /\ []KernelInv
    <2>1. TTSpec => TTInit /\ [][TTNext]_allVars
      BY PTL DEF TTSpec
    <2> QED
      BY <2>1, ProgramsUseKernel, Bookkeeping, PTL
  <1>2. TTInit => PhiloInv
    BY InitPhiloInv, Zenon
  <1>3. PhiloInv /\ KernelInv /\ [TTNext]_allVars => PhiloInv'
    BY NextPhiloInv, Zenon
  <1>4. PhiloInv => ChopsticksHeld /\ MealsEaten
    <2> SUFFICES ASSUME PhiloInv PROVE ChopsticksHeld /\ MealsEaten
      BY Zenon
    <2>1. ASSUME threadChoice = 4, NEW i \in Workers
          PROVE  Cardinality(Holders(i)) = IF chops[i] THEN 0 ELSE 1
      <3>1. Holders(i) = {t \in Workers : Holds(t, i)}
        BY Zenon DEF Holders, Holds
      <3>2. CASE chops[i]
        <4>1. Holders(i) = {}
          BY <2>1, <3>1, <3>2, Zenon DEF PhiloInv, Table
        <4> QED
          BY <3>2, <4>1, FS_EmptySet, Zenon
      <3>3. CASE ~chops[i]
        <4>1. PICK t \in Workers : Holds(t, i)
          BY <2>1, <3>3, Zenon DEF PhiloInv, Table
        <4>2. Holders(i) = {t}
          BY <2>1, <3>1, <4>1, Zenon DEF PhiloInv, Table
        <4> QED
          BY <3>3, <4>2, FS_Singleton, Zenon
      <3> QED
        BY <3>2, <3>3, Zenon
    <2>2. MealsEaten
      BY Zenon DEF PhiloInv, Meals, MealsEaten
    <2> QED
      BY <2>1, <2>2, Zenon DEF ChopsticksHeld
  <1> QED
    BY <1>1, <1>2, <1>3, <1>4, PTL
=============================================================================
