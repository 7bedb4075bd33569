----------------------------- MODULE TestThreads -----------------------------
(***************************************************************************)
(* What the programs of threads/threadtest.cc have in common.  Their       *)
(* threads share global variables without locks and lose the processor     *)
(* only in Yield, Fork, P and V.  A step is a statement or two: while cpu  *)
(* is "thread" nobody else takes one, so the code up to the next of these  *)
(* calls is atomic however many steps it has.                              *)
(***************************************************************************)
EXTENDS ThreadKernel, Integers

CONSTANT MaxLoops   \* bound: the largest number of turns Random() gives, at most 5

VARIABLES
  threadChoice,     \* the -A option, which program runs
  timer,            \* whether -rs was given
  pc,               \* where each thread is in its program
  loops             \* the turns it has to wait: timesToLoop, waitTime, toShout

testVars == <<threadChoice, timer, pc, loops>>

\* The argument Fork passes to a thread is its number.
Workers == Threads \ {MainThread}
NumWorkers == Cardinality(Workers)
me == currentThread

At(label) == cpu = "thread" /\ pc[me] = label
Goto(label) == pc' = [pc EXCEPT ![me] = label] /\ UNCHANGED <<threadChoice, timer>>

\* A statement that does not call the kernel.
Local(label) == UNCHANGED vars /\ Goto(label)

\* while (waits) currentThread->Yield();
YieldWhile(label, waits, next) ==
  /\ At(label)
  /\ \/ waits /\ Yield /\ Goto(label)
     \/ ~waits /\ Local(next)

\* while (loops > 0) { loops--; Yield(); }, then loops := Random() % 5 + 1.
Turns(label, next, Draws) ==
  /\ At(label)
  /\ \/ loops[me] > 0 /\ Yield /\ Goto(label) /\ loops' = [loops EXCEPT ![me] = @ - 1]
     \/ loops[me] = 0 /\ Local(next) /\ \E n \in Draws : loops' = [loops EXCEPT ![me] = n]

\* A thread returns from its function into Thread::Finish.
Returns == At("return") /\ Finish /\ Goto("gone") /\ UNCHANGED loops

\* What goes on without the thread doing anything.
Machine ==
  /\ \/ SleepDispatch
     \/ TickReturns
     \/ timer /\ TimerInterrupt
     \/ Halt
     \/ Halted
  /\ UNCHANGED testVars
=============================================================================
