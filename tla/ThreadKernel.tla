---------------------------- MODULE ThreadKernel ----------------------------
(***************************************************************************)
(* The thread system of the kernel: Thread, Scheduler and Semaphore, with  *)
(* the interrupt mask that makes their critical sections atomic, the timer *)
(* that preempts (-rs) and devices whose completion handlers post a        *)
(* semaphore.                                                              *)
(*                                                                         *)
(* The machine has one processor.  It leaves the running thread only       *)
(* inside Yield and Sleep, and an interrupt handler runs only inside       *)
(* OneTick (called when SetLevel turns interrupts back on) or inside Idle. *)
(* The code between two such points is one step of the model.  cpu says    *)
(* where the processor is:                                                 *)
(*   "thread"  the current thread executes with interrupts on              *)
(*   "tick"    SetLevel(IntOn) has called OneTick                          *)
(*   "resume"  the current thread is back from SWITCH inside Sleep, and    *)
(*             interrupts are still off                                    *)
(*   "sleep"   the current thread is in the while loop of Thread::Sleep    *)
(*   "idle"    Idle has fired an interrupt and is looking for more         *)
(*   "halted"  Interrupt::Halt                                             *)
(* The threads run the most general program: whoever has the processor may *)
(* create and fork threads, use any semaphore, start a device, yield or    *)
(* finish.                                                                 *)
(***************************************************************************)
EXTENDS Naturals, Sequences, FiniteSets, Functions

CONSTANTS
  Threads,        \* the Thread objects that can be allocated
  Sems,           \* the semaphores
  Devices,        \* the devices that interrupt when an operation completes
  MainThread,     \* the thread Initialize makes current
  NULL,           \* the null pointer
  InitialValue,   \* initialValue of each semaphore
  DeviceSem,      \* the semaphore the handler of a device posts
  MaxValue,       \* bound: no V or device request once a value is here
  TimerOn         \* whether -rs started the timer

ASSUME KernelAssumption ==
  /\ IsFiniteSet(Threads)
  /\ MainThread \in Threads
  /\ NULL \notin Threads \cup Sems
  /\ InitialValue \in [Sems -> Nat]
  /\ DeviceSem \in [Devices -> Sems]
  /\ MaxValue \in Nat
  /\ TimerOn \in BOOLEAN

VARIABLES
  currentThread,        \* the thread that has the processor
  status,               \* ThreadStatus of each thread, "FREE" when deleted
  context,              \* where each thread will continue when dispatched
  inP,                  \* the semaphore whose P is on the thread's stack
  readyList,            \* Scheduler::readyList
  value, queue,         \* the two fields of each Semaphore
  threadToBeDestroyed,  \* the finished thread whose carcass Run deletes
  cpu,                  \* where the processor is, see above
  yieldOnReturn,        \* Interrupt::yieldOnReturn
  pending               \* the devices with an interrupt pending

threadVars == <<status, context, inP>>
semVars == <<value, queue>>
vars == <<currentThread, threadVars, readyList, semVars,
          threadToBeDestroyed, cpu, yieldOnReturn, pending>>

Statuses == {"FREE", "JUST_CREATED", "RUNNING", "READY", "BLOCKED"}

\* "root": at ThreadRoot, never dispatched.  "code": in its own code.
\* "yield", "P", "join", "finished": stopped inside Yield, Semaphore::P, the
\* Join system call, Finish.
Contexts == {"none", "root", "code", "yield", "P", "join", "finished"}

CpuStates == {"thread", "tick", "resume", "sleep", "idle", "halted"}

TypeOK ==
  /\ currentThread \in Threads
  /\ status \in [Threads -> Statuses]
  /\ context \in [Threads -> Contexts]
  /\ inP \in [Threads -> Sems \cup {NULL}]
  /\ readyList \in Seq(Threads)
  /\ value \in [Sems -> Nat]
  /\ queue \in [Sems -> Seq(Threads)]
  /\ threadToBeDestroyed \in Threads \cup {NULL}
  /\ cpu \in CpuStates
  /\ yieldOnReturn \in BOOLEAN
  /\ pending \subseteq Devices

\* Initialize: one running thread, whose stack was not allocated here, and
\* interrupt->Enable() as the first tick.
Init ==
  /\ currentThread = MainThread
  /\ status = [t \in Threads |-> IF t = MainThread THEN "RUNNING" ELSE "FREE"]
  /\ context = [t \in Threads |-> IF t = MainThread THEN "code" ELSE "none"]
  /\ inP = [t \in Threads |-> NULL]
  /\ readyList = <<>>
  /\ value = InitialValue
  /\ queue = [s \in Sems |-> <<>>]
  /\ threadToBeDestroyed = NULL
  /\ cpu = "tick"
  /\ yieldOnReturn = FALSE
  /\ pending = {}

-----------------------------------------------------------------------------
(***************************************************************************)
(* Scheduler                                                               *)
(***************************************************************************)

\* Mutant: ReadyToRun with Prepend.
EnqueuedInFront(list, t) == <<t>> \o list

\* The ready list once ReadyToRun has put t on it.
Enqueued(list, t) == Append(list, t)

\* Scheduler::Run(next), from a ready list rl, statuses st and contexts ctx
\* already updated for the thread that gives up the processor.  A thread that
\* was dispatched before returns from SWITCH into Run and deletes the carcass;
\* a new one starts at ThreadRoot and does not.
Run(next, rl, st, ctx) ==
  LET corpse == IF ctx[next] = "root" THEN NULL ELSE threadToBeDestroyed
  IN  /\ currentThread' = next
      /\ readyList' = rl
      /\ status' = [t \in Threads |-> IF t = corpse THEN "FREE"
                                      ELSE IF t = next THEN "RUNNING"
                                      ELSE st[t]]
      /\ context' = [t \in Threads |->
                       IF t = corpse THEN "none"
                       ELSE IF t = next /\ ctx[t] \in {"root", "yield"} THEN "code"
                       ELSE ctx[t]]
      /\ threadToBeDestroyed' = IF corpse = NULL THEN threadToBeDestroyed ELSE NULL
      /\ cpu' = IF ctx[next] \in {"root", "yield"} THEN "tick" ELSE "resume"
      /\ UNCHANGED <<inP, semVars, pending>>

\* The body of Thread::Yield, ending in SetLevel(IntOn), hence in a tick.
YieldBody ==
  \/ /\ readyList = <<>>
     /\ cpu' = "tick"
     /\ UNCHANGED <<currentThread, threadVars, readyList, semVars,
                    threadToBeDestroyed, pending>>
  \/ /\ readyList # <<>>
     /\ Run(Head(readyList), Enqueued(Tail(readyList), currentThread),
            [status EXCEPT ![currentThread] = "READY"],
            [context EXCEPT ![currentThread] = "yield"])

\* The loop of Thread::Sleep finds a thread to run.
SleepDispatch ==
  /\ cpu = "sleep"
  /\ readyList # <<>>
  /\ Run(Head(readyList), Tail(readyList), status, context)
  /\ UNCHANGED yieldOnReturn

-----------------------------------------------------------------------------
(***************************************************************************)
(* Operations of the current thread                                        *)
(***************************************************************************)

\* new Thread(name)
NewThread(t) ==
  /\ cpu = "thread"
  /\ status[t] = "FREE"
  /\ status' = [status EXCEPT ![t] = "JUST_CREATED"]
  /\ UNCHANGED <<currentThread, context, inP, readyList, semVars,
                 threadToBeDestroyed, cpu, yieldOnReturn, pending>>

\* t->Fork(func, arg)
Fork(t) ==
  /\ cpu = "thread"
  /\ status[t] = "JUST_CREATED"
  /\ status' = [status EXCEPT ![t] = "READY"]
  /\ context' = [context EXCEPT ![t] = "root"]
  /\ readyList' = Enqueued(readyList, t)
  /\ cpu' = "tick"
  /\ UNCHANGED <<currentThread, inP, semVars, threadToBeDestroyed,
                 yieldOnReturn, pending>>

\* currentThread->Yield()
Yield ==
  /\ cpu = "thread"
  /\ YieldBody
  /\ UNCHANGED yieldOnReturn

\* Mutant: Finish without disabling interrupts, so that a time slice can come
\* between setting threadToBeDestroyed and going to sleep.
FinishInterruptible ==
  /\ cpu = "thread"
  /\ threadToBeDestroyed' = currentThread
  /\ cpu' = "tick"
  /\ UNCHANGED <<currentThread, threadVars, readyList, semVars, yieldOnReturn, pending>>

\* currentThread->Finish(), up to the loop of Sleep.
Finish ==
  /\ cpu = "thread"
  /\ threadToBeDestroyed' = currentThread
  /\ status' = [status EXCEPT ![currentThread] = "BLOCKED"]
  /\ context' = [context EXCEPT ![currentThread] = "finished"]
  /\ cpu' = "sleep"
  /\ UNCHANGED <<currentThread, inP, readyList, semVars, yieldOnReturn, pending>>

\* One pass of the loop of Semaphore::P, on entry or back from Sleep.
AtP(s) ==
  \/ cpu = "thread"
  \/ cpu = "resume" /\ inP[currentThread] = s

\* value == 0: queue->Append(currentThread), Sleep().
PSleep(s) ==
  /\ AtP(s)
  /\ value[s] = 0
  /\ queue' = [queue EXCEPT ![s] = Append(@, currentThread)]
  /\ inP' = [inP EXCEPT ![currentThread] = s]
  /\ status' = [status EXCEPT ![currentThread] = "BLOCKED"]
  /\ context' = [context EXCEPT ![currentThread] = "P"]
  /\ cpu' = "sleep"
  /\ UNCHANGED <<currentThread, readyList, value, threadToBeDestroyed,
                 yieldOnReturn, pending>>

\* value > 0: value--, and interrupts back on.
PDone(s) ==
  /\ AtP(s)
  /\ value[s] > 0
  /\ value' = [value EXCEPT ![s] = @ - 1]
  /\ inP' = [inP EXCEPT ![currentThread] = NULL]
  /\ context' = [context EXCEPT ![currentThread] = "code"]
  /\ cpu' = "tick"
  /\ UNCHANGED <<currentThread, status, readyList, queue, threadToBeDestroyed,
                 yieldOnReturn, pending>>

\* Mutant: V that wakes a waiter only when the value was zero.
PostWakesAtZero(s) ==
  /\ value' = [value EXCEPT ![s] = @ + 1]
  /\ \/ /\ queue[s] = <<>> \/ value[s] > 0
        /\ UNCHANGED <<queue, readyList, status>>
     \/ /\ queue[s] # <<>> /\ value[s] = 0
        /\ queue' = [queue EXCEPT ![s] = Tail(@)]
        /\ readyList' = Enqueued(readyList, Head(queue[s]))
        /\ status' = [status EXCEPT ![Head(queue[s])] = "READY"]
  /\ UNCHANGED <<currentThread, context, inP, threadToBeDestroyed>>

\* The critical section of Semaphore::V: the first waiter becomes ready and
\* the value goes up, whether or not there was a waiter.
Post(s) ==
  /\ value' = [value EXCEPT ![s] = @ + 1]
  /\ \/ /\ queue[s] = <<>>
        /\ UNCHANGED <<queue, readyList, status>>
     \/ /\ queue[s] # <<>>
        /\ queue' = [queue EXCEPT ![s] = Tail(@)]
        /\ readyList' = Enqueued(readyList, Head(queue[s]))
        /\ status' = [status EXCEPT ![Head(queue[s])] = "READY"]
  /\ UNCHANGED <<currentThread, context, inP, threadToBeDestroyed>>

\* Semaphore::V called by the current thread.
V(s) ==
  /\ cpu = "thread"
  /\ value[s] < MaxValue
  /\ Post(s)
  /\ cpu' = "tick"
  /\ UNCHANGED <<yieldOnReturn, pending>>

\* The current thread starts an operation of an idle device: the device
\* simulator calls Interrupt::Schedule.
DeviceRequest(d) ==
  /\ cpu = "thread"
  /\ d \notin pending
  /\ value[DeviceSem[d]] < MaxValue
  /\ pending' = pending \cup {d}
  /\ UNCHANGED <<currentThread, threadVars, readyList, semVars,
                 threadToBeDestroyed, cpu, yieldOnReturn>>

-----------------------------------------------------------------------------
(***************************************************************************)
(* Interrupts: OneTick, Idle and CheckIfDue                                *)
(***************************************************************************)

\* Sleep found nothing to run and called Idle, which fires the next interrupt;
\* there is one other than the timer's.
IdleFires == cpu = "sleep" /\ readyList = <<>> /\ pending # {}

\* CheckIfDue may fire a handler here, and cpu afterwards.
CanFire ==
  /\ cpu \in {"tick", "idle"} \/ IdleFires
  /\ cpu' = IF cpu = "sleep" THEN "idle" ELSE cpu

\* CheckIfDue fires the handler of a device, which calls V on its semaphore.
DeviceInterrupt(d) ==
  /\ d \in pending
  /\ CanFire
  /\ Post(DeviceSem[d])
  /\ pending' = pending \ {d}
  /\ UNCHANGED yieldOnReturn

\* CheckIfDue fires the timer: TimerExpired, TimerInterruptHandler.  In Idle,
\* not when the timer is the only thing pending.
TimerInterrupt ==
  /\ TimerOn
  /\ CanFire
  /\ cpu = "idle" => pending # {}
  /\ yieldOnReturn' = TRUE
  /\ UNCHANGED <<currentThread, threadVars, readyList, semVars,
                 threadToBeDestroyed, pending>>

\* OneTick has no more interrupts to fire: it returns, or yields first.
TickReturns ==
  /\ cpu = "tick"
  /\ yieldOnReturn' = FALSE
  /\ \/ /\ ~yieldOnReturn
        /\ cpu' = "thread"
        /\ UNCHANGED <<currentThread, threadVars, readyList, semVars,
                       threadToBeDestroyed, pending>>
     \/ /\ yieldOnReturn
        /\ YieldBody

\* Idle returns to the loop of Sleep.
IdleReturns ==
  /\ cpu = "idle"
  /\ cpu' = "sleep"
  /\ yieldOnReturn' = FALSE
  /\ UNCHANGED <<currentThread, threadVars, readyList, semVars,
                 threadToBeDestroyed, pending>>

\* Idle finds no interrupt, or only the timer's: Halt.
Halt ==
  /\ cpu = "sleep"
  /\ readyList = <<>>
  /\ pending = {}
  /\ cpu' = "halted"
  /\ UNCHANGED <<currentThread, threadVars, readyList, semVars,
                 threadToBeDestroyed, yieldOnReturn, pending>>

Halted == cpu = "halted" /\ UNCHANGED vars

-----------------------------------------------------------------------------

Next ==
  \/ \E t \in Threads : NewThread(t) \/ Fork(t)
  \/ Yield
  \/ Finish
  \/ \E s \in Sems : PSleep(s) \/ PDone(s) \/ V(s)
  \/ \E d \in Devices : DeviceRequest(d) \/ DeviceInterrupt(d)
  \/ TimerInterrupt
  \/ SleepDispatch
  \/ TickReturns
  \/ IdleReturns
  \/ Halt
  \/ Halted

Spec == Init /\ [][Next]_vars

\* The processor never stops between two steps, and the timer reschedules
\* itself, so it goes off in some of infinitely many ticks.
FairSpec == Spec /\ WF_vars(Next) /\ SF_vars(TimerInterrupt)
-----------------------------------------------------------------------------
(***************************************************************************)
(* Properties                                                              *)
(***************************************************************************)

\* The thread that has the processor is not running while it sleeps.
Asleep == cpu \in {"sleep", "idle", "halted"}

\* A thread is in exactly one place, and its status says which: RUNNING is the
\* current thread, READY is on readyList once, BLOCKED inside P is on the queue
\* of that semaphore once.  ReadyToRun, FindNextToRun, Run, Sleep, P and V keep
\* five structures in step that nothing in the code compares.
OnePlace ==
  /\ IsInjective(readyList)
  /\ \A s \in Sems : IsInjective(queue[s])
  /\ \A t \in Threads :
       /\ status[t] = "RUNNING" <=> t = currentThread /\ ~Asleep
       /\ status[t] = "READY" <=> t \in Range(readyList)
       /\ \A s \in Sems :
            t \in Range(queue[s]) <=> status[t] = "BLOCKED" /\ inP[t] = s

\* The threads a V on s has woken that have not got through the loop of P yet.
Woken(s) == {t \in Threads : inP[t] = s /\ status[t] # "BLOCKED"}

\* No lost wakeup: while a thread waits on s, every unit of its value is matched
\* by a woken thread that is on its way to consume it.  V raises the value and
\* wakes one thread; a thread that never waited may take the unit first.
NoLostWakeup ==
  \A s \in Sems : queue[s] # <<>> => value[s] <= Cardinality(Woken(s))

\* The carcass is a finished thread nobody will dispatch, and by the time Run
\* deletes it another thread has the processor: the ASSERT of ~Thread holds.
CarcassIsDead ==
  threadToBeDestroyed # NULL =>
    /\ status[threadToBeDestroyed] = "BLOCKED"
    /\ context[threadToBeDestroyed] = "finished"
    /\ threadToBeDestroyed \notin Range(readyList)
    /\ threadToBeDestroyed = currentThread => Asleep

\* The inductive strengthening of the three invariants above: what is on the
\* stack of each thread.  A thread that is ready has stopped at a point Run can
\* continue from, one that executes is out of P unless it was just resumed there,
\* and a Thread object without a stack has none of this.
ContextOK ==
  /\ \A t \in Threads :
       /\ inP[t] # NULL <=> context[t] = "P"
       /\ status[t] = "READY" => context[t] \in {"root", "yield", "P"}
       /\ status[t] \in {"FREE", "JUST_CREATED"} => context[t] = "none"
  /\ cpu \in {"thread", "tick"} => context[currentThread] = "code"
  /\ cpu = "resume" => context[currentThread] = "P"

\* The bookkeeping of the thread system, as an inductive invariant: the types, a
\* thread in one place, only a dead thread about to be deleted (Finish, Run), and
\* in every thread the place where SWITCH will find it again.
KernelInv == TypeOK /\ OnePlace /\ CarcassIsDead /\ ContextOK

\* With the timer on, a thread on the ready list gets the processor: readyList
\* is served in order, and no sequence of V, P, Fork and Yield by the others
\* keeps a ready thread waiting for ever.
ReadyRuns ==
  \A t \in Threads :
    status[t] = "READY" ~> (status[t] = "RUNNING" \/ cpu = "halted")
=============================================================================
