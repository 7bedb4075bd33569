--------------------------- MODULE InterruptClock ---------------------------
(***************************************************************************)
(* Interrupt (machine/interrupt.cc) with its simulated time: the pending   *)
(* interrupts are a List sorted by the time they are due, time moves when  *)
(* interrupts are turned back on, when a user instruction completes and    *)
(* when the machine idles, and CheckIfDue fires what is due.               *)
(*                                                                         *)
(* ThreadKernel lets an interrupt come at any point where the code could   *)
(* take one; here its time decides.  cpu has the meaning it has there.     *)
(* One thread, main, uses the machine, so Sleep always waits in Idle.      *)
(***************************************************************************)
EXTENDS LinkedList

CONSTANTS
  UserTick, SystemTick,   \* how far OneTick moves the clock
  MaxPending,             \* cells for pending: one per interrupt pending at a time
  MaxTime                 \* bound: the machine is not followed past this time

ASSUME ClockAssumption ==
  /\ {UserTick, SystemTick, MaxPending, MaxTime} \subseteq Nat \ {0}
  /\ UserTick <= SystemTick /\ MaxPending >= 3

VARIABLES
  now,             \* stats->totalTicks
  status,          \* Interrupt::status, a MachineStatus
  old,             \* OneTick's local, the status before the outermost tick
  yieldOnReturn,   \* Interrupt::yieldOnReturn
  pending,         \* Interrupt::pending
  cpu,             \* where the processor is
  ready            \* whether main is on the ready list

clockVars == <<now, status, old, yieldOnReturn, pending, cpu, ready>>

IntTypes == {"TimerInt", "DiskInt", "ConsoleWriteInt", "ConsoleReadInt"}

\* Interrupt::Schedule, called at a given time; the item is the interrupt's type.
Schedule(list, type, fromNow, time) == SortedInsert(list, type, time + fromNow)

\* How far OneTick moves the clock.
TickLength(mode) == IF mode = "SystemMode" THEN SystemTick ELSE UserTick

\* OneTick up to its loop, called outside any other tick in the given mode.
BeginTick(mode) ==
  /\ now' = now + TickLength(mode)
  /\ status' = mode
  /\ old' = mode
  /\ cpu' = "tick"

\* "Not time yet, put it back": the first interrupt is taken off the list and
\* inserted again, behind any other that is due at the same time.
PutBack(list) ==
  IF IsEmpty(list) THEN list
  ELSE SortedInsert(SortedRemove(list), FirstItem(list), FirstKey(list))

\* The time CheckIfDue compares with: in the first call from Idle the clock is
\* moved forward to the next interrupt.
Clock == IF cpu = "sleep" /\ ~IsEmpty(pending) THEN Max({now, FirstKey(pending)}) ELSE now

\* Mutant: the timer is first, whatever comes after it.
TimerFirst == FirstItem(pending) = "TimerInt"

\* "Nothing more to do": idle, and the timer is all there is.
OnlyTimer == IsEmpty(SortedRemove(pending)) /\ FirstItem(pending) = "TimerInt"

\* CheckIfDue fires the first interrupt.
Due ==
  /\ ~IsEmpty(pending)
  /\ FirstKey(pending) <= Clock
  /\ ~(cpu # "tick" /\ OnlyTimer)

\* What is pending when the handler schedules another interrupt.
Again(type, fromNow) == Schedule(SortedRemove(pending), type, fromNow, Clock)

Sleeping == cpu = "sleep" /\ ~ready

\* CheckIfDue fires an interrupt of this type; left is what is pending when its
\* handler returns.
Fire(type, left) ==
  /\ cpu \in {"tick", "idle"} \/ Sleeping
  /\ now < MaxTime
  /\ Due
  /\ FirstItem(pending) = type
  /\ now' = Clock
  /\ pending' = left
  /\ cpu' = IF cpu = "sleep" THEN "idle" ELSE cpu
  /\ status' = IF cpu = "tick" THEN status ELSE "IdleMode"
  /\ UNCHANGED old

\* OneTick finds nothing due.  With yieldOnReturn it calls Yield, which finds
\* the ready list empty and turns interrupts on again: a tick in the tick.
TickReturns ==
  /\ cpu = "tick"
  /\ ~Due
  /\ pending' = PutBack(pending)
  /\ yieldOnReturn' = FALSE
  /\ \/ /\ ~yieldOnReturn
        /\ cpu' = "thread"
        /\ status' = old
        /\ UNCHANGED now
     \/ /\ yieldOnReturn
        /\ cpu' = "tick"
        /\ status' = "SystemMode"
        /\ now' = now + TickLength("SystemMode")
  /\ UNCHANGED <<old, ready>>

\* Idle finds no other interrupt due and returns to the loop of Sleep.
IdleReturns ==
  /\ cpu = "idle"
  /\ ~Due
  /\ pending' = PutBack(pending)
  /\ yieldOnReturn' = FALSE
  /\ status' = "SystemMode"
  /\ cpu' = "sleep"
  /\ UNCHANGED <<now, old, ready>>

\* Idle finds nothing pending, or only the timer, which it puts back: Halt.
IdleHalts ==
  /\ Sleeping
  /\ ~Due
  /\ now' = Clock
  /\ pending' = PutBack(pending)
  /\ status' = "IdleMode"
  /\ cpu' = "halted"
  /\ UNCHANGED <<old, yieldOnReturn, ready>>

\* Sleep finds main on the ready list.
Dispatch ==
  /\ cpu = "sleep"
  /\ ready
  /\ ready' = FALSE
  /\ cpu' = "resume"
  /\ UNCHANGED <<now, status, old, yieldOnReturn, pending>>

=============================================================================
