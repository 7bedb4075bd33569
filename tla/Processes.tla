----------------------------- MODULE Processes -----------------------------
(***************************************************************************)
(* User processes: the system calls Exec, Join, Exit, Yield and Halt of    *)
(* ExceptionHandler, over the thread system as the userprog build compiles *)
(* it (Finish also wakes a joined parent and leaves activeThreads).        *)
(*                                                                         *)
(* A process is a thread; its program is any sequence of instructions and  *)
(* system calls.  Machine::Run calls OneTick after every instruction, so   *)
(* every system call ends in a tick.  Memory is in VirtualMemory.          *)
(***************************************************************************)
EXTENDS ThreadKernel, Integers

CONSTANT MaxID   \* bound: the last process number Exec gives out

ASSUME ProcessAssumption == MaxID \in Nat

VARIABLES
  ID, parent, isJoined,   \* fields of Thread
  activeThreads,          \* the processes Exec created and that are not done
  threadID,               \* the next process number
  fresh,                  \* threads that have not reached processCreator yet
  joinTarget,             \* the argument of the Join a process sleeps in
  displaced               \* joiners whose place as parent a later Join took

procVars == <<ID, parent, isJoined, activeThreads, threadID, fresh,
              joinTarget, displaced>>
allVars == <<vars, procVars>>

IDs == -1 .. MaxID

\* StartProcess has jumped into the program given with -x.
ProcInit ==
  /\ Init
  /\ ID = [t \in Threads |-> 0]
  /\ parent = [t \in Threads |-> NULL]
  /\ isJoined = [t \in Threads |-> FALSE]
  /\ activeThreads = <<>>
  /\ threadID = 1
  /\ fresh = {}
  /\ joinTarget = [t \in Threads |-> -1]
  /\ displaced = {}

-----------------------------------------------------------------------------

\* The current thread executes user instructions.
InUser == cpu = "thread" /\ currentThread \notin fresh

\* One instruction, or a system call that changes nothing here: Read, Write, an
\* unknown one, or Exec of a file that does not open.
UserStep ==
  /\ InUser
  /\ cpu' = "tick"
  /\ UNCHANGED <<currentThread, threadVars, readyList, semVars,
                 threadToBeDestroyed, yieldOnReturn, pending, procVars>>

\* processCreator, deleting the carcass given.
ProcessCreatorDeletes(carcass) ==
  /\ cpu = "thread"
  /\ currentThread \in fresh
  /\ fresh' = fresh \ {currentThread}
  /\ status' = [t \in Threads |-> IF t = carcass THEN "FREE" ELSE status[t]]
  /\ context' = [t \in Threads |-> IF t = carcass THEN "none" ELSE context[t]]
  /\ threadToBeDestroyed' = IF carcass = NULL THEN threadToBeDestroyed ELSE NULL
  /\ UNCHANGED <<currentThread, inP, readyList, semVars, cpu, yieldOnReturn, pending,
                 ID, parent, isJoined, activeThreads, threadID, joinTarget, displaced>>

\* Mutant: processCreator without the deletion, as in a thread's own start.
ProcessCreatorKeepsCarcass == ProcessCreatorDeletes(NULL)

\* The start of a forked process deletes the carcass that Run would have
\* deleted had the thread been dispatched before.
ProcessCreator == ProcessCreatorDeletes(threadToBeDestroyed)

\* SC_Exec of a file that opens: AddrSpace, new Thread (here with a number and a
\* parent), Fork(processCreator).
ExecAs(t, number, itsParent) ==
  /\ InUser
  /\ threadID <= MaxID
  /\ status[t] = "FREE"
  /\ ID' = [ID EXCEPT ![t] = number]
  /\ parent' = [parent EXCEPT ![t] = itsParent]
  /\ isJoined' = [isJoined EXCEPT ![t] = FALSE]
  /\ activeThreads' = Append(activeThreads, t)
  /\ threadID' = threadID + 1
  /\ fresh' = fresh \cup {t}
  /\ status' = [status EXCEPT ![t] = "READY"]
  /\ context' = [context EXCEPT ![t] = "root"]
  /\ readyList' = Enqueued(readyList, t)
  /\ cpu' = "tick"
  /\ UNCHANGED <<currentThread, inP, semVars, threadToBeDestroyed, yieldOnReturn, pending,
                 joinTarget, displaced>>

\* Mutant: a Thread constructor that leaves parent as the memory was.
ExecKeepsParent(t) == ExecAs(t, threadID, parent[t])

Exec(t) == ExecAs(t, threadID, NULL)

\* getID(n): the active process with this number.
GetID(n) ==
  IF \E t \in Range(activeThreads) : ID[t] = n
  THEN CHOOSE t \in Range(activeThreads) : ID[t] = n
  ELSE NULL

\* SC_Join of n prints an error and goes on: n is negative, no active process
\* has it, or the caller is already joined.
JoinContinues(n) ==
  /\ InUser
  /\ n < 0 \/ GetID(n) = NULL \/ isJoined[currentThread]
  /\ cpu' = "tick"
  /\ UNCHANGED <<currentThread, threadVars, readyList, semVars, threadToBeDestroyed,
                 yieldOnReturn, pending, ID, parent, isJoined, activeThreads,
                 threadID, fresh, joinTarget, displaced>>

\* SC_Join of n goes to sleep, after making p the parent of c.
JoinSleepsAs(n, c, p) ==
  /\ InUser
  /\ n >= 0 /\ GetID(n) # NULL /\ ~isJoined[currentThread]
  /\ parent' = [parent EXCEPT ![c] = p]
  /\ isJoined' = [isJoined EXCEPT ![currentThread] = TRUE]
  /\ joinTarget' = [joinTarget EXCEPT ![currentThread] = n]
  /\ displaced' = displaced \cup ({parent[c]} \ {NULL})
  /\ status' = [status EXCEPT ![currentThread] = "BLOCKED"]
  /\ context' = [context EXCEPT ![currentThread] = "join"]
  /\ cpu' = "sleep"
  /\ UNCHANGED <<currentThread, inP, readyList, semVars, threadToBeDestroyed,
                 yieldOnReturn, pending, ID, activeThreads, threadID, fresh>>

\* Mutant: Join that gives the caller the child as its parent.
JoinSleepsSwapped(n) == JoinSleepsAs(n, currentThread, GetID(n))

\* The caller sleeps until the process it made itself the parent of is done.
JoinSleeps(n) == JoinSleepsAs(n, GetID(n), currentThread)

\* Sleep returns into the Join system call.  Nothing there turns interrupts back
\* on; the OneTick that ends the instruction does.
JoinReturns ==
  /\ cpu = "resume"
  /\ context[currentThread] = "join"
  /\ context' = [context EXCEPT ![currentThread] = "code"]
  /\ joinTarget' = [joinTarget EXCEPT ![currentThread] = -1]
  /\ displaced' = displaced \ {currentThread}
  /\ cpu' = "tick"
  /\ UNCHANGED <<currentThread, status, inP, readyList, semVars, threadToBeDestroyed,
                 yieldOnReturn, pending, ID, parent, isJoined, activeThreads,
                 threadID, fresh>>

\* One pass of the loop of Finish over activeThreads: the first element is taken
\* off the list and put back at its end unless it is t, and i is compared with the
\* size the list has by then, less slack.
SweepPass(q, i, t, slack) ==
  IF i >= Len(q) - slack THEN q
  ELSE IF Head(q) = t THEN Tail(q) ELSE Append(Tail(q), Head(q))

\* Mutant: the loop of Finish stops one element early.
SweptShort(list, t) ==
  LET pass[i \in 0 .. Len(list)] ==
        IF i = 0 THEN list ELSE SweepPass(pass[i - 1], i - 1, t, 1)
  IN  pass[Len(list)]

\* The list after the loop; it cannot take more passes than there were elements.
Swept(list, t) ==
  LET pass[i \in 0 .. Len(list)] ==
        IF i = 0 THEN list ELSE SweepPass(pass[i - 1], i - 1, t, 0)
  IN  pass[Len(list)]

\* Mutant: WakeUpFromJoin that forgets the ready list.
WakeUpFromJoinForgets(t) ==
  /\ status' = [status EXCEPT ![t] = "READY", ![currentThread] = "BLOCKED"]
  /\ isJoined' = [isJoined EXCEPT ![t] = FALSE]
  /\ UNCHANGED readyList

\* scheduler->WakeUpFromJoin(t), and the BLOCKED of the Sleep that follows.
WakeUpFromJoin(t) ==
  /\ readyList' = <<t>> \o readyList
  /\ status' = [status EXCEPT ![t] = "READY", ![currentThread] = "BLOCKED"]
  /\ isJoined' = [isJoined EXCEPT ![t] = FALSE]

\* SC_Exit, or an exception that ends the process: Finish, up to the loop of Sleep.
Exit ==
  /\ InUser
  /\ threadToBeDestroyed' = currentThread
  /\ \/ /\ parent[currentThread] # NULL
        /\ WakeUpFromJoin(parent[currentThread])
     \/ /\ parent[currentThread] = NULL
        /\ status' = [status EXCEPT ![currentThread] = "BLOCKED"]
        /\ UNCHANGED <<readyList, isJoined>>
  /\ activeThreads' = Swept(activeThreads, currentThread)
  /\ context' = [context EXCEPT ![currentThread] = "finished"]
  /\ cpu' = "sleep"
  /\ UNCHANGED <<currentThread, inP, semVars, yieldOnReturn, pending,
                 ID, parent, threadID, fresh, joinTarget, displaced>>

\* SC_Halt by any process, or a fatal exception of the first one (an ASSERT,
\* when the two literals "main" share an address).
HaltCall ==
  /\ InUser
  /\ cpu' = "halted"
  /\ UNCHANGED <<currentThread, threadVars, readyList, semVars,
                 threadToBeDestroyed, yieldOnReturn, pending, procVars>>

-----------------------------------------------------------------------------

\* SC_Yield, and the kernel's own steps under a process.
Kernel ==
  /\ \/ InUser /\ Yield
     \/ TimerInterrupt
     \/ SleepDispatch
     \/ TickReturns
     \/ Halt
     \/ Halted
  /\ UNCHANGED procVars

ProcNext ==
  \/ UserStep
  \/ ProcessCreator
  \/ \E t \in Threads : Exec(t)
  \/ \E n \in IDs : JoinContinues(n) \/ JoinSleeps(n)
  \/ JoinReturns
  \/ Exit
  \/ HaltCall
  \/ Kernel

ProcSpec == ProcInit /\ [][ProcNext]_allVars

\* The processor goes on, and the timer interrupts some of infinitely many ticks.
ProcFairSpec ==
  ProcSpec /\ WF_allVars(ProcNext) /\ SF_allVars(TimerInterrupt /\ UNCHANGED procVars)
-----------------------------------------------------------------------------
(***************************************************************************)
(* Properties                                                              *)
(***************************************************************************)

\* A process that exists: created and not finished.
Alive(t) == status[t] # "FREE" /\ context[t] # "finished"

InJoin(t) == context[t] = "join" /\ status[t] = "BLOCKED"

\* The thread system stays consistent under WakeUpFromJoin, which puts a thread
\* on the ready list that no semaphore knows, and under processCreator, which does
\* for a new process what Run does for one that was switched out: until the machine
\* stops every thread is in one place, only a dead one is about to be deleted, and
\* every other finished process has been deleted.
SchedulerOK ==
  /\ cpu # "halted" => OnePlace /\ CarcassIsDead
  /\ \A t \in Threads : context[t] = "finished" => t = threadToBeDestroyed

\* activeThreads holds exactly the live processes Exec created, once each and
\* under different numbers.  So getID never hands out a deleted Thread, and the
\* loop of Finish, whose bound shrinks while it runs, always drops its own entry.
ActiveIsAlive ==
  /\ IsInjective(activeThreads)
  /\ Range(activeThreads) = {t \in Threads : Alive(t) /\ ID[t] # 0}
  /\ \A t, u \in Range(activeThreads) : ID[t] = ID[u] => t = u

\* parent, isJoined and the threads asleep in Join agree.  The parent pointer of a
\* live process names a thread asleep in Join, and no two live processes have the
\* same, so Finish never wakes a deleted, a running or an already woken thread.
\* A process asleep in Join has somebody to wake it, the process it joined, unless
\* another process joined that one later and took its place.  isJoined is set
\* exactly while a process sleeps in Join.
JoinersAreParents ==
  /\ \A c \in Threads : Alive(c) /\ parent[c] # NULL =>
       /\ InJoin(parent[c])
       /\ \A d \in Threads : Alive(d) /\ parent[d] = parent[c] => d = c
  /\ \A t \in Threads : InJoin(t) /\ t \notin displaced =>
       \E c \in Threads : Alive(c) /\ ID[c] = joinTarget[t] /\ parent[c] = t
  /\ \A t \in Threads : isJoined[t] <=> Alive(t) /\ InJoin(t)

\* Join returns only once the process it names has finished (syscall.h), however
\* many processes join, yield, exit and are created in between.
JoinWaits ==
  [][\A t \in Threads :
       InJoin(t) /\ ~InJoin(t)' =>
         ~\E c \in Threads : Alive(c)' /\ ID'[c] = joinTarget[t]]_allVars

\* A process whose joined child has ended runs again.
JoinerRuns ==
  \A t \in Threads :
    (context[t] = "join" /\ status[t] = "READY") ~> (currentThread = t \/ cpu = "halted")

\* A process that is joined cannot be joined by another: SC_Join says it prints
\* an error and goes on.  (Violated: the test looks at the caller's flag.)
JoinedOnce ==
  [][\A c \in Threads :
       Alive(c) /\ parent[c] # NULL /\ Alive(c)' => parent'[c] = parent[c]]_allVars
=============================================================================
