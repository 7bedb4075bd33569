------------------------------ MODULE Devices -------------------------------
(***************************************************************************)
(* The device simulators on the interrupt clock: Timer, Console and Disk,  *)
(* with the kernel code that waits for them: ConsoleTest, and SynchDisk    *)
(* called by a thread that also runs user instructions.                    *)
(*                                                                         *)
(* workload says what main does: "console" is nachos -c, "disk" is kernel  *)
(* code that reads and writes sectors between user instructions.  timerOn  *)
(* says whether -rs started the timer.                                     *)
(***************************************************************************)
EXTENDS InterruptClock

CONSTANTS
  TimerTicks, ConsoleTime, RotationTime, SeekTime,   \* see stats.h
  SectorsPerTrack, NumTracks,                        \* see disk.h
  Chars,     \* the characters that can be typed, the two below included
  EOF,       \* 0xff, which is also what GetChar returns for "no character"
  QUIT,      \* 'q', on which ConsoleTest returns
  MaxTyped   \* bound on the characters typed

NumSectors == SectorsPerTrack * NumTracks

ASSUME DeviceAssumption ==
  /\ {TimerTicks, ConsoleTime, RotationTime, SeekTime, SectorsPerTrack,
      NumTracks, MaxTyped} \subseteq Nat \ {0}
  /\ {EOF, QUIT} \subseteq Chars
  /\ NIL \notin IntTypes \cup {"main"}

VARIABLES
  workload, timerOn,
  value, queue,      \* the semaphores: readAvail, writeDone, and the disk's
  pc,                \* where main is
  incoming, putBusy, ch,   \* Console's buffer and flag, ConsoleTest's local
  typed, shown,      \* history: what the keyboard sent and the display got
  active, lastSector, bufferInit,   \* Disk
  request            \* history: the last request

consoleVars == <<incoming, putBusy, ch, typed, shown>>
diskVars == <<active, lastSector, bufferInit, request>>
devVars == <<clockVars, workload, timerOn, value, queue, pc, consoleVars, diskVars>>

Sems == {"readAvail", "writeDone", "synch disk"}
Main == "main"
NoRequest == [sector |-> -1, due |-> 0, buffered |-> FALSE]

\* What Timer::TimeOfNextInterrupt may return; the timer is only started with
\* randomize on.
TimeOfNextInterrupt == 1..(TimerTicks * 2)

\* Initialize, up to interrupt->Enable().
DevInit ==
  /\ workload \in {"console", "disk"}
  /\ timerOn \in BOOLEAN
  /\ now = 0
  /\ status = "SystemMode" /\ old = "SystemMode"
  /\ yieldOnReturn = FALSE
  /\ pending = NewList(MaxPending)
  /\ cpu = "boot"
  /\ ready = FALSE
  /\ value = [s \in Sems |-> 0]
  /\ queue = [s \in Sems |-> NewList(1)]
  /\ pc = "start"
  /\ incoming = EOF /\ putBusy = FALSE /\ ch = EOF
  /\ typed = <<>> /\ shown = <<>>
  /\ active = FALSE /\ lastSector = 0 /\ bufferInit = 0
  /\ request = NoRequest

\* new Timer, if -rs was given, then interrupt->Enable().
Enable ==
  /\ cpu = "boot"
  /\ \/ /\ timerOn
        /\ \E d \in TimeOfNextInterrupt :
             pending' = Schedule(pending, "TimerInt", d, now)
     \/ ~timerOn /\ UNCHANGED pending
  /\ BeginTick("SystemMode")
  /\ UNCHANGED <<yieldOnReturn, ready, workload, timerOn, value, queue, pc,
                 consoleVars, diskVars>>

-----------------------------------------------------------------------------
(***************************************************************************)
(* Semaphores, with main as the only thread that waits                     *)
(***************************************************************************)

\* Semaphore::P finds the value 0: main goes on the queue and to sleep.
PSleep(s) ==
  /\ cpu \in {"thread", "resume"}
  /\ value[s] = 0
  /\ queue' = [queue EXCEPT ![s] = ListAppend(@, Main)]
  /\ cpu' = "sleep"
  /\ UNCHANGED <<now, status, old, yieldOnReturn, pending, ready, value>>

\* Semaphore::P takes a unit and turns interrupts back on.
PDone(s) ==
  /\ cpu \in {"thread", "resume"}
  /\ value[s] > 0
  /\ value' = [value EXCEPT ![s] = @ - 1]
  /\ BeginTick(status)
  /\ UNCHANGED <<yieldOnReturn, pending, ready, queue>>

\* Semaphore::V from a handler.
Post(s) ==
  /\ value' = [value EXCEPT ![s] = @ + 1]
  /\ queue' = [queue EXCEPT ![s] = ListRemove(@)]
  /\ ready' = (ready \/ ~IsEmpty(queue[s]))

-----------------------------------------------------------------------------
(***************************************************************************)
(* Timer                                                                   *)
(***************************************************************************)

\* Timer::TimerExpired and the handler of system.cc, which asks for a yield
\* unless the machine was idle; handlers run in SystemMode, so it always does.
TimerExpired ==
  /\ \E d \in TimeOfNextInterrupt : Fire("TimerInt", Again("TimerInt", d))
  /\ yieldOnReturn' = TRUE
  /\ UNCHANGED <<ready, workload, timerOn, value, queue, pc, consoleVars, diskVars>>

-----------------------------------------------------------------------------
(***************************************************************************)
(* Console and ConsoleTest                                                 *)
(***************************************************************************)

\* Console::Console starts the polling.
StartConsole ==
  /\ cpu = "thread" /\ workload = "console" /\ pc = "start"
  /\ pending' = Schedule(pending, "ConsoleReadInt", ConsoleTime, now)
  /\ pc' = "read"
  /\ UNCHANGED <<now, status, old, yieldOnReturn, cpu, ready, workload, timerOn,
                 value, queue, consoleVars, diskVars>>

\* Mutant: CheckCharAvail that does not look whether a character is buffered.
CheckCharAvailAlways(c) ==
  /\ Fire("ConsoleReadInt", Again("ConsoleReadInt", ConsoleTime))
  /\ Len(typed) < MaxTyped
  /\ incoming' = c
  /\ typed' = Append(typed, c)
  /\ Post("readAvail")
  /\ UNCHANGED <<yieldOnReturn, workload, timerOn, pc, putBusy, ch, shown, diskVars>>

\* Console::CheckCharAvail, when there is room and PollFile finds character c.
CheckCharAvail(c) ==
  /\ Fire("ConsoleReadInt", Again("ConsoleReadInt", ConsoleTime))
  /\ incoming = EOF
  /\ Len(typed) < MaxTyped
  /\ incoming' = c
  /\ typed' = Append(typed, c)
  /\ Post("readAvail")
  /\ UNCHANGED <<yieldOnReturn, workload, timerOn, pc, putBusy, ch, shown, diskVars>>

\* Console::CheckCharAvail, when a character is buffered or none was typed.
CheckCharNone ==
  /\ Fire("ConsoleReadInt", Again("ConsoleReadInt", ConsoleTime))
  /\ UNCHANGED <<yieldOnReturn, ready, workload, timerOn, value, queue, pc,
                 consoleVars, diskVars>>

\* Console::WriteDone
WriteDone ==
  /\ Fire("ConsoleWriteInt", SortedRemove(pending))
  /\ putBusy' = FALSE
  /\ Post("writeDone")
  /\ UNCHANGED <<yieldOnReturn, workload, timerOn, pc, incoming, ch, typed, shown,
                 diskVars>>

\* readAvail->P()
WaitChar ==
  /\ pc = "read"
  /\ \/ PSleep("readAvail") /\ UNCHANGED pc
     \/ PDone("readAvail") /\ pc' = "echo"
  /\ UNCHANGED <<workload, timerOn, consoleVars, diskVars>>

\* ch = console->GetChar(); console->PutChar(ch), whose ASSERT is PutNotBusy.
Echo ==
  /\ cpu = "thread" /\ pc = "echo"
  /\ ch' = incoming
  /\ incoming' = EOF
  /\ shown' = Append(shown, incoming)
  /\ putBusy' = TRUE
  /\ pending' = Schedule(pending, "ConsoleWriteInt", ConsoleTime, now)
  /\ pc' = "write"
  /\ UNCHANGED <<now, status, old, yieldOnReturn, cpu, ready, workload, timerOn,
                 value, queue, typed, diskVars>>

\* writeDone->P(), and the test for 'q'.
WaitWritten ==
  /\ pc = "write"
  /\ \/ PSleep("writeDone") /\ UNCHANGED pc
     \/ PDone("writeDone") /\ pc' = IF ch = QUIT THEN "quit" ELSE "read"
  /\ UNCHANGED <<workload, timerOn, consoleVars, diskVars>>

\* main calls interrupt->Halt() when ConsoleTest returns.
QuitHalts ==
  /\ cpu = "thread" /\ pc = "quit"
  /\ cpu' = "halted"
  /\ UNCHANGED <<now, status, old, yieldOnReturn, pending, ready, workload, timerOn,
                 value, queue, pc, consoleVars, diskVars>>

-----------------------------------------------------------------------------
(***************************************************************************)
(* Disk and SynchDisk                                                      *)
(***************************************************************************)

Track(sector) == sector \div SectorsPerTrack

\* Disk::TimeToSeek: the seek, and the wait for the next sector boundary.
TimeToSeek(newSector) ==
  LET distance == Track(newSector) - Track(lastSector)
      seek == SeekTime * (IF distance < 0 THEN -distance ELSE distance)
      over == (now + seek) % RotationTime
  IN  [seek |-> seek, rotation |-> IF over > 0 THEN RotationTime - over ELSE 0]

\* Disk::ModuloDiff: sectors of rotational delay from one sector to another.
ModuloDiff(to, from) ==
  (((to % SectorsPerTrack) - (from % SectorsPerTrack)) + SectorsPerTrack) % SectorsPerTrack

\* Mutant: one sector too soon.
InTrackBufferOffByOne(newSector) ==
  LET t == TimeToSeek(newSector)
  IN  /\ t.seek = 0
      /\ (now + t.rotation - bufferInit) \div RotationTime
           >= ModuloDiff(newSector, bufferInit \div RotationTime)

\* The read can be served from the track buffer: the sector has gone past the
\* head since the buffer started to load.
InTrackBuffer(newSector) ==
  LET t == TimeToSeek(newSector)
  IN  /\ t.seek = 0
      /\ (now + t.rotation - bufferInit) \div RotationTime
           > ModuloDiff(newSector, bufferInit \div RotationTime)

\* Disk::ComputeLatency
ComputeLatency(newSector, writing) ==
  LET t == TimeToSeek(newSector)
      timeAfter == now + t.seek + t.rotation
  IN  IF ~writing /\ InTrackBuffer(newSector)
      THEN RotationTime
      ELSE t.seek + t.rotation
             + ModuloDiff(newSector, timeAfter \div RotationTime) * RotationTime
             + RotationTime

\* bufferInit after Disk::UpdateLast.
BufferInit(newSector) ==
  LET t == TimeToSeek(newSector)
  IN  IF t.seek # 0 THEN now + t.seek + t.rotation ELSE bufferInit

\* SynchDisk::ReadSector and WriteSector up to semaphore->P(): lock->Acquire()
\* does nothing, and Disk::ReadRequest or WriteRequest starts the operation.
DiskRequest(newSector, writing) ==
  LET ticks == ComputeLatency(newSector, writing)
  IN  /\ cpu = "thread" /\ workload = "disk" /\ pc = "kernel"
      /\ now < MaxTime
      /\ active' = TRUE
      /\ bufferInit' = BufferInit(newSector)
      /\ lastSector' = newSector
      /\ request' = [sector |-> newSector, due |-> now + ticks,
                     buffered |-> ~writing /\ InTrackBuffer(newSector)]
      /\ pending' = Schedule(pending, "DiskInt", ticks, now)
      /\ pc' = "io"
      /\ UNCHANGED <<now, status, old, yieldOnReturn, cpu, ready, workload, timerOn,
                     value, queue, consoleVars>>

\* Disk::HandleInterrupt and SynchDisk::RequestDone
DiskDone ==
  /\ Fire("DiskInt", SortedRemove(pending))
  /\ active' = FALSE
  /\ Post("synch disk")
  /\ UNCHANGED <<yieldOnReturn, workload, timerOn, pc, consoleVars, lastSector,
                 bufferInit, request>>

\* semaphore->P() and lock->Release(), which does nothing.
WaitDisk ==
  /\ pc = "io"
  /\ \/ PSleep("synch disk") /\ UNCHANGED pc
     \/ PDone("synch disk") /\ pc' = "kernel"
  /\ UNCHANGED <<workload, timerOn, consoleVars, diskVars>>

-----------------------------------------------------------------------------
(***************************************************************************)
(* User instructions                                                       *)
(***************************************************************************)

\* Machine::Run, or the return from RaiseException: back to user mode.
ToUser ==
  /\ cpu = "thread" /\ workload = "disk" /\ pc \in {"start", "kernel"}
  /\ status' = "UserMode"
  /\ pc' = "user"
  /\ UNCHANGED <<now, old, yieldOnReturn, pending, cpu, ready, workload, timerOn,
                 value, queue, consoleVars, diskVars>>

\* Machine::Run executes one instruction and calls OneTick.
UserInstruction ==
  /\ cpu = "thread" /\ pc = "user"
  /\ now < MaxTime
  /\ BeginTick("UserMode")
  /\ UNCHANGED <<yieldOnReturn, pending, ready, workload, timerOn, value, queue, pc,
                 consoleVars, diskVars>>

\* Machine::RaiseException enters the kernel.
RaiseException ==
  /\ cpu = "thread" /\ pc = "user"
  /\ status' = "SystemMode"
  /\ pc' = "kernel"
  /\ UNCHANGED <<now, old, yieldOnReturn, pending, cpu, ready, workload, timerOn,
                 value, queue, consoleVars, diskVars>>

\* The program exits: main finishes and sleeps for ever.
ProgramExits ==
  /\ cpu = "thread" /\ workload = "disk" /\ pc = "kernel"
  /\ pc' = "finished"
  /\ cpu' = "sleep"
  /\ UNCHANGED <<now, status, old, yieldOnReturn, pending, ready, workload, timerOn,
                 value, queue, consoleVars, diskVars>>

-----------------------------------------------------------------------------

\* The bound of the model: time is not followed further.
Horizon == now >= MaxTime /\ UNCHANGED devVars

Halted == cpu = "halted" /\ UNCHANGED devVars

ClockStep ==
  /\ TickReturns \/ IdleReturns \/ IdleHalts \/ Dispatch
  /\ UNCHANGED <<workload, timerOn, value, queue, pc, consoleVars, diskVars>>

DevNext ==
  \/ Enable
  \/ ClockStep
  \/ TimerExpired
  \/ StartConsole \/ WaitChar \/ Echo \/ WaitWritten \/ QuitHalts
  \/ \E c \in Chars : CheckCharAvail(c)
  \/ CheckCharNone \/ WriteDone
  \/ \E s \in 0..(NumSectors - 1), writing \in BOOLEAN : DiskRequest(s, writing)
  \/ DiskDone \/ WaitDisk
  \/ ToUser \/ UserInstruction \/ RaiseException \/ ProgramExits
  \/ Horizon
  \/ Halted

DevSpec == DevInit /\ [][DevNext]_devVars

-----------------------------------------------------------------------------
(***************************************************************************)
(* Properties                                                              *)
(***************************************************************************)

\* The pending interrupts as the abstract queue sees them.
Events == {[kind |-> pending.item[c], when |-> pending.key[c]] : c \in Allocated(pending)}

\* Interrupt keeps the promise of EventQueue: whatever SortedInsert and
\* SortedRemove do to the cells, and although CheckIfDue takes the first
\* interrupt off the list and puts it back whenever it is not due yet, no
\* interrupt is lost, doubled, early, out of order, or late by more than one
\* tick of the kernel.
Queue == INSTANCE EventQueue WITH Kinds <- IntTypes, MaxLate <- SystemTick,
                                  events <- Events
InterruptsInTime == Queue!EQSpec

\* The linked lists stay lists: pending and the semaphore queues are one chain
\* from first to last holding every allocated cell, pending is sorted, and a
\* device has at most one interrupt of each type pending.  size never runs
\* ahead of the length of a semaphore's queue: a V on an empty queue makes it
\* fall behind.
ListsOK ==
  /\ WellLinked(pending) /\ Sorted(pending)
  /\ \A c, d \in Allocated(pending) : pending.item[c] = pending.item[d] => c = d
  /\ \A s \in Sems : /\ WellLinked(queue[s])
                     /\ queue[s].size <= Cardinality(Allocated(queue[s]))

\* Idle stops the machine only when nothing can happen any more: main is gone
\* and no device is at work.  "If the console or the network is operating,
\* there are *always* pending interrupts, so this code is not reached."
HaltMeansDone ==
  cpu = "halted" =>
    /\ pc = IF workload = "console" THEN "quit" ELSE "finished"
    /\ ~active /\ ~putBusy

\* ConsoleTest echoes what is typed, in order and without loss, unless a 0xff is
\* typed: stored in incoming it looks like an empty buffer, and the next poll
\* overwrites it.
EchoInOrder ==
  EOF \notin Range(typed) =>
    typed = IF incoming = EOF THEN shown ELSE Append(shown, incoming)

\* The data of a sector is delivered only when the sector has passed under the
\* head.  A request that goes to the surface completes exactly at the end of its
\* sector: the seek, the wait for a sector boundary and the rotation add up to the
\* right angle whatever the time of the request.  A read is served from the track
\* buffer only when its sector passed, from one boundary to the next, after the
\* seek that emptied the buffer and before the data is delivered.
SectorPassed ==
  /\ request # NoRequest /\ ~request.buffered =>
       /\ request.due % RotationTime = 0
       /\ (request.due \div RotationTime) % SectorsPerTrack
            = (request.sector + 1) % SectorsPerTrack
  /\ request.buffered =>
       \E k \in 0..(request.due \div RotationTime) :
         /\ bufferInit <= k * RotationTime
         /\ (k + 1) * RotationTime <= request.due
         /\ k % SectorsPerTrack = request.sector % SectorsPerTrack
=============================================================================
