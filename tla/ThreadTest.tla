----------------------------- MODULE ThreadTest -----------------------------
(***************************************************************************)
(* threads/threadtest.cc: the main thread starts the threads of one        *)
(* program and finishes.  The shouting, zombie and spawn programs are      *)
(* here, the philosophers and the rock band in modules of their own.       *)
(* (main.cc has the call of ThreadTest commented out.)                     *)
(***************************************************************************)
EXTENDS Philosophers, RockBand

CONSTANTS
  NumShouts,
  Checked,      \* the literal 10 of zombieCheck and zombieStuff
  MaxBorn       \* bound: the last number spawn gives out

VARIABLES
  shouted,      \* how often each thread shouted
  numHumans,    \* as the user says, for the zombie program
  humans,       \* HIDE, RUN or ZOMBIE
  maxThread,    \* the last number given out by spawn
  number        \* the number each thread was born with

ownVars == <<shouted, numHumans, humans, maxThread, number>>
allVars == <<vars, testVars, philoVars, bandVars, ownVars>>

Others == <<philoVars, bandVars>>

\* The zombie is thread numHumans, the humans are the ones before.
Humans == 0..(numHumans - 1)

ASSUME ThreadTestAssumption ==
  /\ Workers = 0..(NumWorkers - 1) /\ NumWorkers >= 2
  /\ Checked \in Nat
  /\ NumMeals \in Nat /\ NumSongs \in Nat /\ getInstrument \in Sems

-----------------------------------------------------------------------------

\* shoutingThreads
Shout ==
  /\ At("shouter")
  /\ \/ shouted[me] >= NumShouts /\ Local("return") /\ UNCHANGED <<shouted, loops>>
     \/ /\ shouted[me] < NumShouts /\ Local("pause")
        /\ shouted' = [shouted EXCEPT ![me] = @ + 1]
        /\ \E n \in 1..MaxLoops : loops' = [loops EXCEPT ![me] = n]
  /\ UNCHANGED <<numHumans, humans, maxThread, number, Others>>

Pause == Turns("pause", "shouter", {0}) /\ UNCHANGED <<ownVars, Others>>

-----------------------------------------------------------------------------

\* zombieCheck() finds no human that is not a zombie, of those it looks at.
AllZombies == \A i \in Humans : i < Checked => humans[i] = "ZOMBIE"

\* It looks at Checked humans however many there are, and catches among as many.
\* With fewer humans it goes past the end of the array: what it finds there is
\* somebody else's memory, which may look like a zombie or not.
ZombieStuff ==
  /\ At("zombie")
  /\ \/ AllZombies /\ Local("return") /\ UNCHANGED humans
     \/ /\ ~AllZombies \/ numHumans < Checked
        /\ Yield /\ Goto("zombie")
        /\ \E i \in 0..(Checked - 1) :
             humans' = [j \in Humans |-> IF j = i /\ humans[j] = "RUN" THEN "ZOMBIE"
                                        ELSE humans[j]]
  /\ UNCHANGED <<loops, shouted, numHumans, maxThread, number, Others>>

\* humanStuff: hide for a while, run for one turn, or do as the zombies do.
HumanStuff ==
  /\ At("human")
  /\ \/ /\ humans[me] = "ZOMBIE" /\ Local("zombie")
        /\ UNCHANGED <<humans, loops>>
     \/ /\ humans[me] # "ZOMBIE" /\ Local("flee")
        /\ \E choice \in {"HIDE", "RUN"}, waitTime \in 2..(MaxLoops + 1) :
             /\ humans' = [humans EXCEPT ![me] = choice]
             /\ loops' = [loops EXCEPT ![me] = IF choice = "HIDE" THEN waitTime ELSE 1]
  /\ UNCHANGED <<shouted, numHumans, maxThread, number, Others>>

Flee == Turns("flee", "human", {0}) /\ UNCHANGED <<ownVars, Others>>

-----------------------------------------------------------------------------

\* spawn: a child or the end of the loop, as Random() has it.  The number goes
\* into the new thread with its Fork, before anybody else gets the processor.
\* Threads to create run out.
Born(child) ==
  /\ At("spawn") /\ NewThread(child) /\ Goto("fork")
  /\ maxThread < MaxBorn
  /\ maxThread' = maxThread + 1
  /\ number' = [number EXCEPT ![child] = maxThread']
  /\ UNCHANGED <<loops, shouted, numHumans, humans, Others>>

NoMore == At("spawn") /\ Local("return") /\ UNCHANGED <<loops, ownVars, Others>>

SpawnFork(child) ==
  /\ At("fork") /\ Fork(child)
  /\ pc' = [pc EXCEPT ![me] = "born", ![child] = "spawn"]
  /\ UNCHANGED <<threadChoice, timer, loops, ownVars, Others>>

SpawnYields == At("born") /\ Yield /\ Goto("spawn") /\ UNCHANGED <<loops, ownVars, Others>>

-----------------------------------------------------------------------------

\* ThreadTest(): the threads it forks, in order, and where they start.  Thread
\* objects it allocates and never forks are left out.
ToFork ==
  CASE threadChoice = 2 -> <<numHumans>> \o [i \in 1..numHumans |-> i - 1]
    [] threadChoice = 3 -> <<0>>
    [] OTHER -> [i \in 1..NumWorkers |-> i - 1]

Entry(t) ==
  CASE threadChoice = 1 -> "shouter"
    [] threadChoice = 2 -> IF t = numHumans THEN "zombie" ELSE "human"
    [] threadChoice = 3 -> "spawn"
    [] threadChoice = 4 -> "philosopher"
    [] threadChoice = 6 -> "player"

TestCreates(t) ==
  /\ At("test") /\ NewThread(t) /\ Goto("testFork")
  /\ loops[me] < Len(ToFork) /\ t = ToFork[loops[me] + 1]
  /\ UNCHANGED <<loops, ownVars, Others>>

TestForks(t) ==
  /\ At("testFork") /\ Fork(t)
  /\ pc' = [pc EXCEPT ![me] = "test", ![t] = Entry(t)]
  /\ loops' = [loops EXCEPT ![me] = @ + 1]
  /\ UNCHANGED <<threadChoice, timer, ownVars, Others>>

\* ThreadTest returns, and main calls Finish.
TestReturns ==
  /\ At("test") /\ loops[me] = Len(ToFork)
  /\ Local("return")
  /\ UNCHANGED <<loops, ownVars, Others>>

TTInit ==
  /\ Init /\ PhiloInit /\ BandInit
  /\ threadChoice \in {1, 2, 3, 4, 6}
  /\ timer \in BOOLEAN
  /\ pc = [t \in Threads |-> IF t = MainThread THEN "test" ELSE "none"]
  /\ loops = [t \in Threads |-> 0]
  /\ shouted = [t \in Threads |-> 0]
  /\ numHumans \in IF threadChoice = 2 THEN Workers ELSE {0}
  /\ humans = [i \in Humans |-> "HIDE"]
  /\ maxThread = 0
  /\ number = [t \in Threads |-> 0]

TTNext ==
  \/ PhiloBusy /\ UNCHANGED <<bandVars, ownVars>>
  \/ Band /\ UNCHANGED <<philoVars, ownVars>>
  \/ Shout \/ Pause
  \/ ZombieStuff \/ HumanStuff \/ Flee
  \/ \E t \in Workers : Born(t) \/ SpawnFork(t) \/ TestCreates(t) \/ TestForks(t)
  \/ NoMore \/ SpawnYields \/ TestReturns
  \/ Returns /\ UNCHANGED <<ownVars, Others>>
  \/ Machine /\ UNCHANGED <<ownVars, Others>>

\* The processor does not stop.
TTSpec == TTInit /\ [][TTNext]_allVars /\ WF_allVars(TTNext)

-----------------------------------------------------------------------------
(***************************************************************************)
(* Properties                                                              *)
(***************************************************************************)

\* Without the timer the shouters, the philosophers and the band come to an end.
\* Polling loops and the barrier of the band rely on every thread having its turn
\* between two turns of another one.
ShowEnds == (~timer /\ threadChoice \in {1, 4, 6}) ~> cpu = "halted"
=============================================================================
