---------------------------- MODULE Philosophers ----------------------------
(***************************************************************************)
(* PhiloBusy: philosophers who poll for their chopsticks.                  *)
(***************************************************************************)
EXTENDS TestThreads

CONSTANT NumMeals

VARIABLES
  philoSat, philoAte,   \* how many came, how many meals were eaten
  chops                 \* whether each chopstick is on the table

philoVars == <<philoSat, philoAte, chops>>

PhiloInit ==
  /\ philoSat = 0 /\ philoAte = 0
  /\ chops = [i \in Workers |-> TRUE]

left(t) == t
right(t) == (t + 1) % NumWorkers

Arrive ==
  /\ At("philosopher") /\ Local("sit")
  /\ philoSat' = philoSat + 1
  /\ UNCHANGED <<loops, philoAte, chops>>

\* The one who finds all of them there says so, once.
Sit ==
  /\ YieldWhile("sit", philoSat < NumWorkers, "hungry")
  /\ IF philoSat < NumWorkers
     THEN UNCHANGED <<loops, philoSat>>
     ELSE /\ philoSat' = NumWorkers + 1
          /\ \E n \in 1..MaxLoops : loops' = [loops EXCEPT ![me] = n]
  /\ UNCHANGED <<philoAte, chops>>

Hungry ==
  /\ At("hungry")
  /\ Local(IF philoAte < NumMeals THEN "left" ELSE "return")
  /\ UNCHANGED <<loops, philoVars>>

\* A chopstick that has to be waited for is off the table already.
PickUp(label, chop, next) ==
  /\ YieldWhile(label, ~chops[chop], next)
  /\ chops' = [chops EXCEPT ![chop] = FALSE]
  /\ UNCHANGED <<loops, philoSat, philoAte>>

\* Mutant: the right chopstick is not waited for.
PickUpRightAtOnce ==
  /\ At("right") /\ Local("served")
  /\ chops' = [chops EXCEPT ![right(me)] = FALSE]
  /\ UNCHANGED <<loops, philoSat, philoAte>>

PickUpLeft == PickUp("left", left(me), "right")
PickUpRight == PickUp("right", right(me), "served")

\* With both chopsticks, a philosopher looks again whether there is a meal.
Served ==
  /\ At("served")
  /\ \/ philoAte >= NumMeals /\ Local("full") /\ UNCHANGED philoAte
     \/ philoAte < NumMeals /\ Local("eating") /\ philoAte' = philoAte + 1
  /\ UNCHANGED <<loops, philoSat, chops>>

Eating == Turns("eating", "full", 1..MaxLoops) /\ UNCHANGED philoVars

PutDown ==
  /\ At("full") /\ Local("thinking")
  /\ chops' = [chops EXCEPT ![left(me)] = TRUE, ![right(me)] = TRUE]
  /\ UNCHANGED <<loops, philoSat, philoAte>>

Thinking == Turns("thinking", "hungry", 1..MaxLoops) /\ UNCHANGED philoVars

PhiloBusy ==
  \/ Arrive \/ Sit \/ Hungry \/ PickUpLeft \/ PickUpRight
  \/ Served \/ Eating \/ PutDown \/ Thinking

\* The philosophers who hold a chopstick.
Holders(i) ==
  {t \in Workers : \/ i = left(t) /\ pc[t] \in {"right", "served", "eating", "full"}
                   \/ i = right(t) /\ pc[t] \in {"served", "eating", "full"}}

\* A chopstick is off the table exactly when one philosopher holds it, and two
\* never do: the test of chops and the assignment are apart in the code, but no
\* Yield comes between them.
ChopsticksHeld ==
  threadChoice = 4 => \A i \in Workers : Cardinality(Holders(i)) = IF chops[i] THEN 0 ELSE 1

\* No more meals are eaten than there are, though the test in the loop is stale by
\* the time both chopsticks are there, and whoever leaves leaves no meal behind.
MealsEaten ==
  /\ philoAte <= NumMeals
  /\ threadChoice = 4 => \A t \in Workers : pc[t] \in {"return", "gone"} => philoAte = NumMeals
=============================================================================
