----------------------------- MODULE EventQueue -----------------------------
(***************************************************************************)
(* What the interrupt simulation promises the devices: an event scheduled  *)
(* for a time happens once, in time order, not before its time and at most *)
(* MaxLate after it.  Nothing is promised about the order of two events    *)
(* with the same time.                                                     *)
(***************************************************************************)
EXTENDS Integers

CONSTANTS Kinds, MaxLate

VARIABLES now, events

eqVars == <<now, events>>

EQInit == now = 0 /\ events = {}

\* Time passes, or a device schedules an event.
PassOrSchedule ==
  /\ now' >= now
  /\ \A e \in events : now' <= e.when + MaxLate
  /\ events \subseteq events'
  /\ \A e \in events' \ events : e.when > now

\* The earliest event happens; its handler may schedule further ones.
Happen ==
  /\ now' >= now
  /\ \E e \in events :
       /\ \A f \in events : e.when <= f.when
       /\ e.when <= now' /\ now' <= e.when + MaxLate
       /\ events \ {e} \subseteq events'
       /\ e \notin events'
       /\ \A f \in events' \ events : f.when > now'

EQNext == PassOrSchedule \/ Happen

EQSpec == EQInit /\ [][EQNext]_eqVars
=============================================================================
