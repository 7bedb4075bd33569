--------------------------- MODULE RockBandProofs ---------------------------
(***************************************************************************)
(* Proofs about the rock band and the zombies of threadtest.cc, for any    *)
(* number of threads, instruments and songs: no instrument is played by    *)
(* two, no song is counted twice, and nobody leaves before the last one.   *)
(***************************************************************************)
EXTENDS ThreadTestProofs

-----------------------------------------------------------------------------
(***************************************************************************)
(* The inductive invariant                                                 *)
(***************************************************************************)

\* From the test of RockCheck to the barrier.
Onstage == {"count", "name", "play", "stop", "drop", "dropped", "rest", "ready"}

BandLabels ==
  Onstage \cup {"player", "gather", "song", "want", "take", "check", "barrier", "passed",
                "reset", "leave", "leaving"}

\* Where threads are in the other programs.
Elsewhere ==
  {"none", "test", "testFork", "return", "gone", "philosopher", "sit", "hungry", "left", "right",
   "served", "eating", "full", "thinking", "shouter", "pause", "zombie", "human", "flee",
   "spawn", "fork", "born"}

\* Where the threads of the band are.
BandPlaces ==
  /\ pc \in [Threads -> BandLabels \cup {"none", "return", "gone", "test", "testFork"}]
  /\ pc[MainThread] \in {"test", "testFork", "return", "gone"}
  /\ \A t \in Workers : pc[t] \in BandLabels \cup {"none", "return", "gone"}
  /\ \A t \in Workers : status[t] \in Unborn => pc[t] \in {"none", "gone"}
  /\ threadToBeDestroyed # NULL => pc[threadToBeDestroyed] = "gone"

\* What a thread is to the others, by where it is.
RolesAt(label) ==
  IF label \in {"want", "take"} THEN {"WANTING"}
  ELSE IF label \in {"check", "count", "name", "play"} THEN {"SPECTATOR", "READYTOPLAY"}
  ELSE IF label \in {"stop", "drop", "dropped", "rest"} THEN {"READYTOPLAY"}
  ELSE {"NOTREADY"}

Roles ==
  /\ players \in [Workers -> {"NOTREADY", "WANTING", "SPECTATOR", "READYTOPLAY"}]
  /\ \A t \in Workers : players[t] \in RolesAt(pc[t])

\* t has an instrument.
Has(t) == players[t] = "READYTOPLAY" /\ pc[t] \notin {"dropped", "rest"}

\* An instrument is marked exactly while a thread has it, and two never do.
Stand ==
  /\ instruments \in [Instruments -> BOOLEAN]
  /\ temp \in [Workers -> Instruments \cup {0}]
  /\ \A i \in Instruments : instruments[i] <=> \E t \in Workers : Has(t) /\ temp[t] = i
  /\ \A t \in Workers : Has(t) => temp[t] \in Instruments
  /\ \A t, u \in Workers : Has(t) /\ Has(u) /\ temp[t] = temp[u] => t = u

\* Nobody has passed RockCheck for the next song.
Gathering ==
  /\ numReady = 0 /\ incrementFlag = FALSE
  /\ \A t \in Workers : pc[t] \notin Onstage
  /\ \A t \in Workers : pc[t] \in {"want", "take", "check"} => songsPlayed < NumSongs
  /\ \A t \in Workers : pc[t] \in {"leave", "leaving", "return", "gone"} => songsPlayed = NumSongs

\* Everybody is in the same song, and the barrier counts those who are done.
Performing ==
  /\ \A t \in Workers : pc[t] \in Onstage \cup {"check", "barrier"}
  /\ numReady = Cardinality({t \in Workers : pc[t] = "barrier"})
  /\ incrementFlag = FALSE => songsPlayed < NumSongs

\* Everybody was at the barrier, and nobody has reset it.
Resetting ==
  /\ \A t \in Workers : pc[t] \in {"barrier", "passed", "reset"}
  /\ numReady = NumWorkers

Songs ==
  /\ songsPlayed \in Nat /\ songsPlayed <= NumSongs
  /\ incrementFlag \in BOOLEAN
  /\ Gathering \/ Performing \/ Resetting

\* The other programs leave the stage as it is.
Silent ==
  /\ threadChoice \in {1, 2, 3, 4}
  /\ pc \in [Threads -> Elsewhere]
  /\ BandInit

BandInv == IF threadChoice = 6 THEN BandPlaces /\ Roles /\ Stand /\ Songs ELSE Silent

-----------------------------------------------------------------------------
(***************************************************************************)
(* What a step of one thread leaves alone                                  *)
(***************************************************************************)

\* P and V delete nobody and leave no carcass.
LEMMA SemaphoresQuiet ==
  ASSUME KernelInv, NEW s \in Sems, PSleep(s) \/ PDone(s) \/ V(s)
  PROVE  Quiet
  <1>1. /\ status \in [Threads -> Statuses] /\ currentThread \in Threads
        /\ queue \in [Sems -> Seq(Threads)]
    BY Zenon DEF KernelInv, TypeOK
  <1>2. CASE PSleep(s) \/ PDone(s)
    BY <1>1, <1>2, Zenon DEF PSleep, PDone, Quiet, Unborn
  <1>3. CASE V(s)
    BY <1>1, <1>3, Zenon DEF V, Post, Quiet, Unborn
  <1> QED
    BY <1>2, <1>3, Zenon

\* The thread that takes a step of the band is a worker, and is alive.
LEMMA BandRuns ==
  ASSUME KernelInv, BandPlaces, cpu \in {"thread", "resume"}, pc[me] \in BandLabels
  PROVE  /\ me \in Workers /\ me \in Threads
         /\ status[me] = "RUNNING" /\ me # threadToBeDestroyed
  <1>1. me \in Threads
    BY Zenon DEF KernelInv, TypeOK, me
  <1>2. me \in Workers
    BY <1>1, Zenon DEF BandPlaces, Workers, BandLabels, Onstage
  <1> QED
    BY <1>1, <1>2, KernelAssumption DEF KernelInv, TypeOK, OnePlace, CarcassIsDead, Asleep, me, Workers

LEMMA BandGoto ==
  ASSUME KernelInv, BandPlaces, Quiet, cpu \in {"thread", "resume"}, pc[me] \in BandLabels,
         NEW l \in BandLabels \cup {"return"}, pc' = [pc EXCEPT ![me] = l]
  PROVE  /\ BandPlaces'
         /\ pc'[me] = l
         /\ \A t \in Workers : t # me => pc'[t] = pc[t]
  <1>1. me \in Workers /\ me \in Threads /\ status[me] = "RUNNING" /\ me # threadToBeDestroyed
    BY BandRuns, Zenon
  <1>2. \A t \in Threads : pc'[t] = IF t = me THEN l ELSE pc[t]
    BY Zenon DEF BandPlaces
  <1>3. pc' \in [Threads -> BandLabels \cup {"none", "return", "gone", "test", "testFork"}]
    BY Zenon DEF BandPlaces
  <1>4. pc'[MainThread] = pc[MainThread]
    BY <1>1, <1>2, KernelAssumption, Zenon DEF Workers
  <1>5. \A t \in Workers : pc'[t] \in BandLabels \cup {"none", "return", "gone"}
    BY <1>2, Zenon DEF BandPlaces, Workers
  <1>6. \A t \in Workers : status'[t] \in Unborn => pc'[t] \in {"none", "gone"}
    BY <1>1, <1>2, KernelAssumption DEF BandPlaces, Quiet, Unborn, Workers
  <1>7. threadToBeDestroyed' # NULL => pc'[threadToBeDestroyed'] = "gone"
    BY <1>1, <1>2, Zenon DEF BandPlaces, Quiet, KernelInv, TypeOK
  <1> QED
    BY <1>1, <1>2, <1>3, <1>4, <1>5, <1>6, <1>7 DEF BandPlaces, Workers

\* The thread m goes to l and is p to the others.
LEMMA RolesFollow ==
  ASSUME Roles, NEW m \in Workers, NEW l, NEW p \in RolesAt(l),
         p \in {"NOTREADY", "WANTING", "SPECTATOR", "READYTOPLAY"},
         players' = [players EXCEPT ![m] = p], pc'[m] = l,
         \A t \in Workers : t # m => pc'[t] = pc[t]
  PROVE  Roles'
  <1>1. players' \in [Workers -> {"NOTREADY", "WANTING", "SPECTATOR", "READYTOPLAY"}]
    BY Zenon DEF Roles
  <1>2. ASSUME NEW t \in Workers PROVE players'[t] \in RolesAt(pc'[t])
    <2>1. CASE t = m
      BY <2>1, Zenon DEF Roles
    <2>2. CASE t # m
      BY <2>2, Zenon DEF Roles
    <2> QED
      BY <2>1, <2>2, Zenon
  <1> QED
    BY <1>1, <1>2, Zenon DEF Roles, RolesAt

\* The same when what it is stays right.
LEMMA RolesStay ==
  ASSUME Roles, NEW m \in Workers, NEW l, players' = players, pc'[m] = l,
         players[m] \in RolesAt(l),
         \A t \in Workers : t # m => pc'[t] = pc[t]
  PROVE  Roles'
  <1>1. ASSUME NEW t \in Workers PROVE players'[t] \in RolesAt(pc'[t])
    BY Zenon DEF Roles
  <1> QED
    BY <1>1, Zenon DEF Roles, RolesAt

\* Nobody takes an instrument or drops one.
LEMMA StandStill ==
  ASSUME Stand, instruments' = instruments,
         temp' = temp, \A t \in Workers : Has(t)' <=> Has(t)
  PROVE  Stand'
  BY Zenon DEF Stand, Instruments

LEMMA HasNext ==
  \A t \in Workers : Has(t)' <=> players'[t] = "READYTOPLAY" /\ pc'[t] \notin {"dropped", "rest"}
  BY Zenon DEF Has

\* A thread that goes to another label before it passes RockCheck.
LEMMA StillGathering ==
  ASSUME Gathering, NEW m \in Workers, NEW l, pc'[m] = l,
         \A t \in Workers : t # m => pc'[t] = pc[t],
         numReady' = numReady, incrementFlag' = incrementFlag, songsPlayed' = songsPlayed,
         l \notin Onstage,
         l \in {"want", "take", "check"} =>
           pc[m] \in {"want", "take", "check"} \/ songsPlayed < NumSongs,
         l \in {"leave", "leaving", "return", "gone"} =>
           pc[m] \in {"leave", "leaving", "return", "gone"} \/ songsPlayed = NumSongs
  PROVE  Gathering'
  BY Zenon DEF Gathering, Onstage

\* A thread that goes on within a song.
LEMMA StillPerforming ==
  ASSUME Performing, NEW m \in Workers, NEW l, pc'[m] = l,
         \A t \in Workers : t # m => pc'[t] = pc[t],
         numReady' = numReady, incrementFlag' = incrementFlag, songsPlayed' = songsPlayed,
         l \in Onstage \cup {"check", "barrier"},
         l = "barrier" <=> pc[m] = "barrier"
  PROVE  Performing'
  <1>1. {t \in Workers : pc'[t] = "barrier"} = {t \in Workers : pc[t] = "barrier"}
    BY Zenon
  <1>2. \A t \in Workers : pc'[t] \in Onstage \cup {"check", "barrier"}
    BY Zenon DEF Performing
  <1> QED
    BY <1>1, <1>2, Zenon DEF Performing, Onstage, Workers

-----------------------------------------------------------------------------
(***************************************************************************)
(* The steps of the band                                                   *)
(***************************************************************************)

\* Through RockCheck only when everybody is there.
LEMMA AllAtCheck ==
  ASSUME BandPlaces, Roles, Gathering, RockCheck
  PROVE  \A t \in Workers : pc[t] = "check"
  BY DEF BandPlaces, Roles, RolesAt, Gathering, RockCheck, Onstage, BandLabels

\* Past the barrier only when everybody is at it.
LEMMA AllAtBarrier ==
  ASSUME Performing, numReady >= NumWorkers
  PROVE  (\A t \in Workers : pc[t] = "barrier") /\ numReady = NumWorkers
  <1> DEFINE S == {t \in Workers : pc[t] = "barrier"}
  <1>1. IsFiniteSet(Workers) /\ S \subseteq Workers
    BY KernelAssumption, FS_Subset, Zenon DEF Workers
  <1>2. /\ Cardinality(S) \in Nat /\ Cardinality(S) <= NumWorkers
        /\ Cardinality(S) = NumWorkers => S = Workers
    BY <1>1, FS_Subset, FS_CardinalityType, Zenon DEF NumWorkers
  <1>3. Cardinality(S) = NumWorkers
    BY <1>2, WorkersCounted DEF Performing
  <1> QED
    BY <1>2, <1>3, Zenon DEF Performing

\* A step that takes no instrument, counts no song and says nothing to the others.
LEMMA PlainMove ==
  ASSUME KernelInv, BandPlaces, Roles, Stand, Songs, Quiet,
         cpu \in {"thread", "resume"}, NEW l, pc' = [pc EXCEPT ![me] = l],
         players' = players, instruments' = instruments, temp' = temp,
         songsPlayed' = songsPlayed, numReady' = numReady, incrementFlag' = incrementFlag,
         \/ pc[me] = l /\ l \in BandLabels
         \/ pc[me] = "player" /\ l = "gather"
         \/ pc[me] = "gather" /\ l = "song"
         \/ pc[me] = "want" /\ l = "take"
         \/ pc[me] = "count" /\ l = "name"
         \/ pc[me] = "name" /\ l = "play"
         \/ pc[me] = "stop" /\ l = "drop"
         \/ pc[me] = "dropped" /\ l = "rest"
         \/ pc[me] = "passed" /\ l = "reset"
         \/ pc[me] = "leave" /\ l = "leaving"
         \/ pc[me] = "leaving" /\ l = "return"
         \/ pc[me] = "song" /\ l = "leave" /\ songsPlayed >= NumSongs
         \/ pc[me] = "check" /\ l = "count" /\ RockCheck
         \/ pc[me] = "barrier" /\ l = "passed" /\ numReady >= NumWorkers
  PROVE  BandPlaces' /\ Roles' /\ Stand' /\ Songs'
  <1>1. pc[me] \in BandLabels /\ l \in BandLabels \cup {"return"}
    BY Zenon DEF BandLabels, Onstage
  <1>2. me \in Workers
    BY <1>1, BandRuns, Zenon
  <1>3. BandPlaces' /\ pc'[me] = l /\ \A t \in Workers : t # me => pc'[t] = pc[t]
    BY <1>1, BandGoto, Zenon
  <1>4. Roles'
    <2>1. players[me] \in RolesAt(l)
      BY <1>2 DEF Roles, RolesAt
    <2> QED
      BY <1>2, <1>3, <2>1, RolesStay
  <1>5. Stand'
    <2>1. l \in {"dropped", "rest"} <=> pc[me] \in {"dropped", "rest"}
      BY Zenon
    <2>2. \A t \in Workers : Has(t)' <=> Has(t)
      BY <1>3, <2>1, HasNext, Zenon DEF Has
    <2> QED
      BY <2>2, StandStill, Zenon
  <1>6. Gathering' \/ Performing' \/ Resetting'
    <2>1. CASE Gathering
      <3>1. CASE l = "count" /\ pc[me] = "check"
        <4>1. \A t \in Workers : pc[t] = "check"
          BY <2>1, <3>1, AllAtCheck, Zenon
        <4>2. {t \in Workers : pc'[t] = "barrier"} = {}
          BY <1>3, <3>1, <4>1, Zenon
        <4>3. numReady' = Cardinality({t \in Workers : pc'[t] = "barrier"})
          BY <2>1, <4>2, FS_EmptySet, Zenon DEF Gathering
        <4>4. \A t \in Workers : pc'[t] \in Onstage \cup {"check", "barrier"}
          BY <1>3, <3>1, <4>1, Zenon DEF Onstage
        <4>5. songsPlayed' < NumSongs
          BY <1>2, <2>1, <4>1, Zenon DEF Gathering
        <4> QED
          BY <4>3, <4>4, <4>5, Zenon DEF Performing, Onstage, Workers
      <3>2. CASE pc[me] = "barrier" /\ l = "passed"
        BY <1>2, <2>1, <3>2, WorkersCounted DEF Gathering
      <3>3. CASE pc[me] = "song" /\ l = "leave" /\ songsPlayed >= NumSongs
        <4>1. songsPlayed = NumSongs
          BY <3>3, ThreadTestAssumption DEF Songs
        <4> QED
          BY <1>2, <1>3, <2>1, <3>3, <4>1, StillGathering, Zenon DEF Onstage
      <3>4. CASE pc[me] \in Onstage
        BY <1>2, <2>1, <3>4, Zenon DEF Gathering
      <3>5. CASE pc[me] = l /\ pc[me] \notin Onstage
        BY <1>2, <1>3, <2>1, <3>5, StillGathering, Zenon
      <3>6. CASE <<pc[me], l>> \in {<<"player", "gather">>, <<"gather", "song">>, <<"want", "take">>,
                                     <<"passed", "reset">>, <<"leave", "leaving">>,
                                     <<"leaving", "return">>}
        BY <1>2, <1>3, <2>1, <3>6, StillGathering, Zenon DEF Onstage
      <3>7. \/ pc[me] \in Onstage
            \/ pc[me] = l /\ pc[me] \notin Onstage
            \/ <<pc[me], l>> \in {<<"player", "gather">>, <<"gather", "song">>, <<"want", "take">>,
                                  <<"passed", "reset">>, <<"leave", "leaving">>,
                                  <<"leaving", "return">>}
            \/ pc[me] = "song" /\ l = "leave" /\ songsPlayed >= NumSongs
            \/ l = "count" /\ pc[me] = "check"
            \/ pc[me] = "barrier" /\ l = "passed"
        BY Zenon DEF Onstage
      <3> QED
        BY <3>1, <3>2, <3>3, <3>4, <3>5, <3>6, <3>7, Zenon
    <2>2. CASE Performing
      <3>1. CASE pc[me] = "barrier" /\ l = "passed"
        <4>1. (\A t \in Workers : pc[t] = "barrier") /\ numReady = NumWorkers
          BY <2>2, <3>1, AllAtBarrier, Zenon
        <4> QED
          BY <1>3, <3>1, <4>1, Zenon DEF Resetting, NumWorkers, Workers
      <3>2. CASE ~(pc[me] = "barrier" /\ l = "passed")
        <4>1. pc[me] \in Onstage \cup {"check", "barrier"}
          BY <1>2, <2>2, Zenon DEF Performing
        <4>2. l \in Onstage \cup {"check", "barrier"} /\ (l = "barrier" <=> pc[me] = "barrier")
          BY <3>2, <4>1, Zenon DEF Onstage
        <4> QED
          BY <1>2, <1>3, <2>2, <4>2, StillPerforming, Zenon
      <3> QED
        BY <3>1, <3>2, Zenon
    <2>3. CASE Resetting
      <3>1. pc[me] \in {"barrier", "passed", "reset"}
        BY <1>2, <2>3, Zenon DEF Resetting
      <3>2. l \in {"barrier", "passed", "reset"}
        BY <3>1, Zenon
      <3> QED
        BY <1>3, <2>3, <3>2, Zenon DEF Resetting, NumWorkers, Workers
    <2> QED
      BY <2>1, <2>2, <2>3, Zenon DEF Songs
  <1> QED
    BY <1>3, <1>4, <1>5, <1>6, Zenon DEF Songs

\* A thread decides to play or to watch the next song.
LEMMA JoinsSong ==
  ASSUME KernelInv, BandPlaces, Roles, Stand, Songs, NextSong
  PROVE  BandPlaces' /\ Roles' /\ Stand' /\ Songs'
  <1>1. /\ cpu = "thread" /\ pc[me] = "song" /\ UNCHANGED vars
        /\ instruments' = instruments /\ temp' = temp
        /\ songsPlayed' = songsPlayed /\ numReady' = numReady /\ incrementFlag' = incrementFlag
    BY Zenon DEF NextSong, At, Local, countVars, flagVars
  <1>2. Quiet
    BY <1>1, QuietSteps, Zenon
  <1>3. me \in Workers /\ pc[me] \in BandLabels
    <2>1. pc[me] \in BandLabels
      BY <1>1, Zenon DEF BandLabels
    <2> QED
      BY <1>1, <2>1, BandRuns, Zenon
  <1>4. CASE songsPlayed >= NumSongs /\ Local("leave") /\ UNCHANGED players
    BY <1>1, <1>2, <1>4, PlainMove, Zenon DEF Local, Goto
  <1>5. ASSUME songsPlayed < NumSongs, NEW p \in {"WANTING", "SPECTATOR"},
               players' = [players EXCEPT ![me] = p],
               Local(IF p = "WANTING" THEN "want" ELSE "check")
        PROVE  BandPlaces' /\ Roles' /\ Stand' /\ Songs'
    <2> DEFINE l == IF p = "WANTING" THEN "want" ELSE "check"
    <2>1. pc' = [pc EXCEPT ![me] = l]
      BY <1>5, Zenon DEF Local, Goto
    <2>2. l \in {"want", "check"} /\ l \in BandLabels \cup {"return"} /\ p \in RolesAt(l)
      BY Zenon DEF BandLabels, RolesAt
    <2> HIDE DEF l
    <2>3. BandPlaces' /\ pc'[me] = l /\ \A t \in Workers : t # me => pc'[t] = pc[t]
      BY <1>1, <1>2, <1>3, <2>1, <2>2, BandGoto, Zenon
    <2>4. Roles'
      BY <1>3, <1>5, <2>2, <2>3, RolesFollow, Zenon
    <2>5. Stand'
      <3>1. /\ players'[me] = p /\ players[me] = "NOTREADY"
            /\ \A t \in Workers : t # me => players'[t] = players[t]
        BY <1>1, <1>3, <1>5, Zenon DEF Roles, RolesAt
      <3>2. \A t \in Workers : Has(t)' <=> Has(t)
        BY <2>3, <3>1, HasNext, Zenon DEF Has
      <3> QED
        BY <1>1, <3>2, StandStill
    <2>6. Gathering
      BY <1>1, <1>3, Zenon DEF Songs, Performing, Resetting, Onstage
    <2>7. Gathering'
      BY <1>1, <1>3, <1>5, <2>2, <2>3, <2>6, StillGathering, Zenon DEF Onstage
    <2> QED
      BY <1>1, <2>3, <2>4, <2>5, <2>7 DEF Songs
  <1> QED
    BY <1>4, <1>5, Zenon DEF NextSong

\* A thread tries an instrument, inside the semaphore or not.
LEMMA TakesInstrument ==
  ASSUME KernelInv, BandPlaces, Roles, Stand, Songs, Take
  PROVE  BandPlaces' /\ Roles' /\ Stand' /\ Songs'
  <1>1. /\ cpu = "thread" /\ pc[me] = "take" /\ V(getInstrument)
        /\ pc' = [pc EXCEPT ![me] = "check"]
        /\ songsPlayed' = songsPlayed /\ numReady' = numReady /\ incrementFlag' = incrementFlag
    BY Zenon DEF Take, Takes, At, Goto, countVars, flagVars
  <1>2. PICK i \in Instruments :
          /\ temp' = [temp EXCEPT ![me] = i]
          /\ instruments' = [instruments EXCEPT ![i] = TRUE]
          /\ players' = [players EXCEPT ![me] =
                           IF ~instruments[i] THEN "READYTOPLAY" ELSE "SPECTATOR"]
    BY Zenon DEF Take, Takes
  <1>3. Quiet
    BY <1>1, ThreadTestAssumption, SemaphoresQuiet, Zenon
  <1>4. me \in Workers /\ pc[me] \in BandLabels
    <2>1. pc[me] \in BandLabels
      BY <1>1, Zenon DEF BandLabels
    <2> QED
      BY <1>1, <2>1, BandRuns
  <1>5. BandPlaces' /\ pc'[me] = "check" /\ \A t \in Workers : t # me => pc'[t] = pc[t]
    <2>1. "check" \in BandLabels
      BY Zenon DEF BandLabels
    <2> QED
      BY <1>1, <1>3, <1>4, <2>1, BandGoto, Zenon
  <1> DEFINE p == IF ~instruments[i] THEN "READYTOPLAY" ELSE "SPECTATOR"
  <1>6. p \in {"SPECTATOR", "READYTOPLAY"} /\ players' = [players EXCEPT ![me] = p]
    BY <1>2, Zenon
  <1>7. p = "READYTOPLAY" <=> ~instruments[i]
    BY Zenon
  <1> HIDE DEF p
  <1>8. Roles'
    <2>1. p \in RolesAt("check")
      BY <1>6, Zenon DEF RolesAt
    <2> QED
      BY <1>4, <1>5, <1>6, <2>1, RolesFollow, Zenon
  <1>9. /\ players'[me] = p /\ players[me] = "WANTING"
        /\ \A t \in Workers : t # me => players'[t] = players[t]
    BY <1>1, <1>4, <1>6 DEF Roles, RolesAt
  <1>10. /\ ~Has(me)
         /\ \A t \in Workers : t = me => (Has(t)' <=> ~instruments[i])
         /\ \A t \in Workers : t # me => (Has(t)' <=> Has(t))
    BY <1>4, <1>5, <1>7, <1>9, HasNext, Zenon DEF Has
  <1>11. Stand'
    <2>1. /\ temp' \in [Workers -> Instruments \cup {0}] /\ temp'[me] = i
          /\ \A t \in Workers : t # me => temp'[t] = temp[t]
      BY <1>2, <1>4 DEF Stand
    <2>2. /\ instruments' \in [Instruments -> BOOLEAN] /\ instruments'[i] = TRUE
          /\ \A j \in Instruments : j # i => instruments'[j] = instruments[j]
      BY <1>2, Zenon DEF Stand
    <2>3. ASSUME NEW j \in Instruments
          PROVE  instruments'[j] <=> \E t \in Workers : Has(t)' /\ temp'[t] = j
      <3>1. CASE j = i
        <4>1. CASE ~instruments[i]
          BY <1>4, <1>10, <2>1, <2>2, <3>1, <4>1, Zenon
        <4>2. CASE instruments[i]
          <5>1. PICK t \in Workers : Has(t) /\ temp[t] = i
            BY <4>2, Zenon DEF Stand
          <5>2. t # me
            BY <1>10, <5>1, Zenon
          <5> QED
            BY <1>10, <2>1, <2>2, <3>1, <5>1, <5>2, Zenon
        <4> QED
          BY <4>1, <4>2, Zenon
      <3>2. CASE j # i
        <4>1. instruments[j] <=> \E t \in Workers : Has(t) /\ temp[t] = j
          BY Zenon DEF Stand
        <4>2. \A t \in Workers : Has(t)' /\ temp'[t] = j <=> Has(t) /\ temp[t] = j
          BY <1>10, <2>1, <3>2, Zenon
        <4> QED
          BY <2>2, <3>2, <4>1, <4>2, Zenon
      <3> QED
        BY <3>1, <3>2, Zenon
    <2>4. \A t \in Workers : Has(t)' => temp'[t] \in Instruments
      BY <1>10, <2>1, Zenon DEF Stand
    <2>5. ASSUME NEW t \in Workers, NEW u \in Workers, Has(t)', Has(u)', temp'[t] = temp'[u]
          PROVE  t = u
      <3>1. \A v \in Workers : v # me /\ Has(v)' /\ temp'[v] = i => instruments[i]
        BY <1>10, <2>1, Zenon DEF Stand
      <3>2. CASE t # me /\ u # me
        BY <1>10, <2>1, <2>5, <3>2 DEF Stand
      <3>3. CASE t = me \/ u = me
        BY <1>10, <2>1, <2>5, <3>1, <3>3, Zenon
      <3> QED
        BY <3>2, <3>3, Zenon
    <2> QED
      BY <2>1, <2>2, <2>3, <2>4, <2>5, Zenon DEF Stand, Instruments, Workers
  <1>12. Gathering
    BY <1>1, <1>4, Zenon DEF Songs, Performing, Resetting, Onstage
  <1>13. Gathering'
    BY <1>1, <1>4, <1>5, <1>12, StillGathering, Zenon DEF Onstage
  <1> QED
    BY <1>1, <1>5, <1>8, <1>11, <1>13, Zenon DEF Songs

\* The song is played, and counted by the first one.
LEMMA PlaysSong ==
  ASSUME KernelInv, BandPlaces, Roles, Stand, Songs, Play
  PROVE  BandPlaces' /\ Roles' /\ Stand' /\ Songs'
  <1>1. /\ cpu = "thread" /\ pc[me] = "play" /\ UNCHANGED vars
        /\ songsPlayed' = IF ~incrementFlag THEN songsPlayed + 1 ELSE songsPlayed
        /\ incrementFlag' = TRUE
        /\ instruments' = instruments /\ temp' = temp /\ numReady' = numReady
    BY Zenon DEF Play, Plays, At, Local
  <1>2. Quiet
    BY <1>1, QuietSteps, Zenon
  <1>3. me \in Workers /\ pc[me] \in BandLabels
    <2>1. pc[me] \in BandLabels
      BY <1>1, Zenon DEF BandLabels, Onstage
    <2> QED
      BY <1>1, <2>1, BandRuns, Zenon
  <1>4. players[me] \in {"SPECTATOR", "READYTOPLAY"}
    BY <1>1, <1>3, Zenon DEF Roles, RolesAt
  <1>5. PICK l \in {"stop", "ready"} :
          /\ pc' = [pc EXCEPT ![me] = l]
          /\ l = "stop" => players[me] = "READYTOPLAY" /\ players' = players
          /\ l = "ready" => players[me] = "SPECTATOR" /\ players' = [players EXCEPT ![me] = "NOTREADY"]
    <2>1. CASE players[me] = "READYTOPLAY" /\ Local("stop") /\ UNCHANGED players
      BY <2>1, Zenon DEF Local, Goto
    <2>2. CASE /\ players[me] # "READYTOPLAY" /\ Local("ready")
               /\ players' = [players EXCEPT ![me] = IF @ = "SPECTATOR" THEN "NOTREADY" ELSE @]
      BY <1>4, <2>2, Zenon DEF Local, Goto
    <2> QED
      BY <2>1, <2>2, Zenon DEF Play, Plays
  <1>6. BandPlaces' /\ pc'[me] = l /\ \A t \in Workers : t # me => pc'[t] = pc[t]
    <2>1. l \in BandLabels
      BY Zenon DEF BandLabels, Onstage
    <2> QED
      BY <1>1, <1>2, <1>3, <1>5, <2>1, BandGoto, Zenon
  <1>7. Roles'
    <2>1. CASE l = "stop"
      <3>1. players[me] \in RolesAt(l)
        BY <1>5, <2>1, Zenon DEF RolesAt
      <3> QED
        BY <1>3, <1>5, <1>6, <2>1, <3>1, RolesStay, Zenon
    <2>2. CASE l = "ready"
      <3>1. "NOTREADY" \in RolesAt(l)
        BY <2>2, Zenon DEF RolesAt
      <3> QED
        BY <1>3, <1>5, <1>6, <2>2, <3>1, RolesFollow, Zenon
    <2> QED
      BY <2>1, <2>2, Zenon
  <1>8. Stand'
    <2>1. /\ \A t \in Workers : t # me => players'[t] = players[t]
          /\ players'[me] = "READYTOPLAY" <=> players[me] = "READYTOPLAY"
      BY <1>3, <1>5, Zenon DEF Roles
    <2>2. \A t \in Workers : Has(t)' <=> Has(t)
      BY <1>1, <1>6, <2>1, HasNext, Zenon DEF Has
    <2> QED
      BY <1>1, <2>2, StandStill, Zenon
  <1>9. Performing
    BY <1>1, <1>3, Zenon DEF Songs, Gathering, Resetting, Onstage
  <1>10. songsPlayed' \in Nat /\ songsPlayed' <= NumSongs
    BY <1>1, <1>9, ThreadTestAssumption DEF Songs, Performing
  <1>11. Performing'
    <2>1. {t \in Workers : pc'[t] = "barrier"} = {t \in Workers : pc[t] = "barrier"}
      BY <1>1, <1>6, Zenon
    <2>2. \A t \in Workers : pc'[t] \in Onstage \cup {"check", "barrier"}
      BY <1>6, <1>9, Zenon DEF Performing, Onstage
    <2> QED
      BY <1>1, <1>9, <2>1, <2>2, Zenon DEF Performing, Onstage, Workers
  <1> QED
    BY <1>1, <1>6, <1>7, <1>8, <1>10, <1>11, Zenon DEF Songs

\* A thread gives its instrument back.
LEMMA DropsInstrument ==
  ASSUME KernelInv, BandPlaces, Roles, Stand, Songs, Drop
  PROVE  BandPlaces' /\ Roles' /\ Stand' /\ Songs'
  <1>1. /\ cpu = "thread" /\ pc[me] = "drop" /\ V(getInstrument)
        /\ pc' = [pc EXCEPT ![me] = "dropped"]
        /\ instruments' = [instruments EXCEPT ![temp[me]] = FALSE]
        /\ players' = players /\ temp' = temp
        /\ songsPlayed' = songsPlayed /\ numReady' = numReady /\ incrementFlag' = incrementFlag
    BY Zenon DEF Drop, At, Goto, countVars, flagVars
  <1>2. Quiet
    BY <1>1, ThreadTestAssumption, SemaphoresQuiet, Zenon
  <1>3. me \in Workers /\ pc[me] \in BandLabels /\ "dropped" \in BandLabels
    <2>1. pc[me] \in BandLabels /\ "dropped" \in BandLabels
      BY <1>1, Zenon DEF BandLabels, Onstage
    <2> QED
      BY <1>1, <2>1, BandRuns, Zenon
  <1>4. BandPlaces' /\ pc'[me] = "dropped" /\ \A t \in Workers : t # me => pc'[t] = pc[t]
    BY <1>1, <1>2, <1>3, BandGoto, Zenon
  <1>5. players[me] = "READYTOPLAY"
    BY <1>1, <1>3, Zenon DEF Roles, RolesAt
  <1>6. Roles'
    <2>1. players[me] \in RolesAt("dropped")
      BY <1>5, Zenon DEF RolesAt
    <2> QED
      BY <1>1, <1>3, <1>4, <2>1, RolesStay
  <1>7. /\ Has(me) /\ \A t \in Workers : Has(t)' <=> Has(t) /\ t # me
    BY <1>1, <1>3, <1>4, <1>5, HasNext, Zenon DEF Has
  <1>8. Stand'
    <2> DEFINE i == temp[me]
    <2>1. i \in Instruments
      BY <1>3, <1>7, Zenon DEF Stand
    <2>2. /\ instruments' \in [Instruments -> BOOLEAN] /\ instruments'[i] = FALSE
          /\ \A j \in Instruments : j # i => instruments'[j] = instruments[j]
      BY <1>1, <2>1, Zenon DEF Stand
    <2>3. \A t \in Workers : Has(t) /\ temp[t] = i => t = me
      BY <1>3, <1>7, Zenon DEF Stand
    <2> HIDE DEF i
    <2>4. ASSUME NEW j \in Instruments
          PROVE  instruments'[j] <=> \E t \in Workers : Has(t)' /\ temp'[t] = j
      <3>1. CASE j = i
        BY <1>1, <1>7, <2>2, <2>3, <3>1, Zenon
      <3>2. CASE j # i
        <4>1. instruments[j] <=> \E t \in Workers : Has(t) /\ temp[t] = j
          BY Zenon DEF Stand
        <4>2. \A t \in Workers : Has(t)' /\ temp'[t] = j <=> Has(t) /\ temp[t] = j
          BY <1>1, <1>7, <3>2, Zenon DEF i
        <4> QED
          BY <2>2, <3>2, <4>1, <4>2, Zenon
      <3> QED
        BY <3>1, <3>2, Zenon
    <2>5. /\ \A t \in Workers : Has(t)' => temp'[t] \in Instruments
          /\ \A t, u \in Workers : Has(t)' /\ Has(u)' /\ temp'[t] = temp'[u] => t = u
      BY <1>1, <1>7, Zenon DEF Stand
    <2>6. temp' \in [Workers -> Instruments \cup {0}]
      BY <1>1, Zenon DEF Stand
    <2> QED
      BY <2>2, <2>4, <2>5, <2>6, Zenon DEF Stand, Instruments, Workers
  <1>9. Performing
    BY <1>1, <1>3, Zenon DEF Songs, Gathering, Resetting, Onstage
  <1>10. Performing'
    <2>1. "dropped" \in Onstage
      BY Zenon DEF Onstage
    <2> QED
      BY <1>1, <1>3, <1>4, <1>9, <2>1, StillPerforming, Zenon
  <1> QED
    BY <1>1, <1>4, <1>6, <1>8, <1>10, Zenon DEF Songs

\* A thread is done with the song.
LEMMA RestsAfterSong ==
  ASSUME KernelInv, BandPlaces, Roles, Stand, Songs, Rest
  PROVE  BandPlaces' /\ Roles' /\ Stand' /\ Songs'
  <1>1. /\ cpu = "thread" /\ pc[me] = "rest" /\ UNCHANGED vars
        /\ pc' = [pc EXCEPT ![me] = "ready"]
        /\ players' = [players EXCEPT ![me] = "NOTREADY"]
        /\ instruments' = instruments /\ temp' = temp
        /\ songsPlayed' = songsPlayed /\ numReady' = numReady /\ incrementFlag' = incrementFlag
    BY Zenon DEF Rest, At, Local, Goto, countVars, flagVars
  <1>2. Quiet
    BY <1>1, QuietSteps, Zenon
  <1>3. me \in Workers /\ pc[me] \in BandLabels /\ "ready" \in BandLabels
    <2>1. pc[me] \in BandLabels /\ "ready" \in BandLabels
      BY <1>1, Zenon DEF BandLabels, Onstage
    <2> QED
      BY <1>1, <2>1, BandRuns, Zenon
  <1>4. BandPlaces' /\ pc'[me] = "ready" /\ \A t \in Workers : t # me => pc'[t] = pc[t]
    BY <1>1, <1>2, <1>3, BandGoto, Zenon
  <1>5. Roles'
    <2>1. "NOTREADY" \in RolesAt("ready")
      BY Zenon DEF RolesAt
    <2> QED
      BY <1>1, <1>3, <1>4, <2>1, RolesFollow, Zenon
  <1>6. Stand'
    <2>1. /\ players'[me] = "NOTREADY"
          /\ \A t \in Workers : t # me => players'[t] = players[t]
      BY <1>1, <1>3, Zenon DEF Roles
    <2>2. \A t \in Workers : Has(t)' <=> Has(t)
      BY <1>1, <1>4, <2>1, HasNext, Zenon DEF Has
    <2> QED
      BY <1>1, <2>2, StandStill, Zenon
  <1>7. Performing
    BY <1>1, <1>3, Zenon DEF Songs, Gathering, Resetting, Onstage
  <1>8. Performing'
    <2>1. "ready" \in Onstage
      BY Zenon DEF Onstage
    <2> QED
      BY <1>1, <1>3, <1>4, <1>7, <2>1, StillPerforming, Zenon
  <1> QED
    BY <1>1, <1>4, <1>5, <1>6, <1>8, Zenon DEF Songs

\* A thread arrives at the barrier.
LEMMA ReadyForBarrier ==
  ASSUME KernelInv, BandPlaces, Roles, Stand, Songs, Ready
  PROVE  BandPlaces' /\ Roles' /\ Stand' /\ Songs'
  <1>1. /\ cpu = "thread" /\ pc[me] = "ready" /\ UNCHANGED vars
        /\ pc' = [pc EXCEPT ![me] = "barrier"]
        /\ players' = players /\ instruments' = instruments /\ temp' = temp
        /\ songsPlayed' = songsPlayed /\ numReady' = numReady + 1
        /\ incrementFlag' = incrementFlag
    BY Zenon DEF Ready, At, Local, Goto, flagVars
  <1>2. Quiet
    BY <1>1, QuietSteps, Zenon
  <1>3. me \in Workers /\ pc[me] \in BandLabels /\ "barrier" \in BandLabels
    <2>1. pc[me] \in BandLabels /\ "barrier" \in BandLabels
      BY <1>1, Zenon DEF BandLabels, Onstage
    <2> QED
      BY <1>1, <2>1, BandRuns, Zenon
  <1>4. BandPlaces' /\ pc'[me] = "barrier" /\ \A t \in Workers : t # me => pc'[t] = pc[t]
    BY <1>1, <1>2, <1>3, BandGoto, Zenon
  <1>5. players[me] = "NOTREADY" /\ "NOTREADY" \in RolesAt("barrier")
    BY <1>1, <1>3, Zenon DEF Roles, RolesAt
  <1>6. Roles'
    BY <1>1, <1>3, <1>4, <1>5, RolesStay, Zenon
  <1>7. Stand'
    <2>1. \A t \in Workers : Has(t)' <=> Has(t)
      BY <1>1, <1>4, HasNext, Zenon DEF Has
    <2> QED
      BY <1>1, <2>1, StandStill, Zenon
  <1>8. Performing
    BY <1>1, <1>3, Zenon DEF Songs, Gathering, Resetting, Onstage
  <1>9. Performing'
    <2> DEFINE S == {t \in Workers : pc[t] = "barrier"}
    <2>1. me \notin S /\ {t \in Workers : pc'[t] = "barrier"} = S \cup {me}
      BY <1>1, <1>3, <1>4, Zenon
    <2>2. IsFiniteSet(S)
      BY KernelAssumption, FS_Subset, Zenon DEF Workers
    <2>3. Cardinality(S \cup {me}) = Cardinality(S) + 1
      BY <2>1, <2>2, FS_AddElement, Zenon
    <2>4. numReady' = Cardinality({t \in Workers : pc'[t] = "barrier"})
      BY <1>1, <1>8, <2>1, <2>3, Zenon DEF Performing
    <2>5. \A t \in Workers : pc'[t] \in Onstage \cup {"check", "barrier"}
      BY <1>4, <1>8, Zenon DEF Performing
    <2> QED
      BY <1>1, <1>8, <2>4, <2>5, Zenon DEF Performing, Onstage, Workers
  <1> QED
    BY <1>1, <1>4, <1>6, <1>7, <1>9, Zenon DEF Songs

\* A thread that is through resets the barrier, the first one for all.
LEMMA ResetsBarrier ==
  ASSUME KernelInv, BandPlaces, Roles, Stand, Songs, Reset
  PROVE  BandPlaces' /\ Roles' /\ Stand' /\ Songs'
  <1>1. /\ cpu = "thread" /\ pc[me] = "reset" /\ UNCHANGED vars
        /\ pc' = [pc EXCEPT ![me] = "song"]
        /\ players' = players /\ instruments' = instruments /\ temp' = temp
        /\ songsPlayed' = songsPlayed /\ numReady' = 0 /\ incrementFlag' = FALSE
    BY Zenon DEF Reset, At, Local, Goto
  <1>2. Quiet
    BY <1>1, QuietSteps, Zenon
  <1>3. me \in Workers /\ pc[me] \in BandLabels /\ "song" \in BandLabels
    <2>1. pc[me] \in BandLabels /\ "song" \in BandLabels
      BY <1>1, Zenon DEF BandLabels, Onstage
    <2> QED
      BY <1>1, <2>1, BandRuns, Zenon
  <1>4. BandPlaces' /\ pc'[me] = "song" /\ \A t \in Workers : t # me => pc'[t] = pc[t]
    BY <1>1, <1>2, <1>3, BandGoto, Zenon
  <1>5. players[me] = "NOTREADY" /\ "NOTREADY" \in RolesAt("song")
    BY <1>1, <1>3, Zenon DEF Roles, RolesAt
  <1>6. Roles'
    BY <1>1, <1>3, <1>4, <1>5, RolesStay
  <1>7. Stand'
    <2>1. \A t \in Workers : Has(t)' <=> Has(t)
      BY <1>1, <1>4, HasNext, Zenon DEF Has
    <2> QED
      BY <1>1, <2>1, StandStill, Zenon
  <1>8. Gathering \/ Resetting
    BY <1>1, <1>3, Zenon DEF Songs, Performing, Onstage
  <1>9. Gathering'
    <2>1. CASE Gathering
      BY <1>1, <1>4, <2>1, Zenon DEF Gathering, Onstage
    <2>2. CASE Resetting
      BY <1>1, <1>4, <2>2, Zenon DEF Gathering, Resetting, Onstage
    <2> QED
      BY <1>8, <2>1, <2>2, Zenon
  <1> QED
    BY <1>1, <1>4, <1>6, <1>7, <1>9, Zenon DEF Songs

\* The steps of a thread that change nothing but where it is, its own counters apart.
LEMMA BandKeeps ==
  ASSUME KernelInv, BandPlaces, Roles, Stand, Songs, Band
  PROVE  BandPlaces' /\ Roles' /\ Stand' /\ Songs'
  <1> DEFINE Same == /\ players' = players /\ instruments' = instruments /\ temp' = temp
                     /\ songsPlayed' = songsPlayed /\ numReady' = numReady
                     /\ incrementFlag' = incrementFlag
  <1> DEFINE Calm == UNCHANGED vars \/ Yield
  <1>1. ASSUME NEW l, NEW n, NEW b \in BOOLEAN, YieldWhile(l, b, n)
        PROVE  /\ cpu = "thread" /\ pc[me] = l /\ Calm
               /\ \/ pc' = [pc EXCEPT ![me] = l]
                  \/ ~b /\ pc' = [pc EXCEPT ![me] = n]
    BY <1>1, Zenon DEF YieldWhile, At, Local, Goto
  <1>2. ASSUME Calm PROVE Quiet
    BY <1>2, QuietSteps, Zenon
  <1> HIDE DEF Calm
  <1>3. CASE Arrives
    <2>1. Same /\ Calm /\ cpu = "thread" /\ pc[me] = "player" /\ pc' = [pc EXCEPT ![me] = "gather"]
      BY <1>3, Zenon DEF Arrives, At, Local, Goto, countVars, Calm
    <2>2. Quiet
      BY <1>2, <2>1
    <2> QED
      BY <2>1, <2>2, PlainMove, Zenon
  <1>4. CASE Gather
    <2>1. YieldWhile("gather", ~arrivalFlag, "song") /\ Same /\ (~arrivalFlag) \in BOOLEAN
      BY <1>4, Zenon DEF Gather, bandVars, countVars, flagVars
    <2>2. /\ cpu = "thread" /\ pc[me] = "gather" /\ Calm
          /\ pc' = [pc EXCEPT ![me] = "gather"] \/ pc' = [pc EXCEPT ![me] = "song"]
      BY <1>1, <2>1, Zenon
    <2>3. "gather" \in BandLabels
      BY Zenon DEF BandLabels
    <2>4. Quiet
      BY <1>2, <2>2, Zenon
    <2> QED
      BY <2>1, <2>2, <2>3, <2>4, PlainMove, Zenon
  <1>5. ASSUME NEW l \in {"want", "stop"}, NEW n, GetInstrumentP(l, n),
               <<l, n>> \in {<<"want", "take">>, <<"stop", "drop">>}
        PROVE  BandPlaces' /\ Roles' /\ Stand' /\ Songs'
    <2>1. Same /\ pc[me] = l
      BY <1>5, Zenon DEF GetInstrumentP, bandVars, countVars, flagVars
    <2>2. /\ cpu \in {"thread", "resume"}
          /\ PSleep(getInstrument) \/ PDone(getInstrument)
          /\ pc' = [pc EXCEPT ![me] = l] \/ pc' = [pc EXCEPT ![me] = n]
      <3>1. \/ PSleep(getInstrument) /\ pc' = [pc EXCEPT ![me] = l]
            \/ PDone(getInstrument) /\ pc' = [pc EXCEPT ![me] = n]
        BY <1>5, Zenon DEF GetInstrumentP, Goto
      <3>2. cpu \in {"thread", "resume"}
        BY <3>1, Zenon DEF PSleep, PDone, AtP
      <3> QED
        BY <3>1, <3>2, Zenon
    <2>3. Quiet
      BY <2>2, ThreadTestAssumption, SemaphoresQuiet, Zenon
    <2>4. l \in BandLabels
      BY Zenon DEF BandLabels, Onstage
    <2> QED
      BY <1>5, <2>1, <2>2, <2>3, <2>4, PlainMove, Zenon
  <1>6. CASE Check
    <2>1. YieldWhile("check", ~RockCheck, "count") /\ Same /\ (~RockCheck) \in BOOLEAN
      BY <1>6, Zenon DEF Check, bandVars, countVars, flagVars
    <2>2. /\ cpu = "thread" /\ pc[me] = "check" /\ Calm
          /\ \/ pc' = [pc EXCEPT ![me] = "check"]
             \/ RockCheck /\ pc' = [pc EXCEPT ![me] = "count"]
      BY <1>1, <2>1, Zenon
    <2>3. "check" \in BandLabels
      BY Zenon DEF BandLabels
    <2>4. Quiet
      BY <1>2, <2>2, Zenon
    <2> QED
      BY <2>1, <2>2, <2>3, <2>4, PlainMove, Zenon
  <1>7. CASE CountSpecs
    <2>1. Same /\ Calm /\ cpu = "thread" /\ pc[me] = "count" /\ pc' = [pc EXCEPT ![me] = "name"]
      BY <1>7, Zenon DEF CountSpecs, At, Local, Goto, Calm
    <2>2. Quiet
      BY <1>2, <2>1, Zenon
    <2> QED
      BY <2>1, <2>2, PlainMove, Zenon
  <1>8. CASE NameSpecs
    <2>1. YieldWhile("name", ~songFlag, "play") /\ Same /\ (~songFlag) \in BOOLEAN
      BY <1>8, Zenon DEF NameSpecs
    <2>2. /\ cpu = "thread" /\ pc[me] = "name" /\ Calm
          /\ pc' = [pc EXCEPT ![me] = "name"] \/ pc' = [pc EXCEPT ![me] = "play"]
      BY <1>1, <2>1, Zenon
    <2>3. "name" \in BandLabels
      BY Zenon DEF BandLabels, Onstage
    <2>4. Quiet
      BY <1>2, <2>2, Zenon
    <2> QED
      BY <2>1, <2>2, <2>3, <2>4, PlainMove, Zenon
  <1>9. CASE Dropped
    <2>1. Same /\ Calm /\ cpu = "thread" /\ pc[me] = "dropped" /\ pc' = [pc EXCEPT ![me] = "rest"]
      BY <1>9, Zenon DEF Dropped, At, Goto, bandVars, countVars, flagVars, Calm
    <2>2. Quiet
      BY <1>2, <2>1, Zenon
    <2> QED
      BY <2>1, <2>2, PlainMove, Zenon
  <1>10. CASE Barrier
    <2>1. /\ YieldWhile("barrier", numReady < NumWorkers, "passed") /\ Same
          /\ (numReady < NumWorkers) \in BOOLEAN
      BY <1>10 DEF Barrier, bandVars, countVars, flagVars
    <2>2. /\ cpu = "thread" /\ pc[me] = "barrier" /\ Calm
          /\ \/ pc' = [pc EXCEPT ![me] = "barrier"]
             \/ ~(numReady < NumWorkers) /\ pc' = [pc EXCEPT ![me] = "passed"]
      BY <1>1, <2>1, Zenon
    <2>3. "barrier" \in BandLabels
      BY Zenon DEF BandLabels
    <2>4. numReady \in Nat /\ NumWorkers \in Nat
      <3>1. IsFiniteSet({t \in Workers : pc[t] = "barrier"})
        BY KernelAssumption, FS_Subset, Zenon DEF Workers
      <3>2. Cardinality({t \in Workers : pc[t] = "barrier"}) \in Nat
        BY <3>1, FS_CardinalityType, Zenon
      <3> QED
        BY <3>2, WorkersCounted DEF Songs, Gathering, Performing, Resetting
    <2>7. Quiet
      BY <1>2, <2>2
    <2>5. CASE pc' = [pc EXCEPT ![me] = "barrier"]
      BY <2>1, <2>2, <2>3, <2>5, <2>7, PlainMove, Zenon
    <2>6. CASE ~(numReady < NumWorkers) /\ pc' = [pc EXCEPT ![me] = "passed"]
      <3>1. numReady >= NumWorkers
        BY <2>4, <2>6
      <3> QED
        BY <2>1, <2>2, <2>6, <2>7, <3>1, PlainMove, Zenon
    <2> QED
      BY <2>2, <2>5, <2>6, Zenon
  <1>11. CASE Passed
    <2>1. Same /\ Calm /\ cpu = "thread" /\ pc[me] = "passed" /\ pc' = [pc EXCEPT ![me] = "reset"]
      BY <1>11, Zenon DEF Passed, At, Local, Goto, bandVars, countVars, flagVars, Calm
    <2>2. Quiet
      BY <1>2, <2>1, Zenon
    <2> QED
      BY <2>1, <2>2, PlainMove, Zenon
  <1>12. CASE Leave
    <2>1. Same /\ Calm /\ cpu = "thread" /\ pc[me] = "leave" /\ pc' = [pc EXCEPT ![me] = "leaving"]
      BY <1>12 DEF Leave, At, Local, Goto, Calm
    <2>2. Quiet
      BY <1>2, <2>1
    <2> QED
      BY <2>1, <2>2, PlainMove, Zenon
  <1>13. CASE Leaving
    <2> DEFINE waits == leaving < NumWorkers /\ ~leavingFlag
    <2>1. YieldWhile("leaving", waits, "return") /\ Same /\ waits \in BOOLEAN
      BY <1>13, Zenon DEF Leaving, flagVars
    <2> HIDE DEF waits
    <2>2. /\ cpu = "thread" /\ pc[me] = "leaving" /\ Calm
          /\ pc' = [pc EXCEPT ![me] = "leaving"] \/ pc' = [pc EXCEPT ![me] = "return"]
      BY <1>1, <2>1, Zenon
    <2>3. "leaving" \in BandLabels
      BY Zenon DEF BandLabels
    <2>4. Quiet
      BY <1>2, <2>2, Zenon
    <2> QED
      BY <2>1, <2>2, <2>3, <2>4, PlainMove, Zenon
  <1> QED
    BY <1>3, <1>4, <1>5, <1>6, <1>7, <1>8, <1>9, <1>10, <1>11, <1>12, <1>13,
       JoinsSong, TakesInstrument, PlaysSong, DropsInstrument, RestsAfterSong,
       ReadyForBarrier, ResetsBarrier, Zenon DEF Band

-----------------------------------------------------------------------------
(***************************************************************************)
(* The steps of the others                                                 *)
(***************************************************************************)

\* The main thread creates and forks a worker that was not there, or is done.
LEMMA TestKeepsBand ==
  ASSUME KernelInv, BandPlaces, Roles, Stand, Songs, threadChoice = 6, NEW w \in Workers,
         TestCreates(w) \/ TestForks(w) \/ TestReturns
  PROVE  BandPlaces' /\ Roles' /\ Stand' /\ Songs'
  <1> USE DEF Goto, Local, At, Others
  <1>1. /\ UNCHANGED bandVars /\ pc[me] \in {"test", "testFork"}
        /\ me = MainThread /\ me \in Threads /\ w \in Threads /\ w # me
    <2>1. UNCHANGED bandVars /\ pc[me] \in {"test", "testFork"}
      BY Zenon DEF TestCreates, TestForks, TestReturns
    <2>2. me \in Threads
      BY Zenon DEF KernelInv, TypeOK, me
    <2> QED
      BY <2>1, <2>2, Zenon DEF BandPlaces, Workers, BandLabels, Onstage
  <1>2. /\ players' = players /\ instruments' = instruments /\ temp' = temp
        /\ songsPlayed' = songsPlayed /\ numReady' = numReady /\ incrementFlag' = incrementFlag
    BY <1>1, Zenon DEF bandVars, countVars, flagVars
  <1> DEFINE Labels == BandLabels \cup {"none", "return", "gone", "test", "testFork"}
  <1>3. PICK l \in {"test", "testFork", "return"}, u \in {pc[w], "player"} :
          /\ \A t \in Threads : pc'[t] = IF t = me THEN l ELSE IF t = w THEN u ELSE pc[t]
          /\ pc' \in [Threads -> Labels]
          /\ u = pc[w] \/ status[w] = "JUST_CREATED"
    <2>1. pc \in [Threads -> Labels]
      BY Zenon DEF BandPlaces
    <2>2. "test" \in Labels /\ "testFork" \in Labels /\ "return" \in Labels /\ "player" \in Labels
      BY Zenon DEF BandLabels
    <2> HIDE DEF Labels
    <2>3. CASE TestForks(w)
      <3>1. Entry(w) = "player"
        BY DEF Entry
      <3>2. pc' = [pc EXCEPT ![me] = "test", ![w] = "player"] /\ status[w] = "JUST_CREATED"
        BY <2>3, <3>1, Zenon DEF TestForks, Fork
      <3>3. \A t \in Threads : pc'[t] = IF t = me THEN "test" ELSE IF t = w THEN "player" ELSE pc[t]
        BY <1>1, <2>1, <3>2
      <3>4. pc' \in [Threads -> Labels]
        BY <1>1, <2>1, <2>2, <3>2, Zenon
      <3> QED
        BY <3>2, <3>3, <3>4
    <2>4. CASE TestCreates(w) \/ TestReturns
      <3>1. PICK l \in {"testFork", "return"} : pc' = [pc EXCEPT ![me] = l]
        BY <2>4, Zenon DEF TestCreates, TestReturns
      <3>2. pc' \in [Threads -> Labels]
        BY <1>1, <2>1, <2>2, <3>1, Zenon
      <3>3. \A t \in Threads : pc'[t] = IF t = me THEN l ELSE pc[t]
        BY <1>1, <2>1, <3>1, Zenon
      <3> QED
        BY <1>1, <3>2, <3>3, Zenon
    <2> QED
      BY <2>3, <2>4, Zenon
  <1>4. /\ \A t \in Workers : status'[t] \in Unborn => status[t] \in Unborn
        /\ u # pc[w] => status'[w] \notin Unborn
        /\ UNCHANGED threadToBeDestroyed
    <2>1. status \in [Threads -> Statuses]
      BY Zenon DEF KernelInv, TypeOK
    <2>2. CASE TestForks(w)
      BY <1>1, <2>1, <2>2, Zenon DEF TestForks, Fork, Unborn, Workers
    <2>3. CASE TestCreates(w)
      <3>1. u = pc[w]
        BY <1>1, <1>3, <2>3, Zenon DEF TestCreates, NewThread
      <3> QED
        BY <1>1, <2>1, <2>3, <3>1, Zenon DEF TestCreates, NewThread, Unborn, Workers
    <2>4. CASE TestReturns
      <3>1. pc' = [pc EXCEPT ![me] = "return"] /\ UNCHANGED vars
        BY <2>4, Zenon DEF TestReturns
      <3>2. pc'[w] = pc[w]
        BY <1>1, <3>1, Zenon DEF BandPlaces
      <3>3. u = pc[w]
        BY <1>1, <1>3, <3>2, Zenon
      <3> QED
        BY <3>1, <3>3, Zenon DEF vars, threadVars
    <2> QED
      BY <2>2, <2>3, <2>4, Zenon
  <1>5. u = pc[w] \/ (u = "player" /\ pc[w] \in {"none", "gone"})
    BY <1>3, Zenon DEF BandPlaces, Unborn
  <1>6. threadToBeDestroyed # NULL =>
          threadToBeDestroyed \in Threads /\ threadToBeDestroyed # me
          /\ (u # pc[w] => threadToBeDestroyed # w)
    BY <1>1, <1>3, Zenon DEF BandPlaces, KernelInv, TypeOK, CarcassIsDead
  <1>7. \A t \in Workers : pc'[t] = IF t = w THEN u ELSE pc[t]
    BY <1>1, <1>3, Zenon DEF Workers
  <1>8. BandPlaces'
    <2>1. pc'[MainThread] \in {"test", "testFork", "return", "gone"}
      BY <1>1, <1>3, Zenon
    <2>2. \A t \in Workers : pc'[t] \in BandLabels \cup {"none", "return", "gone"}
      BY <1>3, <1>7, Zenon DEF BandPlaces, BandLabels
    <2>3. \A t \in Workers : status'[t] \in Unborn => pc'[t] \in {"none", "gone"}
      BY <1>3, <1>4, <1>7, Zenon DEF BandPlaces
    <2>4. threadToBeDestroyed' # NULL => pc'[threadToBeDestroyed'] = "gone"
      BY <1>3, <1>4, <1>6, Zenon DEF BandPlaces
    <2> QED
      BY <1>3, <2>1, <2>2, <2>3, <2>4, Zenon DEF BandPlaces, Workers
  <1>9. Roles'
    <2>1. players[w] \in RolesAt(u)
      BY <1>5 DEF Roles, RolesAt
    <2> QED
      BY <1>2, <1>7, <2>1, RolesStay, Zenon
  <1>10. Stand'
    <2>1. \A t \in Workers : Has(t)' <=> Has(t)
      BY <1>2, <1>5, <1>7, HasNext, Zenon DEF Has
    <2> QED
      BY <1>2, <2>1, StandStill, Zenon
  <1>11. Gathering' \/ Performing' \/ Resetting'
    <2>1. CASE u = pc[w]
      <3>1. \A t \in Workers : pc'[t] = pc[t]
        BY <1>7, <2>1, Zenon
      <3>2. {t \in Workers : pc'[t] = "barrier"} = {t \in Workers : pc[t] = "barrier"}
        BY <3>1, Zenon
      <3> QED
        BY <1>2, <3>1, <3>2, Zenon DEF Songs, Gathering, Performing, Resetting
    <2>2. CASE u = "player" /\ pc[w] \in {"none", "gone"}
      <3>1. Gathering
        BY <2>2, Zenon DEF Songs, Performing, Resetting, Onstage
      <3> QED
        BY <1>2, <1>7, <2>2, <3>1, StillGathering, Zenon DEF Onstage
    <2> QED
      BY <1>5, <2>1, <2>2, Zenon
  <1> QED
    BY <1>2, <1>8, <1>9, <1>10, <1>11, Zenon DEF Songs

\* A thread that returns into Finish has left the stage, and becomes the carcass.
LEMMA ReturnKeepsBand ==
  ASSUME KernelInv, BandPlaces, Roles, Stand, Songs, Returns, UNCHANGED Others
  PROVE  BandPlaces' /\ Roles' /\ Stand' /\ Songs'
  <1>1. /\ UNCHANGED bandVars /\ pc[me] = "return"
        /\ pc' = [pc EXCEPT ![me] = "gone"] /\ threadToBeDestroyed' = me
        /\ status' = [status EXCEPT ![me] = "BLOCKED"]
    BY Zenon DEF Returns, Finish, At, Goto, Others, me
  <1>2. /\ players' = players /\ instruments' = instruments /\ temp' = temp
        /\ songsPlayed' = songsPlayed /\ numReady' = numReady /\ incrementFlag' = incrementFlag
    BY <1>1, Zenon DEF bandVars, countVars, flagVars
  <1>3. me \in Threads /\ status \in [Threads -> Statuses]
    BY Zenon DEF KernelInv, TypeOK, me
  <1>4. \A t \in Threads : pc'[t] = IF t = me THEN "gone" ELSE pc[t]
    BY <1>1, <1>3, Zenon DEF BandPlaces
  <1>5. BandPlaces'
    <2>1. pc' \in [Threads -> BandLabels \cup {"none", "return", "gone", "test", "testFork"}]
      BY <1>1, <1>3, Zenon DEF BandPlaces
    <2>2. \A t \in Workers : status'[t] \in Unborn => pc'[t] \in {"none", "gone"}
      BY <1>1, <1>3, <1>4, Zenon DEF BandPlaces, Workers, Unborn
    <2>3. \A t \in Workers : pc'[t] \in BandLabels \cup {"none", "return", "gone"}
      BY <1>4, Zenon DEF BandPlaces, Workers
    <2>4. pc'[MainThread] \in {"test", "testFork", "return", "gone"}
      BY <1>4, KernelAssumption, Zenon DEF BandPlaces
    <2> QED
      BY <1>1, <1>3, <1>4, <2>1, <2>2, <2>3, <2>4, Zenon DEF BandPlaces, Workers
  <1>6. Roles'
    <2>1. \A t \in Workers : players[t] \in RolesAt(pc'[t])
      BY <1>1, <1>4 DEF Roles, RolesAt, Workers
    <2> QED
      BY <1>2, <2>1, Zenon DEF Roles, Workers, RolesAt
  <1>7. Stand'
    <2>1. \A t \in Workers : Has(t)' <=> Has(t)
      BY <1>1, <1>2, <1>4, HasNext DEF Has, Workers
    <2> QED
      BY <1>2, <2>1, StandStill, Zenon
  <1>8. Gathering' \/ Performing' \/ Resetting'
    <2>1. CASE me \in Workers
      <3>1. Gathering
        BY <1>1, <2>1, Zenon DEF Songs, Performing, Resetting, Onstage
      <3>2. pc'[me] = "gone" /\ \A t \in Workers : t # me => pc'[t] = pc[t]
        BY <1>3, <1>4, Zenon DEF Workers
      <3> QED
        BY <1>1, <1>2, <2>1, <3>1, <3>2, StillGathering, Zenon DEF Onstage
    <2>2. CASE me \notin Workers
      <3>1. \A t \in Workers : pc'[t] = pc[t]
        BY <1>4, <2>2, Zenon DEF Workers
      <3>2. {t \in Workers : pc'[t] = "barrier"} = {t \in Workers : pc[t] = "barrier"}
        BY <3>1, Zenon
      <3> QED
        BY <1>2, <3>1, <3>2, Zenon DEF Songs, Gathering, Performing, Resetting
    <2> QED
      BY <2>1, <2>2, Zenon
  <1> QED
    BY <1>2, <1>5, <1>6, <1>7, <1>8, Zenon DEF Songs

\* Dispatching, ticks and the timer move no thread of the band.
LEMMA MachineKeepsBand ==
  ASSUME KernelInv, BandPlaces, Roles, Stand, Songs, Quiet, UNCHANGED <<testVars, bandVars>>
  PROVE  BandPlaces' /\ Roles' /\ Stand' /\ Songs'
  <1>1. /\ pc' = pc /\ players' = players /\ instruments' = instruments /\ temp' = temp
        /\ songsPlayed' = songsPlayed /\ numReady' = numReady /\ incrementFlag' = incrementFlag
    BY Zenon DEF testVars, bandVars, countVars, flagVars
  <1>2. BandPlaces'
    <2>1. \A t \in Workers : status'[t] \in Unborn => pc[t] \in {"none", "gone"}
      BY KernelAssumption, Zenon DEF BandPlaces, Quiet, Workers
    <2> QED
      BY <1>1, <2>1, Zenon DEF BandPlaces, Quiet, Workers, BandLabels
  <1>3. Roles'
    BY <1>1, Zenon DEF Roles, RolesAt, Workers
  <1>4. Stand'
    <2>1. \A t \in Workers : Has(t)' <=> Has(t)
      BY <1>1, HasNext, Zenon DEF Has
    <2> QED
      BY <1>1, <2>1, StandStill, Zenon
  <1>5. Songs'
    BY <1>1, Zenon DEF Songs, Gathering, Performing, Resetting, Onstage, Workers, NumWorkers
  <1> QED
    BY <1>2, <1>3, <1>4, <1>5, Zenon

\* The other programs do not run with threadChoice 6.
LEMMA OthersAway ==
  ASSUME KernelInv, BandPlaces
  PROVE  /\ ~PhiloBusy
         /\ ~Shout /\ ~Pause /\ ~ZombieStuff /\ ~HumanStuff /\ ~Flee
         /\ \A t \in Workers : ~Born(t) /\ ~SpawnFork(t)
         /\ ~NoMore /\ ~SpawnYields
  <1>1. pc[me] \in BandLabels \cup {"none", "return", "gone", "test", "testFork"}
    BY Zenon DEF BandPlaces, KernelInv, TypeOK, me
  <1>2. pc[me] \notin {"philosopher", "sit", "hungry", "left", "right", "served", "eating", "full",
                       "thinking", "shouter", "pause", "zombie", "human", "flee", "spawn",
                       "fork", "born"}
    BY <1>1, Zenon DEF BandLabels, Onstage
  <1>3. ~PhiloBusy
    BY <1>2, Zenon DEF PhiloBusy, Arrive, Sit, Hungry, PickUpLeft, PickUpRight, PickUp, Served,
                Eating, PutDown, Thinking, Turns, YieldWhile, At
  <1> QED
    BY <1>2, <1>3, Zenon DEF Shout, Pause, ZombieStuff, HumanStuff, Flee,
                      Born, SpawnFork, NoMore, SpawnYields, Turns, At

\* With another threadChoice no thread ever gets to the stage.
LEMMA SilentStays ==
  ASSUME KernelInv, Silent, TTNext
  PROVE  Silent'
  <1>1. me \in Threads /\ pc[me] \notin BandLabels
    <2>1. me \in Threads
      BY Zenon DEF KernelInv, TypeOK, me
    <2>2. pc[me] \in Elsewhere
      BY <2>1, Zenon DEF Silent
    <2> QED
      BY <2>1, <2>2, Zenon DEF Elsewhere, BandLabels, Onstage
  <1>2. ~Band
    BY <1>1, Zenon DEF Band, Arrives, Gather, NextSong, GetInstrumentP, Take, Takes, Check,
                CountSpecs, NameSpecs, Play, Plays, Drop, Dropped, Rest, Ready, Barrier,
                Passed, Reset, Leave, Leaving, YieldWhile, At, BandLabels, Onstage
  <1> DEFINE Moves == \/ pc' = pc
                      \/ \E l \in Elsewhere : pc' = [pc EXCEPT ![me] = l]
                      \/ \E k \in Elsewhere, l \in Elsewhere, t \in Threads :
                           pc' = [pc EXCEPT ![me] = l, ![t] = k]
  <1>3. ASSUME NEW l \in Elsewhere, Goto(l)
        PROVE  threadChoice' = threadChoice /\ Moves
    BY <1>3, Zenon DEF Goto
  <1>4. ASSUME NEW l \in Elsewhere, Local(l)
        PROVE  threadChoice' = threadChoice /\ Moves
    BY <1>3, <1>4, Zenon DEF Local
  <1>5. /\ "none" \in Elsewhere /\ "test" \in Elsewhere /\ "testFork" \in Elsewhere
        /\ "return" \in Elsewhere /\ "gone" \in Elsewhere /\ "philosopher" \in Elsewhere
        /\ "sit" \in Elsewhere /\ "hungry" \in Elsewhere /\ "left" \in Elsewhere
        /\ "right" \in Elsewhere /\ "served" \in Elsewhere /\ "eating" \in Elsewhere
        /\ "full" \in Elsewhere /\ "thinking" \in Elsewhere /\ "shouter" \in Elsewhere
        /\ "pause" \in Elsewhere /\ "zombie" \in Elsewhere /\ "human" \in Elsewhere
        /\ "flee" \in Elsewhere /\ "spawn" \in Elsewhere /\ "fork" \in Elsewhere
        /\ "born" \in Elsewhere
    BY Zenon DEF Elsewhere
  <1>7. ASSUME NEW t \in Workers, SpawnFork(t) \/ TestForks(t)
        PROVE  UNCHANGED bandVars /\ threadChoice' = threadChoice /\ Moves
    <2>1. Entry(t) \in Elsewhere
      BY <1>5 DEF Entry, Silent
    <2>2. CASE SpawnFork(t)
      BY <1>5, <2>2, Zenon DEF SpawnFork, Others, Workers
    <2>3. CASE TestForks(t)
      BY <1>5, <2>1, <2>3, Zenon DEF TestForks, Others, Workers
    <2> QED
      BY <1>7, <2>2, <2>3, Zenon
  <1> HIDE DEF Moves
  <1>8. ASSUME PhiloBusy
        PROVE  threadChoice' = threadChoice /\ Moves
    BY <1>3, <1>4, <1>5, <1>8, Zenon DEF PhiloBusy, Arrive, Sit, Hungry, PickUpLeft, PickUpRight,
         PickUp, Served, Eating, PutDown, Thinking, Turns, YieldWhile
  <1>9. ASSUME \/ Shout \/ Pause \/ ZombieStuff \/ HumanStuff \/ Flee
               \/ \E t \in Workers : Born(t) \/ TestCreates(t)
               \/ NoMore \/ SpawnYields \/ TestReturns
               \/ Returns /\ UNCHANGED Others
        PROVE  UNCHANGED bandVars /\ threadChoice' = threadChoice /\ Moves
    <2>1. UNCHANGED Others
      BY <1>9, Zenon DEF Shout, Pause, ZombieStuff, HumanStuff, Flee, Born, NoMore,
           SpawnYields, TestCreates, TestReturns
    <2>2. threadChoice' = threadChoice /\ Moves
      BY <1>3, <1>4, <1>5, <1>9, Zenon DEF Shout, Pause, ZombieStuff, HumanStuff, Flee,
           Born, NoMore, SpawnYields, TestCreates, TestReturns, Returns, Turns
    <2> QED
      BY <2>1, <2>2, Zenon DEF Others
  <1>10. ASSUME Machine, UNCHANGED Others
         PROVE  UNCHANGED bandVars /\ threadChoice' = threadChoice /\ Moves
    BY <1>10, Zenon DEF Machine, testVars, Others, Moves
  <1>11. UNCHANGED bandVars /\ threadChoice' = threadChoice /\ Moves
    BY <1>2, <1>7, <1>8, <1>9, <1>10, Zenon DEF TTNext
  <1>12. pc' \in [Threads -> Elsewhere]
    <2> USE DEF Silent
    <2>1. CASE pc' = pc
      BY <2>1, Zenon
    <2>2. ASSUME NEW l \in Elsewhere, pc' = [pc EXCEPT ![me] = l]
          PROVE  pc' \in [Threads -> Elsewhere]
      BY <1>1, <2>2, Zenon
    <2>3. ASSUME NEW l \in Elsewhere, NEW k \in Elsewhere, NEW u \in Threads,
                 pc' = [pc EXCEPT ![me] = l, ![u] = k]
          PROVE  pc' \in [Threads -> Elsewhere]
      BY <1>1, <2>3, Zenon
    <2> QED
      BY <1>11, <2>1, <2>2, <2>3, Zenon DEF Moves
  <1>13. BandInit'
    <2>1. BandInit
      BY Zenon DEF Silent
    <2> QED
      BY <1>11, <2>1, Zenon DEF BandInit, bandVars, countVars, flagVars, Workers, Instruments
  <1> QED
    BY <1>11, <1>12, <1>13, Zenon DEF Silent, Elsewhere

\* Every step of every program keeps the invariant.
LEMMA NextBandInv ==
  ASSUME KernelInv, BandInv, [TTNext]_allVars
  PROVE  BandInv'
  <1>1. CASE threadChoice = 6
    <2>1. BandPlaces /\ Roles /\ Stand /\ Songs
      BY <1>1, Zenon DEF BandInv
    <2>2. ASSUME UNCHANGED allVars
          PROVE  threadChoice' = threadChoice /\ BandPlaces' /\ Roles' /\ Stand' /\ Songs'
      <3>1. UNCHANGED vars /\ UNCHANGED <<testVars, bandVars>> /\ threadChoice' = threadChoice
        BY <2>2, Zenon DEF allVars, testVars
      <3> QED
        BY <2>1, <3>1, QuietSteps, MachineKeepsBand, Zenon
    <2>3. ASSUME Machine, UNCHANGED Others
          PROVE  threadChoice' = threadChoice /\ BandPlaces' /\ Roles' /\ Stand' /\ Songs'
      <3>1. UNCHANGED <<testVars, bandVars>> /\ threadChoice' = threadChoice
        BY <2>3, Zenon DEF Machine, Others, testVars
      <3>2. Quiet
        BY <2>3, QuietSteps, Zenon DEF Machine
      <3> QED
        BY <2>1, <3>1, <3>2, MachineKeepsBand, Zenon
    <2>4. ASSUME Band
          PROVE  threadChoice' = threadChoice /\ BandPlaces' /\ Roles' /\ Stand' /\ Songs'
      <3>1. threadChoice' = threadChoice
        BY <2>4, ZenonT(30) DEF Band, Arrives, Gather, NextSong, GetInstrumentP, Take, Takes, Check,
             CountSpecs, NameSpecs, Play, Plays, Drop, Dropped, Rest, Ready, Barrier,
             Passed, Reset, Leave, Leaving, YieldWhile, Goto, Local
      <3> QED
        BY <2>1, <2>4, <3>1, BandKeeps, Zenon
    <2>5. ASSUME NEW w \in Workers, TestCreates(w) \/ TestForks(w) \/ TestReturns
          PROVE  threadChoice' = threadChoice /\ BandPlaces' /\ Roles' /\ Stand' /\ Songs'
      <3>1. threadChoice' = threadChoice
        BY <2>5, Zenon DEF TestCreates, TestForks, TestReturns, Goto, Local
      <3> QED
        BY <1>1, <2>1, <2>5, <3>1, TestKeepsBand, Zenon
    <2>6. ASSUME Returns, UNCHANGED Others
          PROVE  threadChoice' = threadChoice /\ BandPlaces' /\ Roles' /\ Stand' /\ Songs'
      <3>1. threadChoice' = threadChoice
        BY <2>6, Zenon DEF Returns, Goto
      <3> QED
        BY <2>1, <2>6, <3>1, ReturnKeepsBand, Zenon
    <2>7. TestReturns => \E w \in Workers : TestCreates(w) \/ TestForks(w) \/ TestReturns
      BY WorkersCounted, Zenon
    <2>8. threadChoice' = threadChoice /\ BandPlaces' /\ Roles' /\ Stand' /\ Songs'
      <3>1. CASE TTNext
        BY <2>1, <2>3, <2>4, <2>5, <2>6, <2>7, <3>1, OthersAway, Zenon DEF TTNext
      <3> QED
        BY <2>2, <3>1, Zenon
    <2> QED
      BY <1>1, <2>8, Zenon DEF BandInv
  <1>2. CASE threadChoice # 6
    <2>1. Silent
      BY <1>2, Zenon DEF BandInv
    <2>2. CASE TTNext
      <3>1. Silent'
        BY <2>1, <2>2, SilentStays, Zenon
      <3>2. threadChoice' # 6
        BY <3>1 DEF Silent
      <3> QED
        BY <3>1, <3>2, Zenon DEF BandInv
    <2>3. CASE UNCHANGED allVars
      <3>1. threadChoice' = threadChoice /\ pc' = pc /\ UNCHANGED bandVars
        BY <2>3, Zenon DEF allVars, testVars
      <3>2. Silent'
        BY <2>1, <3>1, Zenon DEF Silent, BandInit, bandVars, countVars, flagVars, Workers, Instruments,
                          Elsewhere
      <3> QED
        BY <1>2, <3>1, <3>2, Zenon DEF BandInv
    <2> QED
      BY <2>2, <2>3, Zenon
  <1> QED
    BY <1>1, <1>2, Zenon

LEMMA InitBandInv == TTInit => BandInv
  <1> SUFFICES ASSUME TTInit PROVE BandInv
    BY Zenon
  <1>1. /\ pc = [t \in Threads |-> IF t = MainThread THEN "test" ELSE "none"]
        /\ BandInit /\ threadToBeDestroyed = NULL /\ threadChoice \in {1, 2, 3, 4, 6}
    BY Zenon DEF TTInit, Init
  <1>2. Silent \/ threadChoice = 6
    <2>1. "test" \in Elsewhere /\ "none" \in Elsewhere
      BY Zenon DEF Elsewhere
    <2>2. pc \in [Threads -> Elsewhere]
      BY <1>1, <2>1, Zenon
    <2> QED
      BY <1>1, <2>2, Zenon DEF Silent
  <1>3. BandPlaces
    <2> DEFINE Labels == BandLabels \cup {"none", "return", "gone", "test", "testFork"}
    <2>1. "test" \in Labels /\ "none" \in Labels
      BY Zenon
    <2>2. pc \in [Threads -> Labels]
      <3> HIDE DEF Labels
      <3> QED
        BY <1>1, <2>1, Zenon
    <2>3. pc[MainThread] = "test" /\ \A t \in Workers : pc[t] = "none"
      BY <1>1, KernelAssumption, Zenon DEF Workers
    <2> QED
      BY <1>1, <2>2, <2>3, Zenon DEF BandPlaces
  <1>4. Roles
    BY <1>1, Zenon DEF Roles, RolesAt, BandInit, Workers
  <1>5. Stand
    <2>1. \A t \in Workers : ~Has(t)
      BY <1>1, Zenon DEF Has, BandInit
    <2> QED
      BY <1>1, <2>1, Zenon DEF Stand, BandInit
  <1>6. Songs
    <2>1. \A t \in Workers : pc[t] = "none"
      BY <1>1, Zenon DEF Workers
    <2>2. songsPlayed = 0 /\ numReady = 0 /\ incrementFlag = FALSE
      BY <1>1, Zenon DEF BandInit
    <2>3. Gathering
      BY <2>1, <2>2, Zenon DEF Gathering, Onstage
    <2>4. songsPlayed \in Nat /\ songsPlayed <= NumSongs
      BY <2>2, ThreadTestAssumption
    <2>5. incrementFlag \in BOOLEAN
      BY <2>2, Zenon
    <2> QED
      BY <2>3, <2>4, <2>5, Zenon DEF Songs
  <1> QED
    BY <1>2, <1>3, <1>4, <1>5, <1>6, Zenon DEF BandInv, Silent

-----------------------------------------------------------------------------
(***************************************************************************)
(* The theorems                                                            *)
(***************************************************************************)

LEMMA BandStays == TTSpec => []BandInv
  <1>1. TTSpec => TTInit /\ [][TTNext]_allVars /\ []KernelInv
    <2>1. TTSpec => TTInit /\ [][TTNext]_allVars
      BY PTL DEF TTSpec
    <2> QED
      BY <2>1, ProgramsUseKernel, Bookkeeping, PTL
  <1>2. TTInit => BandInv
    BY InitBandInv, Zenon
  <1>3. BandInv /\ KernelInv /\ [TTNext]_allVars => BandInv'
    BY NextBandInv, Zenon
  <1> QED
    BY <1>1, <1>2, <1>3, PTL

\* The semaphore and the marks share the instruments for any number of threads and
\* of instruments, with and without the timer: one that is marked has one player,
\* one that is not has none.
THEOREM InstrumentsShared == TTSpec => []InstrumentsHeld
  <1>1. BandInv => InstrumentsHeld
    <2> SUFFICES ASSUME BandInv, NEW i \in Instruments
                 PROVE  Cardinality({t \in Playing : temp[t] = i}) = IF instruments[i] THEN 1 ELSE 0
      BY Zenon DEF InstrumentsHeld
    <2> DEFINE S == {t \in Playing : temp[t] = i}
    <2>1. S = {t \in Workers : Has(t) /\ temp[t] = i}
      BY Zenon DEF Playing, Has
    <2>2. CASE threadChoice = 6
      <3>1. Stand
        BY <2>2, Zenon DEF BandInv
      <3>2. CASE instruments[i]
        <4>1. PICK t \in Workers : Has(t) /\ temp[t] = i
          BY <3>1, <3>2, Zenon DEF Stand
        <4>2. S = {t}
          BY <2>1, <3>1, <4>1 DEF Stand
        <4> QED
          BY <3>2, <4>2, FS_Singleton, Zenon
      <3>3. CASE ~instruments[i]
        <4>1. S = {}
          BY <2>1, <3>1, <3>3, Zenon DEF Stand
        <4> QED
          BY <3>3, <4>1, FS_EmptySet, Zenon
      <3> QED
        BY <3>2, <3>3, Zenon
    <2>3. CASE threadChoice # 6
      <3>1. BandInit
        BY <2>3, Zenon DEF BandInv, Silent
      <3>2. S = {} /\ ~instruments[i]
        BY <2>1, <3>1, Zenon DEF BandInit, Has
      <3> QED
        BY <3>2, FS_EmptySet, Zenon
    <2> QED
      BY <2>2, <2>3, Zenon
  <1> QED
    BY <1>1, BandStays, PTL

\* The flags and the barrier count every song once, for any number of songs and
\* threads and whoever loses the processor when: there are never more than NumSongs,
\* and nobody leaves before the last one.
THEOREM BandCountsSongs == TTSpec => []SongsCounted
  <1>1. BandInv => SongsCounted
    <2> SUFFICES ASSUME BandInv PROVE SongsCounted
      BY Zenon
    <2>1. CASE threadChoice = 6
      <3>1. Songs
        BY <2>1, Zenon DEF BandInv
      <3> QED
        BY <3>1, Zenon DEF Songs, Gathering, Performing, Resetting, SongsCounted, Onstage
    <2>2. CASE threadChoice # 6
      BY <2>2, ThreadTestAssumption DEF BandInv, Silent, BandInit, SongsCounted
    <2> QED
      BY <2>1, <2>2, Zenon
  <1> QED
    BY <1>1, BandStays, PTL

=============================================================================
