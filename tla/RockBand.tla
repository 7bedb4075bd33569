------------------------------ MODULE RockBand ------------------------------
(***************************************************************************)
(* RockBand: threads that play songs together, held together by flags and  *)
(* counters they poll and a semaphore around the instruments.              *)
(***************************************************************************)
EXTENDS TestThreads

CONSTANTS
  NumIns, NumSongs,
  getInstrument       \* the semaphore

VARIABLES
  players,            \* NOTREADY, WANTING, SPECTATOR or READYTOPLAY
  instruments,        \* whether each is TAKEN
  temp,               \* the instrument each thread tried last
  songsPlayed, numSpecs, numReady, leaving,
  arrivalFlag, specFlag, songFlag, incrementFlag, leavingFlag

countVars == <<songsPlayed, numSpecs, numReady, leaving>>
flagVars == <<arrivalFlag, specFlag, songFlag, incrementFlag, leavingFlag>>
bandVars == <<players, instruments, temp, countVars, flagVars>>

Instruments == 0..(NumIns - 1)

BandInit ==
  /\ players = [t \in Workers |-> "NOTREADY"]
  /\ instruments = [i \in Instruments |-> FALSE]
  /\ temp = [t \in Workers |-> 0]
  /\ songsPlayed = 0 /\ numSpecs = 0 /\ numReady = 0 /\ leaving = 0
  /\ arrivalFlag = FALSE /\ specFlag = FALSE /\ songFlag = FALSE
  /\ incrementFlag = FALSE /\ leavingFlag = FALSE

\* The last thread says that all are there, and yields.
Arrives ==
  /\ At("player")
  /\ \/ me # NumWorkers - 1 /\ Local("gather") /\ UNCHANGED arrivalFlag
     \/ me = NumWorkers - 1 /\ Yield /\ Goto("gather") /\ arrivalFlag' = TRUE
  /\ UNCHANGED <<loops, players, instruments, temp, countVars,
                 specFlag, songFlag, incrementFlag, leavingFlag>>

Gather == YieldWhile("gather", ~arrivalFlag, "song") /\ UNCHANGED <<loops, bandVars>>

\* The head of the loop: play or watch.
NextSong ==
  /\ At("song")
  /\ \/ songsPlayed >= NumSongs /\ Local("leave") /\ UNCHANGED players
     \/ /\ songsPlayed < NumSongs
        /\ \E p \in {"WANTING", "SPECTATOR"} :
             /\ players' = [players EXCEPT ![me] = p]
             /\ Local(IF p = "WANTING" THEN "want" ELSE "check")
  /\ UNCHANGED <<loops, instruments, temp, countVars, flagVars>>

\* getInstrument->P()
GetInstrumentP(label, next) ==
  /\ pc[me] = label
  /\ \/ PSleep(getInstrument) /\ Goto(label)
     \/ PDone(getInstrument) /\ Goto(next)
  /\ UNCHANGED <<loops, bandVars>>

\* Tries an instrument and calls getInstrument->V(), tested or not.
Takes(tested) ==
  /\ At("take") /\ V(getInstrument) /\ Goto("check")
  /\ \E i \in Instruments :
       LET free == ~tested \/ ~instruments[i]
       IN  /\ temp' = [temp EXCEPT ![me] = i]
           /\ instruments' = [instruments EXCEPT ![i] = TRUE]
           /\ players' = [players EXCEPT ![me] = IF free THEN "READYTOPLAY" ELSE "SPECTATOR"]
  /\ UNCHANGED <<loops, countVars, flagVars>>

\* Mutant: a taken instrument is taken again.
TakeAny == Takes(FALSE)

Take == Takes(TRUE)

\* RockCheck()
RockCheck == \A t \in Workers : players[t] \notin {"NOTREADY", "WANTING"}

Check == YieldWhile("check", ~RockCheck, "count") /\ UNCHANGED <<loops, bandVars>>

\* The first one counts the spectators.
CountSpecs ==
  /\ At("count") /\ Local("name")
  /\ numSpecs' = IF specFlag THEN numSpecs
                 ELSE Cardinality({t \in Workers : players[t] = "SPECTATOR"})
  /\ specFlag' = TRUE
  /\ songFlag' = (songFlag \/ numSpecs' = 0)
  /\ UNCHANGED <<loops, players, instruments, temp, songsPlayed, numReady, leaving,
                 arrivalFlag, incrementFlag, leavingFlag>>

\* The spectators give their numbers until the last one starts the song.
NameSpecs ==
  LET mine == ~songFlag /\ players[me] = "SPECTATOR"
  IN  /\ YieldWhile("name", ~songFlag, "play")
      /\ numSpecs' = IF mine /\ numSpecs > 1 THEN numSpecs - 1 ELSE numSpecs
      /\ songFlag' = (songFlag \/ (mine /\ numSpecs = 1))
      /\ UNCHANGED <<loops, players, instruments, temp, songsPlayed, numReady, leaving,
                     arrivalFlag, specFlag, incrementFlag, leavingFlag>>

\* The first one counts the song; a spectator is done with it.
Plays(counts) ==
  /\ At("play")
  /\ songsPlayed' = IF counts THEN songsPlayed + 1 ELSE songsPlayed
  /\ incrementFlag' = TRUE
  /\ \/ players[me] = "READYTOPLAY" /\ Local("stop") /\ UNCHANGED players
     \/ /\ players[me] # "READYTOPLAY" /\ Local("ready")
        /\ players' = [players EXCEPT ![me] = IF @ = "SPECTATOR" THEN "NOTREADY" ELSE @]
  /\ UNCHANGED <<loops, instruments, temp, numSpecs, numReady, leaving,
                 arrivalFlag, specFlag, songFlag, leavingFlag>>

\* Mutant: everybody counts the song.
PlayCounted == Plays(TRUE)

Play == Plays(~incrementFlag)

Drop ==
  /\ At("drop") /\ V(getInstrument) /\ Goto("dropped")
  /\ instruments' = [instruments EXCEPT ![temp[me]] = FALSE]
  /\ UNCHANGED <<loops, players, temp, countVars, flagVars>>

\* The Yield after the V, and the assignment after it.
Dropped == At("dropped") /\ Yield /\ Goto("rest") /\ UNCHANGED <<loops, bandVars>>
Rest ==
  /\ At("rest") /\ Local("ready")
  /\ players' = [players EXCEPT ![me] = "NOTREADY"]
  /\ UNCHANGED <<loops, instruments, temp, countVars, flagVars>>

\* ReadyCheck(): a barrier whose counter the threads that are through reset.
Ready ==
  /\ At("ready") /\ Local("barrier")
  /\ numReady' = numReady + 1
  /\ UNCHANGED <<loops, players, instruments, temp, songsPlayed, numSpecs, leaving, flagVars>>

Barrier ==
  YieldWhile("barrier", numReady < NumWorkers, "passed") /\ UNCHANGED <<loops, bandVars>>

\* Mutant: no Yield once all are ready.
PassedAtOnce == At("passed") /\ Local("reset") /\ UNCHANGED <<loops, bandVars>>

Passed ==
  /\ At("passed")
  /\ IF numReady = NumWorkers THEN Yield /\ Goto("reset") ELSE Local("reset")
  /\ UNCHANGED <<loops, bandVars>>

Reset ==
  /\ At("reset") /\ Local("song")
  /\ numReady' = 0
  /\ incrementFlag' = FALSE /\ songFlag' = FALSE /\ specFlag' = FALSE
  /\ UNCHANGED <<loops, players, instruments, temp, songsPlayed, numSpecs, leaving,
                 arrivalFlag, leavingFlag>>

Leave ==
  /\ At("leave") /\ Local("leaving")
  /\ leaving' = leaving + 1
  /\ leavingFlag' = (leavingFlag \/ leaving' = NumWorkers)
  /\ UNCHANGED <<loops, players, instruments, temp, songsPlayed, numSpecs, numReady,
                 arrivalFlag, specFlag, songFlag, incrementFlag>>

Leaving ==
  LET waits == leaving < NumWorkers /\ ~leavingFlag
  IN  /\ YieldWhile("leaving", waits, "return")
      /\ leaving' = IF waits THEN leaving ELSE leaving - 1
      /\ UNCHANGED <<loops, players, instruments, temp, songsPlayed, numSpecs, numReady, flagVars>>

Band ==
  \/ Arrives \/ Gather \/ NextSong \/ GetInstrumentP("want", "take") \/ Take
  \/ Check \/ CountSpecs \/ NameSpecs \/ Play \/ GetInstrumentP("stop", "drop")
  \/ Drop \/ Dropped \/ Rest \/ Ready \/ Barrier \/ Passed \/ Reset
  \/ Leave \/ Leaving

\* The threads that have an instrument.
Playing == {t \in Workers : players[t] = "READYTOPLAY" /\ pc[t] \notin {"dropped", "rest"}}

\* No two threads play the same instrument, an instrument is marked exactly while
\* one does, and nobody drops what another one holds.
InstrumentsHeld ==
  \A i \in Instruments :
    Cardinality({t \in Playing : temp[t] = i}) = IF instruments[i] THEN 1 ELSE 0

\* However the threads lose the processor, no song is counted twice, and when one
\* leaves all the songs were played.
SongsCounted ==
  /\ songsPlayed <= NumSongs
  /\ threadChoice = 6 => \A t \in Workers : pc[t] \in {"leave", "leaving", "return", "gone"} =>
                           songsPlayed = NumSongs
=============================================================================
