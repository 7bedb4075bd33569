------------------------- MODULE ThreadKernelProofs -------------------------
(***************************************************************************)
(* Proofs about ThreadKernel, for any threads, semaphores and devices: the *)
(* bookkeeping invariant KernelInv is inductive, hence a thread is always  *)
(* in one place and no wakeup of a semaphore is lost.  Before them, the    *)
(* facts about numbers, recursive definitions and queues that the proofs   *)
(* of all the components share.                                            *)
(***************************************************************************)
EXTENDS ThreadKernel, Integers, FiniteSetTheorems, WellFoundedInduction, TLAPS

-----------------------------------------------------------------------------
(***************************************************************************)
(* Induction and recursion                                                 *)
(***************************************************************************)

\* A set of natural numbers has a smallest element: induction in a form that needs
\* no operator as a parameter.
LEMMA LeastNatural ==
  ASSUME NEW S \in SUBSET Nat, S # {}
  PROVE  \E m \in S : \A k \in S : m <= k
  <1>1. PICK x \in S : \A y \in S : ~ (<<y, x>> \in OpToRel(<, Nat))
    BY NatLessThanWellFounded, WFMin, Zenon
  <1>2. \A y \in S : y < x => <<y, x>> \in OpToRel(<, Nat)
    BY Zenon DEF OpToRel
  <1>3. \A y \in S : ~ (y < x)
    BY <1>1, <1>2, Zenon
  <1> QED
    BY <1>3

\* Induction up to n, for a property given as the set of numbers that have it.
LEMMA SetInduction ==
  ASSUME NEW n \in Nat, NEW T, 0 \in T, \A m \in 0 .. n - 1 : m \in T => m + 1 \in T
  PROVE  0 .. n \subseteq T
  <1> DEFINE Bad == (0 .. n) \ T
  <1>1. SUFFICES ASSUME Bad # {} PROVE FALSE
    BY Zenon
  <1>2. PICK m \in Bad : \A k \in Bad : m <= k
    <2>1. Bad \in SUBSET Nat
      OBVIOUS
    <2> HIDE DEF Bad
    <2> QED
    BY <1>1, <2>1, LeastNatural, Zenon
  <1>3. m - 1 \in 0 .. n - 1 /\ m - 1 \notin Bad
    BY <1>2
  <1>4. m - 1 \in T /\ m - 1 + 1 = m
    BY <1>3
  <1> QED
    BY <1>2, <1>3, <1>4, Zenon

\* The functions that give the steps of a recursion over 1 .. n with values in Vals.
Steps(n, Vals) == [1 .. n -> [Vals -> Vals]]

\* f is what the recursion from a by the steps h computes, up to m.
Computes(f, m, Vals, a, h) ==
  f \in [0 .. m -> Vals] /\ f[0] = a /\ \A i \in 1 .. m : f[i] = h[i][f[i - 1]]

\* A function defined by recursion over 0 .. n exists, when its step is a function
\* of what it returned before.
LEMMA Recursion ==
  ASSUME NEW n \in Nat, NEW Vals, NEW a \in Vals, NEW h \in Steps(n, Vals)
  PROVE  \E f : Computes(f, n, Vals, a, h)
  <1> DEFINE Sol(f, m) == Computes(f, m, Vals, a, h)
             T == {m \in 0 .. n : \E f : Sol(f, m)}
  <1>1. 0 \in T
    <2>1. Sol([i \in 0..0 |-> a], 0)
      BY DEF Computes
    <2> HIDE DEF Sol
    <2> QED
      BY <2>1
  <1>2. ASSUME NEW m \in 0 .. n - 1, m \in T PROVE m + 1 \in T
    <2>1. PICK f : Sol(f, m)
      BY <1>2, Zenon
    <2> DEFINE g == [i \in 0 .. m + 1 |-> IF i = m + 1 THEN h[m + 1][f[m]] ELSE f[i]]
    <2>2. h[m + 1] \in [Vals -> Vals] /\ f[m] \in Vals /\ h[m + 1][f[m]] \in Vals
      BY <2>1 DEF Computes, Steps
    <2>3. g \in [0 .. m + 1 -> Vals] /\ g[0] = a
      BY <2>1, <2>2 DEF Computes
    <2>4. ASSUME NEW i \in 1 .. m + 1 PROVE g[i] = h[i][g[i - 1]]
      <3>1. \A k \in 1 .. m : f[k] = h[k][f[k - 1]]
        BY <2>1, Zenon DEF Computes
      <3> QED
        BY <3>1
    <2> HIDE DEF g
    <2>5. Sol(g, m + 1)
      BY <2>3, <2>4, Zenon DEF Computes
    <2> HIDE DEF Sol
    <2> QED
      BY <2>5
  <1> HIDE DEF T
  <1>3. n \in T
    <2>1. 0 .. n \subseteq T
      BY <1>1, <1>2, SetInduction, Zenon
    <2> QED
      BY <2>1
  <1> QED
    BY <1>3, Zenon DEF T

-----------------------------------------------------------------------------
(***************************************************************************)
(* Queues: the elements and the injectivity of Append and Tail             *)
(***************************************************************************)

\* Append adds its element and nothing else (List::Append).
LEMMA RangeAppend ==
  ASSUME NEW S, NEW q \in Seq(S), NEW x \in S
  PROVE  /\ Append(q, x) \in Seq(S)
         /\ Append(q, x) # <<>>
         /\ Range(Append(q, x)) = Range(q) \cup {x}
  <1>1. /\ Append(q, x) \in Seq(S)
        /\ Append(q, x) # <<>>
        /\ DOMAIN q = 1 .. Len(q)
        /\ Len(q) \in Nat
        /\ DOMAIN Append(q, x) = 1 .. Len(q) + 1
        /\ \A i \in 1 .. Len(q) : Append(q, x)[i] = q[i]
        /\ Append(q, x)[Len(q) + 1] = x
    OBVIOUS
  <1>2. ASSUME NEW y \in Range(Append(q, x)) PROVE y \in Range(q) \cup {x}
    BY <1>1 DEF Range
  <1>3. ASSUME NEW y \in Range(q) PROVE y \in Range(Append(q, x))
    BY <1>1 DEF Range
  <1>4. x \in Range(Append(q, x))
    BY <1>1 DEF Range
  <1> QED
    BY <1>1, <1>2, <1>3, <1>4, Zenon

\* Append of a new element keeps the elements distinct.
LEMMA InjectiveAppend ==
  ASSUME NEW S, NEW q \in Seq(S), NEW x \in S, IsInjective(q), x \notin Range(q)
  PROVE  IsInjective(Append(q, x))
  <1>1. /\ DOMAIN q = 1 .. Len(q)
        /\ Len(q) \in Nat
        /\ DOMAIN Append(q, x) = 1 .. Len(q) + 1
        /\ \A i \in 1 .. Len(q) : Append(q, x)[i] = q[i]
        /\ Append(q, x)[Len(q) + 1] = x
    OBVIOUS
  <1>2. \A i \in 1 .. Len(q) : q[i] # x
    BY <1>1, Zenon DEF Range
  <1> QED
    BY <1>1, <1>2 DEF IsInjective

\* Taking the head off a queue of distinct elements removes it (List::Remove).
LEMMA RangeTail ==
  ASSUME NEW S, NEW q \in Seq(S), q # <<>>, IsInjective(q)
  PROVE  /\ Head(q) \in S
         /\ Head(q) \in Range(q)
         /\ Tail(q) \in Seq(S)
         /\ Range(Tail(q)) = Range(q) \ {Head(q)}
         /\ IsInjective(Tail(q))
  <1>1. /\ Head(q) \in S
        /\ Tail(q) \in Seq(S)
        /\ DOMAIN q = 1 .. Len(q)
        /\ Len(q) \in Nat
        /\ Len(q) >= 1
        /\ Head(q) = q[1]
        /\ DOMAIN Tail(q) = 1 .. Len(q) - 1
        /\ \A i \in 1 .. Len(q) - 1 : Tail(q)[i] = q[i + 1]
    OBVIOUS
  <1>2. Head(q) \in Range(q)
    BY <1>1 DEF Range
  <1>3. ASSUME NEW y \in Range(Tail(q)) PROVE y \in Range(q) \ {Head(q)}
    BY <1>1 DEF Range, IsInjective
  <1>4. ASSUME NEW y \in Range(q) \ {Head(q)} PROVE y \in Range(Tail(q))
    <2>1. PICK i \in 1 .. Len(q) : y = q[i]
      BY <1>1, Zenon DEF Range
    <2>2. i # 1 /\ i - 1 \in 1 .. Len(q) - 1
      BY <1>1, <2>1
    <2>3. y = Tail(q)[i - 1]
      BY <1>1, <2>1, <2>2
    <2> QED
      BY <1>1, <2>2, <2>3, Zenon DEF Range
  <1>5. IsInjective(Tail(q))
    BY <1>1 DEF IsInjective
  <1> QED
    BY <1>1, <1>2, <1>3, <1>4, <1>5, Zenon

\* What is in a list is its head or in its tail.
LEMMA HeadOrTail ==
  ASSUME NEW S, NEW q \in Seq(S), q # <<>>
  PROVE  Range(q) = Range(Tail(q)) \cup {Head(q)}
  <1>1. /\ Tail(q) \in Seq(S)
        /\ DOMAIN q = 1 .. Len(q)
        /\ Len(q) \in Nat
        /\ Len(q) >= 1
        /\ Head(q) = q[1]
        /\ DOMAIN Tail(q) = 1 .. Len(q) - 1
        /\ \A i \in 1 .. Len(q) - 1 : Tail(q)[i] = q[i + 1]
    OBVIOUS
  <1>2. ASSUME NEW y \in Range(Tail(q)) \cup {Head(q)} PROVE y \in Range(q)
    BY <1>1 DEF Range
  <1>3. ASSUME NEW y \in Range(q), y # Head(q) PROVE y \in Range(Tail(q))
    <2>1. PICK i \in 1 .. Len(q) : y = q[i]
      BY <1>1, <1>3, Zenon DEF Range
    <2>2. i # 1 /\ i - 1 \in 1 .. Len(q) - 1
      BY <1>1, <1>3, <2>1
    <2>3. y = Tail(q)[i - 1]
      BY <1>1, <2>1, <2>2
    <2> QED
      BY <1>1, <2>2, <2>3, Zenon DEF Range
  <1> QED
    BY <1>2, <1>3, Zenon

\* Prepend adds its element and nothing else (List::Prepend).
LEMMA RangePrepend ==
  ASSUME NEW S, NEW q \in Seq(S), NEW x \in S, IsInjective(q), x \notin Range(q)
  PROVE  /\ <<x>> \o q \in Seq(S)
         /\ Range(<<x>> \o q) = Range(q) \cup {x}
         /\ IsInjective(<<x>> \o q)
  <1> DEFINE p == <<x>> \o q
  <1>1. /\ p \in Seq(S) /\ Len(q) \in Nat
        /\ DOMAIN q = 1 .. Len(q) /\ DOMAIN p = 1 .. Len(q) + 1
        /\ p[1] = x /\ \A i \in 1 .. Len(q) : p[i + 1] = q[i]
    <2>1. <<x>> \in Seq(S) /\ Len(<<x>>) = 1 /\ <<x>>[1] = x
      OBVIOUS
    <2>2. /\ p \in Seq(S) /\ Len(q) \in Nat /\ Len(p) = 1 + Len(q)
          /\ \A i \in 1 .. 1 + Len(q) : p[i] = IF i <= 1 THEN <<x>>[i] ELSE q[i - 1]
      BY <2>1
    <2>3. DOMAIN q = 1 .. Len(q) /\ DOMAIN p = 1 .. Len(p)
      BY <2>2
    <2> HIDE DEF p
    <2> QED
      BY <2>1, <2>2, <2>3
  <1>2. \A i \in DOMAIN p : i = 1 \/ (i - 1 \in DOMAIN q /\ p[i] = q[i - 1])
    BY <1>1
  <1> HIDE DEF p
  <1>3. Range(p) = Range(q) \cup {x}
    <2>1. ASSUME NEW y \in Range(p) PROVE y \in Range(q) \cup {x}
      BY <1>1, <1>2 DEF Range
    <2>2. ASSUME NEW y \in Range(q) PROVE y \in Range(p)
      <3>1. PICK i \in DOMAIN q : y = q[i]
        BY Zenon DEF Range
      <3>2. i + 1 \in DOMAIN p /\ y = p[i + 1]
        BY <1>1, <3>1
      <3> QED
        BY <3>2, Zenon DEF Range
    <2>3. x \in Range(p)
      BY <1>1 DEF Range
    <2> QED
      BY <2>1, <2>2, <2>3, Zenon
  <1>4. IsInjective(p)
    BY <1>1, <1>2 DEF IsInjective, Range
  <1> QED
    BY <1>1, <1>3, <1>4, Zenon DEF p

-----------------------------------------------------------------------------
(***************************************************************************)
(* KernelInv is inductive                                                  *)
(***************************************************************************)

\* The state Scheduler::Run is called in: ready list rl, statuses st and
\* contexts ctx, with the thread to dispatch already off the list.
BeforeSwitch(next, rl, st, ctx) ==
  /\ next \in Threads /\ rl \in Seq(Threads)
  /\ st \in [Threads -> Statuses] /\ ctx \in [Threads -> Contexts]
  /\ IsInjective(rl)
  /\ st[next] = "READY" /\ next \notin Range(rl)
  /\ \A t \in Threads :
       /\ st[t] # "RUNNING"
       /\ t # next => (st[t] = "READY" <=> t \in Range(rl))
       /\ \A s \in Sems : t \in Range(queue[s]) <=> st[t] = "BLOCKED" /\ inP[t] = s
       /\ inP[t] # NULL <=> ctx[t] = "P"
       /\ st[t] = "READY" => ctx[t] \in {"root", "yield", "P"}
       /\ st[t] \in {"FREE", "JUST_CREATED"} => ctx[t] = "none"
  /\ threadToBeDestroyed # NULL =>
       st[threadToBeDestroyed] = "BLOCKED" /\ ctx[threadToBeDestroyed] = "finished"

\* Run re-establishes the invariant, whether the thread it dispatches is new,
\* comes back from Yield or comes back from P, and whether or not it deletes a
\* carcass.
LEMMA RunKeepsInv ==
  ASSUME TypeOK, \A s \in Sems : IsInjective(queue[s]), yieldOnReturn' \in BOOLEAN,
         NEW next, NEW rl, NEW st, NEW ctx,
         BeforeSwitch(next, rl, st, ctx), Run(next, rl, st, ctx)
  PROVE  KernelInv'
  <1> DEFINE corpse == IF ctx[next] = "root" THEN NULL ELSE threadToBeDestroyed
  <1> USE KernelAssumption
  <1>1. /\ currentThread' = next
        /\ readyList' = rl
        /\ status' = [t \in Threads |-> IF t = corpse THEN "FREE"
                                        ELSE IF t = next THEN "RUNNING" ELSE st[t]]
        /\ context' = [t \in Threads |->
                         IF t = corpse THEN "none"
                         ELSE IF t = next /\ ctx[t] \in {"root", "yield"} THEN "code"
                         ELSE ctx[t]]
        /\ threadToBeDestroyed' = IF corpse = NULL THEN threadToBeDestroyed ELSE NULL
        /\ cpu' = IF ctx[next] \in {"root", "yield"} THEN "tick" ELSE "resume"
        /\ inP' = inP /\ value' = value /\ queue' = queue /\ pending' = pending
    BY Zenon DEF Run, semVars
  <1>2. corpse # next /\ (corpse # NULL => corpse \in Threads /\ st[corpse] = "BLOCKED"
                                            /\ ctx[corpse] = "finished")
    BY DEF BeforeSwitch, TypeOK
  <1> HIDE DEF corpse
  <1>3. TypeOK'
    BY <1>1, <1>2, Zenon DEF TypeOK, BeforeSwitch, Statuses, Contexts, CpuStates
  <1>4. ~Asleep'
    BY <1>1, Zenon DEF Asleep
  <1>5. OnePlace'
    BY <1>1, <1>2, <1>4 DEF OnePlace, BeforeSwitch
  <1>6. CarcassIsDead'
    BY <1>1, <1>2, <1>4 DEF CarcassIsDead, BeforeSwitch, TypeOK
  <1>7. ContextOK'
    BY <1>1, <1>2 DEF ContextOK, BeforeSwitch
  <1> QED
    BY <1>3, <1>5, <1>6, <1>7, Zenon DEF KernelInv

\* Yield calls Run with itself at the end of the ready list.
LEMMA YieldCallsRun ==
  ASSUME KernelInv, cpu \in {"thread", "tick"}, readyList # <<>>
  PROVE  BeforeSwitch(Head(readyList), Append(Tail(readyList), currentThread),
                      [status EXCEPT ![currentThread] = "READY"],
                      [context EXCEPT ![currentThread] = "yield"])
  <1> USE KernelAssumption
  <1> DEFINE next == Head(readyList)
             rl == Append(Tail(readyList), currentThread)
  <1>1. /\ next \in Threads /\ next \in Range(readyList)
        /\ Tail(readyList) \in Seq(Threads)
        /\ Range(Tail(readyList)) = Range(readyList) \ {next}
        /\ IsInjective(Tail(readyList))
    BY RangeTail, Zenon DEF KernelInv, TypeOK, OnePlace
  <1>2. /\ currentThread \in Threads /\ status[currentThread] = "RUNNING"
        /\ currentThread \notin Range(readyList)
    BY Zenon DEF KernelInv, TypeOK, OnePlace, Asleep
  <1>3. /\ rl \in Seq(Threads)
        /\ Range(rl) = Range(Tail(readyList)) \cup {currentThread}
        /\ IsInjective(rl)
    BY <1>1, <1>2, RangeAppend, InjectiveAppend, Zenon
  <1> HIDE DEF next, rl
  <1>4. BeforeSwitch(next, rl, [status EXCEPT ![currentThread] = "READY"],
                               [context EXCEPT ![currentThread] = "yield"])
    BY <1>1, <1>2, <1>3 DEF BeforeSwitch, KernelInv, TypeOK, OnePlace,
       CarcassIsDead, ContextOK, Asleep, Statuses, Contexts
  <1> QED
    BY <1>4, Zenon DEF next, rl

\* Sleep calls Run with the current thread already blocked.
LEMMA SleepCallsRun ==
  ASSUME KernelInv, SleepDispatch
  PROVE  BeforeSwitch(Head(readyList), Tail(readyList), status, context)
  <1>1. /\ Head(readyList) \in Threads /\ Head(readyList) \in Range(readyList)
        /\ Tail(readyList) \in Seq(Threads)
        /\ Range(Tail(readyList)) = Range(readyList) \ {Head(readyList)}
        /\ IsInjective(Tail(readyList))
    BY RangeTail, Zenon DEF KernelInv, TypeOK, OnePlace, SleepDispatch
  <1> QED
    BY <1>1, KernelAssumption, Zenon DEF BeforeSwitch, KernelInv, TypeOK, OnePlace,
       CarcassIsDead, ContextOK, Asleep, SleepDispatch

\* Thread::Yield, called by the thread or by OneTick.
LEMMA YieldKeepsInv ==
  ASSUME KernelInv, cpu \in {"thread", "tick"}, YieldBody, yieldOnReturn' \in BOOLEAN
  PROVE  KernelInv'
  <1>1. CASE readyList = <<>>
    BY <1>1 DEF YieldBody, KernelInv, TypeOK, OnePlace, CarcassIsDead, ContextOK,
                Asleep, CpuStates, threadVars, semVars, Run
  <1>2. CASE readyList # <<>>
    BY <1>2, YieldCallsRun, RunKeepsInv, Zenon DEF YieldBody, Enqueued, KernelInv, OnePlace
  <1> QED
    BY <1>1, <1>2, Zenon

\* The end of Thread::Sleep.
LEMMA DispatchKeepsInv ==
  ASSUME KernelInv, SleepDispatch
  PROVE  KernelInv'
  BY SleepCallsRun, RunKeepsInv, Zenon DEF KernelInv, OnePlace, SleepDispatch, TypeOK

\* new Thread and Thread::Fork.
LEMMA CreationKeepsInv ==
  ASSUME KernelInv, NEW u \in Threads, NewThread(u) \/ Fork(u)
  PROVE  KernelInv'
  <1> USE KernelAssumption
  <1>1. CASE NewThread(u)
    BY <1>1 DEF NewThread, KernelInv, TypeOK, OnePlace, CarcassIsDead, ContextOK,
                Asleep, Statuses, semVars
  <1>2. CASE Fork(u)
    <2>1. u \notin Range(readyList)
      BY <1>2, Zenon DEF Fork, KernelInv, OnePlace
    <2>2. /\ readyList' \in Seq(Threads)
          /\ Range(readyList') = Range(readyList) \cup {u}
          /\ IsInjective(readyList')
      BY <1>2, <2>1, RangeAppend, InjectiveAppend
         DEF Fork, Enqueued, KernelInv, TypeOK, OnePlace
    <2> QED
      BY <1>2, <2>2 DEF Fork, KernelInv, TypeOK, OnePlace, CarcassIsDead, ContextOK,
                        Asleep, Statuses, Contexts, CpuStates, semVars
  <1> QED
    BY <1>1, <1>2, Zenon

\* Thread::Finish up to its Sleep.
LEMMA FinishKeepsInv ==
  ASSUME KernelInv, Finish
  PROVE  KernelInv'
  BY KernelAssumption
     DEF Finish, KernelInv, TypeOK, OnePlace, CarcassIsDead, ContextOK,
         Asleep, Statuses, Contexts, CpuStates, semVars

\* One pass of the loop of Semaphore::P.
LEMMA PKeepsInv ==
  ASSUME KernelInv, NEW s \in Sems, PSleep(s) \/ PDone(s)
  PROVE  KernelInv'
  <1> USE KernelAssumption
  <1>1. CASE PSleep(s)
    <2>1. currentThread \in Threads /\ status[currentThread] = "RUNNING"
      BY <1>1, Zenon DEF PSleep, AtP, KernelInv, TypeOK, OnePlace, Asleep
    <2>2. \A r \in Sems : currentThread \notin Range(queue[r])
      BY <2>1, Zenon DEF KernelInv, OnePlace
    <2>3. /\ Append(queue[s], currentThread) \in Seq(Threads)
          /\ Range(Append(queue[s], currentThread)) = Range(queue[s]) \cup {currentThread}
          /\ IsInjective(Append(queue[s], currentThread))
      <3>1. queue[s] \in Seq(Threads) /\ IsInjective(queue[s])
        BY Zenon DEF KernelInv, TypeOK, OnePlace
      <3> QED
        BY <2>1, <2>2, <3>1, RangeAppend, InjectiveAppend
    <2>4. /\ queue' \in [Sems -> Seq(Threads)]
          /\ \A r \in Sems :
               /\ IsInjective(queue'[r])
               /\ Range(queue'[r]) = IF r = s THEN Range(queue[s]) \cup {currentThread}
                                              ELSE Range(queue[r])
      BY <1>1, <2>3, Zenon DEF PSleep, KernelInv, TypeOK, OnePlace
    <2> QED
      BY <1>1, <2>1, <2>4 DEF PSleep, AtP, KernelInv, TypeOK, OnePlace, CarcassIsDead,
                         ContextOK, Asleep, Statuses, Contexts, CpuStates
  <1>2. CASE PDone(s)
    BY <1>2 DEF PDone, AtP, KernelInv, TypeOK, OnePlace, CarcassIsDead, ContextOK,
                Asleep, Contexts, CpuStates
  <1> QED
    BY <1>1, <1>2, Zenon

\* The critical section of Semaphore::V, called by a thread or by a handler.
LEMMA PostKeepsInv ==
  ASSUME KernelInv, NEW s \in Sems, Post(s),
         cpu' \in CpuStates, yieldOnReturn' \in BOOLEAN, pending' \subseteq Devices,
         Asleep' <=> Asleep,
         cpu' \in {"thread", "tick"} => cpu \in {"thread", "tick"},
         cpu' = "resume" => cpu = "resume"
  PROVE  KernelInv'
  <1> USE KernelAssumption
  <1>1. CASE queue[s] = <<>>
    BY <1>1 DEF Post, KernelInv, TypeOK, OnePlace, CarcassIsDead, ContextOK
  <1>2. CASE queue[s] # <<>>
    <2> DEFINE h == Head(queue[s])
    <2>1. /\ h \in Threads /\ h \in Range(queue[s])
          /\ Tail(queue[s]) \in Seq(Threads)
          /\ Range(Tail(queue[s])) = Range(queue[s]) \ {h}
          /\ IsInjective(Tail(queue[s]))
      BY <1>2, RangeTail, Zenon DEF KernelInv, TypeOK, OnePlace
    <2>2. /\ queue' = [queue EXCEPT ![s] = Tail(queue[s])]
          /\ readyList' = Append(readyList, h)
          /\ status' = [status EXCEPT ![h] = "READY"]
          /\ value' = [value EXCEPT ![s] = value[s] + 1]
          /\ UNCHANGED <<currentThread, context, inP, threadToBeDestroyed>>
      BY <1>2, Zenon DEF Post, Enqueued
    <2> HIDE DEF h
    <2>3. status[h] = "BLOCKED" /\ inP[h] = s /\ context[h] = "P"
      BY <2>1 DEF KernelInv, OnePlace, ContextOK
    <2>4. h \notin Range(readyList)
      BY <2>1, <2>3, Zenon DEF KernelInv, OnePlace
    <2>5. /\ readyList' \in Seq(Threads)
          /\ Range(readyList') = Range(readyList) \cup {h}
          /\ IsInjective(readyList')
      BY <2>1, <2>2, <2>4, RangeAppend, InjectiveAppend DEF KernelInv, TypeOK, OnePlace
    <2>6. /\ queue' \in [Sems -> Seq(Threads)]
          /\ \A r \in Sems :
               /\ IsInjective(queue'[r])
               /\ Range(queue'[r]) = IF r = s THEN Range(queue[s]) \ {h}
                                              ELSE Range(queue[r])
      <3>1. queue \in [Sems -> Seq(Threads)] /\ \A r \in Sems : IsInjective(queue[r])
        BY Zenon DEF KernelInv, TypeOK, OnePlace
      <3>2. queue' \in [Sems -> Seq(Threads)]
        BY <2>1, <2>2, <3>1, Zenon
      <3>3. queue'[s] = Tail(queue[s]) /\ \A r \in Sems \ {s} : queue'[r] = queue[r]
        BY <2>2, <3>1, Zenon
      <3> QED
        BY <2>1, <3>1, <3>2, <3>3, Zenon
    <2>7. TypeOK'
      BY <2>1, <2>2, <2>5, <2>6 DEF KernelInv, TypeOK, Statuses
    <2>8. OnePlace'
      BY <2>1, <2>2, <2>3, <2>5, <2>6 DEF KernelInv, TypeOK, OnePlace
    <2>9. CarcassIsDead'
      BY <2>1, <2>2, <2>3, <2>5 DEF KernelInv, TypeOK, OnePlace, CarcassIsDead
    <2>10. ContextOK'
      BY <2>1, <2>2, <2>3, Zenon DEF KernelInv, TypeOK, ContextOK
    <2> QED
      BY <2>7, <2>8, <2>9, <2>10, Zenon DEF KernelInv
  <1> QED
    BY <1>1, <1>2, Zenon

\* Semaphore::V, the interrupts, and what OneTick and Idle do after them.
LEMMA InterruptKeepsInv ==
  ASSUME KernelInv,
         \/ \E s \in Sems : V(s)
         \/ \E d \in Devices : DeviceRequest(d) \/ DeviceInterrupt(d)
         \/ TimerInterrupt \/ IdleReturns \/ Halt
  PROVE  KernelInv'
  <1> USE KernelAssumption
  <1>1. ASSUME NEW s \in Sems, V(s) PROVE KernelInv'
    <2>1. /\ cpu = "thread" /\ cpu' = "tick" /\ Post(s)
          /\ yieldOnReturn' = yieldOnReturn /\ pending' = pending
      BY <1>1, Zenon DEF V
    <2> QED
      BY <2>1, PostKeepsInv, Zenon DEF CpuStates, Asleep, KernelInv, TypeOK
  <1>2. ASSUME NEW d \in Devices, DeviceRequest(d) PROVE KernelInv'
    BY <1>2, Zenon DEF DeviceRequest, KernelInv, TypeOK, OnePlace, CarcassIsDead, ContextOK,
                Asleep, threadVars, semVars
  <1>3. ASSUME NEW d \in Devices, DeviceInterrupt(d) PROVE KernelInv'
    <2>1. /\ DeviceSem[d] \in Sems /\ Post(DeviceSem[d])
          /\ cpu \in {"tick", "idle", "sleep"}
          /\ cpu' = IF cpu = "sleep" THEN "idle" ELSE cpu
          /\ yieldOnReturn' = yieldOnReturn /\ pending' = pending \ {d}
      BY <1>3, Zenon DEF DeviceInterrupt, CanFire, IdleFires
    <2> QED
      BY <2>1, PostKeepsInv, Zenon DEF CpuStates, Asleep, KernelInv, TypeOK
  <1>4. CASE TimerInterrupt
    BY <1>4, Zenon DEF TimerInterrupt, CanFire, IdleFires, KernelInv, TypeOK, OnePlace,
                CarcassIsDead, ContextOK, Asleep, CpuStates, threadVars, semVars
  <1>5. CASE IdleReturns
    BY <1>5, Zenon DEF IdleReturns, KernelInv, TypeOK, OnePlace,
                CarcassIsDead, ContextOK, Asleep, CpuStates, threadVars, semVars
  <1>6. CASE Halt
    BY <1>6, Zenon DEF Halt, KernelInv, TypeOK, OnePlace,
                CarcassIsDead, ContextOK, Asleep, CpuStates, threadVars, semVars
  <1> QED
    BY <1>1, <1>2, <1>3, <1>4, <1>5, <1>6, Zenon

\* The end of OneTick.
LEMMA TickKeepsInv ==
  ASSUME KernelInv, TickReturns
  PROVE  KernelInv'
  <1>1. CASE ~yieldOnReturn
    <2>1. /\ cpu = "tick" /\ cpu' = "thread" /\ yieldOnReturn' = FALSE
          /\ UNCHANGED <<currentThread, threadVars, readyList, semVars,
                         threadToBeDestroyed, pending>>
      BY <1>1, Zenon DEF TickReturns
    <2> QED
      BY <2>1, Zenon DEF KernelInv, TypeOK, OnePlace, CarcassIsDead, ContextOK,
                  Asleep, CpuStates, threadVars, semVars
  <1>2. CASE yieldOnReturn
    BY <1>2, YieldKeepsInv, Zenon DEF TickReturns
  <1> QED
    BY <1>1, <1>2, Zenon

\* Initialize establishes the bookkeeping invariant.
LEMMA InitInv == Init => KernelInv
  <1> SUFFICES ASSUME Init PROVE KernelInv
    BY Zenon
  <1>1. Range(<<>>) = {} /\ IsInjective(<<>>) /\ <<>> \in Seq(Threads)
    BY DEF Range, IsInjective
  <1> QED
    BY <1>1, KernelAssumption, Zenon
       DEF Init, KernelInv, TypeOK, OnePlace, CarcassIsDead, ContextOK,
           Asleep, Statuses, Contexts, CpuStates

\* KernelInv is inductive: every operation and every handler keeps it.
LEMMA NextKeepsInv ==
  ASSUME KernelInv, [Next]_vars
  PROVE  KernelInv'
  <1>1. CASE \E t \in Threads : NewThread(t) \/ Fork(t)
    BY <1>1, CreationKeepsInv, Zenon
  <1>2. CASE Yield
    BY <1>2, YieldKeepsInv, Zenon DEF Yield, KernelInv, TypeOK
  <1>3. CASE Finish
    BY <1>3, FinishKeepsInv, Zenon
  <1>4. CASE \E s \in Sems : PSleep(s) \/ PDone(s)
    BY <1>4, PKeepsInv
  <1>5. CASE \/ \E s \in Sems : V(s)
             \/ \E d \in Devices : DeviceRequest(d) \/ DeviceInterrupt(d)
             \/ TimerInterrupt \/ IdleReturns \/ Halt
    BY <1>5, InterruptKeepsInv, Zenon
  <1>6. CASE SleepDispatch
    BY <1>6, DispatchKeepsInv
  <1>7. CASE TickReturns
    BY <1>7, TickKeepsInv
  <1>8. CASE UNCHANGED vars
    BY <1>8 DEF vars, threadVars, semVars, KernelInv, TypeOK, OnePlace,
                CarcassIsDead, ContextOK, Asleep
  <1> QED
    BY <1>1, <1>2, <1>3, <1>4, <1>5, <1>6, <1>7, <1>8, Zenon DEF Next, Halted

\* The bookkeeping of Thread, Scheduler, Semaphore and Interrupt is consistent
\* in every reachable state, for any number of threads, semaphores and devices.
THEOREM Bookkeeping == Spec => []KernelInv
  <1>1. Init => KernelInv
    BY InitInv, Zenon
  <1>2. KernelInv /\ [Next]_vars => KernelInv'
    BY NextKeepsInv, Zenon
  <1> QED
    BY <1>1, <1>2, PTL DEF Spec

\* Every variable keeps its type.
THEOREM TypeCorrect == Spec => []TypeOK
  <1>1. KernelInv => TypeOK
    BY Zenon DEF KernelInv
  <1> QED
    BY <1>1, Bookkeeping, PTL

\* A thread is in one place: running, on readyList once or on one semaphore
\* queue once, as its status says.
THEOREM ThreadInOnePlace == Spec => []OnePlace
  <1>1. KernelInv => OnePlace
    BY Zenon DEF KernelInv
  <1> QED
    BY <1>1, Bookkeeping, PTL

\* The carcass Run deletes is a finished thread that does not have the processor
\* and that nobody will dispatch: the ASSERT in ~Thread cannot fail.
THEOREM DeletesOnlyTheDead == Spec => []CarcassIsDead
  <1>1. KernelInv => CarcassIsDead
    BY Zenon DEF KernelInv
  <1> QED
    BY <1>1, Bookkeeping, PTL

-----------------------------------------------------------------------------
(***************************************************************************)
(* No wakeup is lost                                                       *)
(***************************************************************************)

\* The threads woken on a semaphore can be counted.
LEMMA WokenFinite ==
  ASSUME NEW s \in Sems
  PROVE  IsFiniteSet(Woken(s)) /\ Cardinality(Woken(s)) \in Nat
  <1>1. Woken(s) \in SUBSET Threads
    BY DEF Woken
  <1> QED
    BY <1>1, KernelAssumption, FS_Subset, FS_CardinalityType

\* A step that neither touches the semaphores nor blocks or wakes a thread that
\* is inside P cannot lose a wakeup.
LEMMA OutsideP ==
  ASSUME NoLostWakeup, UNCHANGED <<value, queue, inP>>,
         \A t \in Threads :
           inP[t] # NULL => (status'[t] = "BLOCKED" <=> status[t] = "BLOCKED")
  PROVE  NoLostWakeup'
  <1>1. ASSUME NEW s \in Sems PROVE Woken(s)' = Woken(s)
    BY KernelAssumption DEF Woken
  <1> QED
    BY <1>1 DEF NoLostWakeup

\* Run deletes a carcass, which is outside P, and dispatches a ready thread.
LEMMA RunOutsideP ==
  ASSUME NoLostWakeup, NEW next, NEW rl, NEW st, NEW ctx,
         BeforeSwitch(next, rl, st, ctx), Run(next, rl, st, ctx),
         \A t \in Threads :
           inP[t] # NULL => (st[t] = "BLOCKED" <=> status[t] = "BLOCKED")
  PROVE  NoLostWakeup'
  <1>1. ASSUME NEW t \in Threads, inP[t] # NULL
        PROVE  status'[t] = "BLOCKED" <=> status[t] = "BLOCKED"
    <2>1. t = threadToBeDestroyed => ctx[t] = "finished"
      BY KernelAssumption DEF BeforeSwitch
    <2>2. ctx[t] = "P"
      BY <1>1 DEF BeforeSwitch
    <2> QED
      BY <1>1, <2>1, <2>2, KernelAssumption DEF Run, BeforeSwitch
  <1>2. UNCHANGED <<value, queue, inP>>
    BY DEF Run, semVars
  <1> QED
    BY <1>1, <1>2, OutsideP

\* Yield moves threads between running and ready only.
LEMMA YieldOutsideP ==
  ASSUME KernelInv, NoLostWakeup, cpu \in {"thread", "tick"}, YieldBody
  PROVE  NoLostWakeup'
  <1>1. CASE readyList = <<>>
    BY <1>1, OutsideP DEF YieldBody, threadVars, semVars
  <1>2. CASE readyList # <<>>
    <2>1. status[currentThread] = "RUNNING" /\ status \in [Threads -> Statuses]
      BY DEF KernelInv, TypeOK, OnePlace, Asleep
    <2>2. Run(Head(readyList), Append(Tail(readyList), currentThread),
              [status EXCEPT ![currentThread] = "READY"],
              [context EXCEPT ![currentThread] = "yield"])
      BY <1>2 DEF YieldBody, Enqueued
    <2>3. \A t \in Threads :
            inP[t] # NULL => ([status EXCEPT ![currentThread] = "READY"][t] = "BLOCKED"
                                <=> status[t] = "BLOCKED")
      BY <2>1
    <2>4. BeforeSwitch(Head(readyList), Append(Tail(readyList), currentThread),
                       [status EXCEPT ![currentThread] = "READY"],
                       [context EXCEPT ![currentThread] = "yield"])
      BY <1>2, YieldCallsRun
    <2> QED
      BY <2>2, <2>3, <2>4, RunOutsideP, Zenon
  <1> QED
    BY <1>1, <1>2

\* A thread that goes to sleep in P finds the value zero, and one that gets
\* through takes its unit and is no longer woken.
LEMMA PLosesNoWakeup ==
  ASSUME KernelInv, NoLostWakeup, NEW s \in Sems, PSleep(s) \/ PDone(s)
  PROVE  NoLostWakeup'
  <1> USE KernelAssumption
  <1>1. /\ currentThread \in Threads /\ status[currentThread] = "RUNNING"
        /\ inP[currentThread] \in {s, NULL}
    BY Zenon DEF PSleep, PDone, AtP, KernelInv, TypeOK, OnePlace, ContextOK, Asleep
  <1>2. ASSUME NEW r \in Sems, r # s
        PROVE  Woken(r)' = Woken(r) /\ queue'[r] = queue[r] /\ value'[r] = value[r]
    BY <1>1, <1>2 DEF PSleep, PDone, Woken, KernelInv, TypeOK
  <1>3. CASE PSleep(s)
    <2>1. value'[s] = 0
      BY <1>3 DEF PSleep
    <2>2. IsFiniteSet(Woken(s)') /\ Cardinality(Woken(s)') \in Nat
      <3>1. Woken(s)' \in SUBSET Threads
        BY DEF Woken
      <3> QED
        BY <3>1, FS_Subset, FS_CardinalityType
    <2> QED
      BY <1>2, <2>1, <2>2 DEF NoLostWakeup
  <1>4. CASE PDone(s)
    <2>1. /\ value'[s] = value[s] - 1 /\ queue'[s] = queue[s]
          /\ value[s] \in Nat
      BY <1>4 DEF PDone, KernelInv, TypeOK
    <2>2. Woken(s)' = Woken(s) \ {currentThread}
      BY <1>1, <1>4 DEF PDone, Woken, KernelInv, TypeOK
    <2>3. Cardinality(Woken(s)') >= Cardinality(Woken(s)) - 1
      <3>1. IsFiniteSet(Woken(s)) /\ Cardinality(Woken(s)) \in Nat
        BY WokenFinite
      <3>2. Cardinality(Woken(s) \ {currentThread})
              = IF currentThread \in Woken(s) THEN Cardinality(Woken(s)) - 1
                                              ELSE Cardinality(Woken(s))
        BY <3>1, FS_RemoveElement, Zenon
      <3> QED
        BY <2>2, <3>1, <3>2
    <2>4. /\ Cardinality(Woken(s)) \in Nat
          /\ queue[s] # <<>> => value[s] <= Cardinality(Woken(s))
      BY WokenFinite DEF NoLostWakeup
    <2>5. Cardinality(Woken(s)') \in Nat
      BY <2>2, WokenFinite, FS_RemoveElement, FS_CardinalityType
    <2>6. queue'[s] # <<>> => value'[s] <= Cardinality(Woken(s)')
      BY <2>1, <2>3, <2>4, <2>5
    <2> QED
      BY <1>2, <2>6 DEF NoLostWakeup
  <1> QED
    BY <1>3, <1>4

\* V raises the value by one and, if there is a waiter, the number of woken
\* threads by one.
LEMMA PostLosesNoWakeup ==
  ASSUME KernelInv, NoLostWakeup, NEW s \in Sems, Post(s)
  PROVE  NoLostWakeup'
  <1> USE KernelAssumption
  <1>1. CASE queue[s] = <<>>
    <2>1. \A r \in Sems : Woken(r)' = Woken(r) /\ queue'[r] = queue[r]
      BY <1>1 DEF Post, Woken
    <2>2. \A r \in Sems : r # s => value'[r] = value[r]
      BY <1>1 DEF Post, KernelInv, TypeOK
    <2> QED
      BY <1>1, <2>1, <2>2 DEF NoLostWakeup
  <1>2. CASE queue[s] # <<>>
    <2> DEFINE h == Head(queue[s])
    <2>1. h \in Threads /\ h \in Range(queue[s])
      BY <1>2, RangeTail DEF KernelInv, TypeOK, OnePlace
    <2>2. /\ queue' = [queue EXCEPT ![s] = Tail(queue[s])]
          /\ status' = [status EXCEPT ![h] = "READY"]
          /\ value' = [value EXCEPT ![s] = value[s] + 1]
          /\ inP' = inP
      BY <1>2 DEF Post
    <2> HIDE DEF h
    <2>3. status[h] = "BLOCKED" /\ inP[h] = s
      BY <2>1 DEF KernelInv, OnePlace
    <2>4. ASSUME NEW r \in Sems, r # s
          PROVE  Woken(r)' = Woken(r) /\ queue'[r] = queue[r] /\ value'[r] = value[r]
      BY <2>2, <2>3, <2>4 DEF Woken, KernelInv, TypeOK
    <2>5. Woken(s)' = Woken(s) \cup {h} /\ h \notin Woken(s)
      BY <2>1, <2>2, <2>3 DEF Woken, KernelInv, TypeOK
    <2>6. /\ Cardinality(Woken(s)') = Cardinality(Woken(s)) + 1
          /\ Cardinality(Woken(s)) \in Nat
      BY <2>5, WokenFinite, FS_AddElement, Zenon
    <2>7. /\ value'[s] = value[s] + 1 /\ value[s] \in Nat
          /\ value[s] <= Cardinality(Woken(s))
      BY <1>2, <2>2 DEF NoLostWakeup, KernelInv, TypeOK
    <2>8. value'[s] <= Cardinality(Woken(s)')
      BY <2>6, <2>7
    <2> QED
      BY <2>4, <2>8 DEF NoLostWakeup
  <1> QED
    BY <1>1, <1>2

\* No operation loses a wakeup, given the bookkeeping.
LEMMA NextLosesNoWakeup ==
  ASSUME KernelInv, NoLostWakeup, [Next]_vars
  PROVE  NoLostWakeup'
  <1> USE KernelAssumption
  <1>1. CASE \E t \in Threads : NewThread(t) \/ Fork(t)
    BY <1>1, OutsideP DEF NewThread, Fork, semVars, KernelInv, TypeOK
  <1>2. CASE Yield
    BY <1>2, YieldOutsideP DEF Yield
  <1>3. CASE Finish
    <2>1. inP[currentThread] = NULL
      BY <1>3 DEF Finish, KernelInv, TypeOK, ContextOK
    <2> QED
      BY <1>3, <2>1, OutsideP DEF Finish, semVars, KernelInv, TypeOK
  <1>4. CASE \E s \in Sems : PSleep(s) \/ PDone(s)
    BY <1>4, PLosesNoWakeup
  <1>5. CASE \E s \in Sems : V(s)
    BY <1>5, PostLosesNoWakeup DEF V
  <1>6. CASE \E d \in Devices : DeviceInterrupt(d)
    BY <1>6, PostLosesNoWakeup DEF DeviceInterrupt
  <1>7. CASE \/ \E d \in Devices : DeviceRequest(d)
             \/ TimerInterrupt \/ IdleReturns \/ Halt \/ UNCHANGED vars
    BY <1>7, OutsideP DEF DeviceRequest, TimerInterrupt, IdleReturns, Halt, vars,
                          threadVars, semVars
  <1>8. CASE SleepDispatch
    BY <1>8, SleepCallsRun, RunOutsideP DEF SleepDispatch
  <1>9. CASE TickReturns
    <2>1. CASE ~yieldOnReturn
      BY <1>9, <2>1, OutsideP DEF TickReturns, threadVars, semVars
    <2>2. CASE yieldOnReturn
      BY <1>9, <2>2, YieldOutsideP DEF TickReturns
    <2> QED
      BY <2>1, <2>2
  <1> QED
    BY <1>1, <1>2, <1>3, <1>4, <1>5, <1>6, <1>7, <1>8, <1>9 DEF Next, Halted

\* Semaphores lose no wakeup, for any number of threads, semaphores and devices
\* and under any preemption: while a thread waits, a woken thread is on its way
\* for every unit of the value.
THEOREM WakeupsAreNotLost == Spec => []NoLostWakeup
  <1>1. Init => NoLostWakeup
    BY DEF Init, NoLostWakeup
  <1>2. KernelInv /\ NoLostWakeup /\ [Next]_vars => NoLostWakeup'
    BY NextLosesNoWakeup
  <1> QED
    BY <1>1, <1>2, Bookkeeping, PTL DEF Spec
=============================================================================
