-------------------------- MODULE LinkedListProofs ---------------------------
(***************************************************************************)
(* Proofs about List (threads/list.cc), for lists of any length: what      *)
(* SortedInsert and SortedRemove do to the cells keeps the list one chain  *)
(* from first to last, and sorted.                                         *)
(***************************************************************************)
EXTENDS LinkedList, FiniteSetTheorems, NaturalsInduction, TLAPS

-----------------------------------------------------------------------------
(***************************************************************************)
(* The linked list                                                         *)
(***************************************************************************)

\* The lists with room for n cells and items from X.
Lists(n, X) ==
  [first : (1..n) \cup {NIL}, last : (1..n) \cup {NIL}, size : Int,
   next : [1..n -> (1..n) \cup {NIL}], key : [1..n -> Int], item : [1..n -> X \cup {NIL}]]

\* cs visits the n allocated cells once each, from first to last.
Chain(l, cs, n) ==
  /\ n \in Nat /\ cs \in [1..n -> Allocated(l)]
  /\ \A i, j \in 1..n : cs[i] = cs[j] => i = j
  /\ \A c \in Allocated(l) : \E i \in 1..n : cs[i] = c
  /\ Mapcar(l, cs, n)
  /\ l.last = IF n = 0 THEN NIL ELSE cs[n]

LEMMA ChainIsWellLinked ==
  ASSUME NEW l, NEW cs, NEW n, Chain(l, cs, n)
  PROVE  WellLinked(l)
  <1>1. cs \in Bijection(1..n, Allocated(l)) /\ n \in Nat
    BY Zenon DEF Chain, Bijection, Injection, Surjection, IsInjective
  <1>2. Cardinality(Allocated(l)) = n
    BY <1>1, FS_CountingElements, Zenon DEF ExistsBijection
  <1> QED
    BY <1>1, <1>2, Zenon DEF Chain, WellLinked

LEMMA WellLinkedHasChain ==
  ASSUME NEW n \in Nat, NEW X, NEW l \in Lists(n, X), WellLinked(l)
  PROVE  \E cs : Chain(l, cs, Cardinality(Allocated(l)))
  <1>1. Allocated(l) \subseteq 1..n
    BY DEF Allocated, Lists
  <1>2. Cardinality(Allocated(l)) \in Nat
    <2>1. IsFiniteSet(1..n)
      BY FS_Interval
    <2> QED
      BY <1>1, <2>1, FS_Subset, FS_CardinalityType, Zenon
  <1>3. PICK cs \in Bijection(1..Cardinality(Allocated(l)), Allocated(l)) :
          /\ Mapcar(l, cs, Cardinality(Allocated(l)))
          /\ l.last = IF Cardinality(Allocated(l)) = 0 THEN NIL ELSE cs[Cardinality(Allocated(l))]
    BY Zenon DEF WellLinked
  <1>4. Chain(l, cs, Cardinality(Allocated(l)))
    BY <1>2, <1>3, Zenon DEF Chain, Bijection, Injection, Surjection, IsInjective
  <1> QED
    BY <1>4, Zenon

\* A list is empty when it has no cell, and otherwise starts with one of its cells.
LEMMA FirstCell ==
  ASSUME NEW n \in Nat, NEW X, NEW l \in Lists(n, X), NEW cs, NEW k, Chain(l, cs, k)
  PROVE  /\ IsEmpty(l) => k = 0 /\ Allocated(l) = {}
         /\ ~IsEmpty(l) => k # 0 /\ l.first = cs[1] /\ l.first \in Allocated(l)
         /\ k # 0 => l.last = cs[k] /\ l.last \in Allocated(l)
  <1>1. NIL \notin Allocated(l)
    BY ListAssumption DEF Allocated, Lists
  <1>2. CASE k = 0
    BY <1>2 DEF Chain, Mapcar, IsEmpty
  <1>3. CASE k # 0
    <2>1. 1 \in 1..k /\ k \in 1..k
      BY <1>3 DEF Chain
    <2>2. l.first = cs[1] /\ cs[1] \in Allocated(l) /\ l.last = cs[k] /\ cs[k] \in Allocated(l)
      BY <1>3, <2>1, Zenon DEF Chain, Mapcar
    <2> QED
      BY <1>1, <1>3, <2>2, Zenon DEF IsEmpty
  <1> QED
    BY <1>2, <1>3, Zenon

-----------------------------------------------------------------------------

\* Cell c of l becomes one of r, with item x.
Fills(l, r, c, x) ==
  c \in DOMAIN l.item \ Allocated(l) /\ x # NIL /\ r.item = [l.item EXCEPT ![c] = x]

\* r is l with the cell c of item x and key k linked in as number j + 1.
Linked(l, r, cs, n, j, c, x, k) ==
  /\ Fills(l, r, c, x) /\ r.key = [l.key EXCEPT ![c] = k]
  /\ DOMAIN r.next = DOMAIN l.next
  /\ r.first = IF j = 0 THEN c ELSE l.first
  /\ r.last = IF j = n THEN c ELSE l.last
  /\ r.next[c] = IF j = n THEN NIL ELSE cs[j + 1]
  /\ \A d \in Allocated(l) : r.next[d] = IF j # 0 /\ d = cs[j] THEN c ELSE l.next[d]

LEMMA LinkedAllocated ==
  ASSUME NEW l, NEW r, NEW c, NEW x, Fills(l, r, c, x)
  PROVE  Allocated(r) = Allocated(l) \cup {c} /\ c \notin Allocated(l)
  <1> USE DEF Fills
  <1>1. DOMAIN r.item = DOMAIN l.item /\ r.item[c] = x
    BY Zenon
  <1>2. \A d \in DOMAIN l.item : d # c => r.item[d] = l.item[d]
    BY Zenon
  <1>4. \A d : d \in Allocated(r) <=> d \in DOMAIN l.item /\ r.item[d] # NIL
    BY <1>1, Zenon DEF Allocated
  <1>5. \A d : d \in Allocated(l) <=> d \in DOMAIN l.item /\ l.item[d] # NIL
    BY Zenon DEF Allocated
  <1>6. \A d : d \in Allocated(r) <=> d \in Allocated(l) \/ d = c
    BY <1>1, <1>2, <1>4, <1>5, Zenon
  <1> QED
    BY <1>6, Zenon

\* Linking a cell in extends the chain.
LEMMA LinkedChain ==
  ASSUME NEW N \in Nat, NEW X, NEW l \in Lists(N, X), NEW r, NEW cs, NEW n, Chain(l, cs, n),
         NEW j \in 0..n, NEW c, NEW x, NEW k, Linked(l, r, cs, n, j, c, x, k)
  PROVE  WellLinked(r)
  <1> DEFINE ds == [i \in 1..(n + 1) |-> IF i <= j THEN cs[i] ELSE IF i = j + 1 THEN c ELSE cs[i - 1]]
  <1>1. Allocated(r) = Allocated(l) \cup {c} /\ c \notin Allocated(l)
    <2>1. Fills(l, r, c, x)
      BY Zenon DEF Linked
    <2> QED
      BY <2>1, LinkedAllocated, Zenon
  <1>2. n \in Nat /\ cs \in [1..n -> Allocated(l)]
    BY Zenon DEF Chain
  <1>3. ds \in [1..(n + 1) -> Allocated(r)]
    BY <1>1, <1>2
  <1>4. \A a, b \in 1..(n + 1) : ds[a] = ds[b] => a = b
    <2>1. \A a, b \in 1..n : cs[a] = cs[b] => a = b
      BY Zenon DEF Chain
    <2>2. \A a \in 1..n : cs[a] # c
      BY <1>1, <1>2, Zenon
    <2> QED
      BY <1>2, <2>1, <2>2
  <1>5. \A d \in Allocated(r) : \E i \in 1..(n + 1) : ds[i] = d
    <2>1. ds[j + 1] = c /\ j + 1 \in 1..(n + 1)
      BY <1>2
    <2>2. ASSUME NEW d \in Allocated(l) PROVE \E i \in 1..(n + 1) : ds[i] = d
      <3>1. PICK i \in 1..n : cs[i] = d
        BY Zenon DEF Chain
      <3>2. CASE i <= j
        <4>1. i \in 1..(n + 1) /\ ds[i] = d
          BY <1>2, <3>1, <3>2
        <4> QED
          BY <4>1, Zenon
      <3>3. CASE ~(i <= j)
        <4>1. i + 1 \in 1..(n + 1) /\ ds[i + 1] = d
          BY <1>2, <3>1, <3>3
        <4> QED
          BY <4>1, Zenon
      <3> QED
        BY <3>2, <3>3, Zenon
    <2> HIDE DEF ds
    <2> QED
      BY <1>1, <2>1, <2>2, Zenon
  <1>6. Mapcar(r, ds, n + 1)
    <2>1. r.first = ds[1] /\ n + 1 # 0
      <3>1. CASE j = 0
        BY <1>2, <3>1 DEF Linked
      <3>2. CASE j # 0
        BY <1>2, <3>2 DEF Linked, Chain, Mapcar
      <3> QED
        BY <3>1, <3>2, Zenon
    <2>2. ASSUME NEW i \in 1..(n + 1)
          PROVE  r.next[ds[i]] = IF i = n + 1 THEN NIL ELSE ds[i + 1]
      <3>1. CASE i < j
        <4>1. i \in 1..n /\ j \in 1..n /\ ds[i] = cs[i] /\ ds[i + 1] = cs[i + 1] /\ i # n + 1 /\ i # n /\ i # j
          BY <1>2, <3>1
        <4>2. cs[i] \in Allocated(l) /\ cs[i] # cs[j] /\ l.next[cs[i]] = cs[i + 1]
          BY <4>1, Zenon DEF Chain, Mapcar
        <4>3. r.next[cs[i]] = l.next[cs[i]]
          BY <4>2, Zenon DEF Linked
        <4> QED
          BY <4>1, <4>2, <4>3, Zenon
      <3>2. CASE i = j
        <4>1. j \in 1..n /\ ds[j] = cs[j] /\ ds[j + 1] = c /\ j # n + 1 /\ j # 0
          BY <1>2, <3>2
        <4>2. r.next[cs[j]] = c
          BY <1>2, <4>1, Zenon DEF Linked
        <4> QED
          BY <3>2, <4>1, <4>2, Zenon
      <3>3. CASE i = j + 1
        <4>1. ds[i] = c /\ (j = n <=> i = n + 1) /\ (i # n + 1 => ds[i + 1] = cs[j + 1])
          BY <1>2, <3>3
        <4>2. r.next[c] = IF j = n THEN NIL ELSE cs[j + 1]
          BY Zenon DEF Linked
        <4> QED
          BY <4>1, <4>2, Zenon
      <3>4. CASE i > j + 1
        <4>1. /\ i - 1 \in 1..n /\ ds[i] = cs[i - 1] /\ i - 1 # j
              /\ (i - 1 = n <=> i = n + 1) /\ (i # n + 1 => ds[i + 1] = cs[(i - 1) + 1])
          BY <1>2, <3>4
        <4>2. cs[i - 1] \in Allocated(l) /\ (j # 0 => cs[i - 1] # cs[j])
          <5>1. cs[i - 1] \in Allocated(l)
            BY <1>2, <4>1, Zenon
          <5>2. j # 0 => j \in 1..n
            BY <1>2
          <5> QED
            BY <4>1, <5>1, <5>2, Zenon DEF Chain
        <4>3. l.next[cs[i - 1]] = IF i - 1 = n THEN NIL ELSE cs[(i - 1) + 1]
          BY <4>1, Zenon DEF Chain, Mapcar
        <4>4. r.next[cs[i - 1]] = l.next[cs[i - 1]]
          BY <4>2, Zenon DEF Linked
        <4> QED
          BY <4>1, <4>3, <4>4, Zenon
      <3> QED
        BY <1>2, <3>1, <3>2, <3>3, <3>4
    <2> HIDE DEF ds
    <2> QED
      BY <2>1, <2>2, Zenon DEF Mapcar
  <1>7. r.last = ds[n + 1]
    <2>1. CASE j = n
      BY <1>2, <2>1 DEF Linked
    <2>2. CASE j # n
      <3>1. n # 0 /\ ds[n + 1] = cs[n]
        BY <1>2, <2>2
      <3>2. r.last = l.last
        BY <2>2, Zenon DEF Linked
      <3> QED
        BY <3>1, <3>2, Zenon DEF Chain
    <2> QED
      BY <2>1, <2>2, Zenon
  <1> HIDE DEF ds
  <1>8. n + 1 \in Nat /\ n + 1 # 0
    BY <1>2
  <1>9. Chain(r, ds, n + 1)
    BY <1>3, <1>4, <1>5, <1>6, <1>7, <1>8, Zenon DEF Chain
  <1> QED
    BY <1>9, ChainIsWellLinked, Zenon

\* A cell between two that its key is between keeps the list sorted.
LEMMA LinkedSorted ==
  ASSUME NEW N \in Nat, NEW X, NEW l \in Lists(N, X), Sorted(l), NEW r, NEW cs, NEW n,
         Chain(l, cs, n), NEW j \in 0..n, NEW c, NEW x, NEW k \in Int,
         Linked(l, r, cs, n, j, c, x, k),
         j # 0 => l.key[cs[j]] <= k, j # n => k <= l.key[cs[j + 1]]
  PROVE  Sorted(r)
  <1>1. Allocated(r) = Allocated(l) \cup {c} /\ c \notin Allocated(l)
    <2>1. Fills(l, r, c, x)
      BY Zenon DEF Linked
    <2> QED
      BY <2>1, LinkedAllocated, Zenon
  <1>2. r.key[c] = k /\ \A d \in Allocated(l) : r.key[d] = l.key[d]
    <2>1. l.key \in [1..N -> Int] /\ DOMAIN l.item = 1..N
      BY Zenon DEF Lists
    <2>2. Allocated(l) \subseteq 1..N /\ c \in 1..N
      BY <2>1, Zenon DEF Allocated, Linked, Fills
    <2>3. r.key = [l.key EXCEPT ![c] = k]
      BY Zenon DEF Linked
    <2> QED
      BY <1>1, <2>1, <2>2, <2>3, Zenon
  <1>3. \A d \in Allocated(l) : l.next[d] = NIL \/ l.next[d] \in Allocated(l)
    <2> TAKE d \in Allocated(l)
    <2>1. PICK i \in 1..n : cs[i] = d
      BY Zenon DEF Chain
    <2>2. l.next[d] = IF i = n THEN NIL ELSE cs[i + 1]
      BY <2>1, Zenon DEF Chain, Mapcar
    <2>3. i # n => i + 1 \in 1..n
      BY <2>1 DEF Chain
    <2> QED
      BY <2>2, <2>3, Zenon DEF Chain
  <1>4. ASSUME NEW d \in Allocated(r), r.next[d] # NIL
        PROVE  r.key[d] <= r.key[r.next[d]]
    <2>1. CASE d = c
      <3>1. j # n /\ r.next[c] = cs[j + 1]
        BY <1>4, <2>1, Zenon DEF Linked
      <3>2. j + 1 \in 1..n
        BY <3>1 DEF Chain
      <3>3. cs[j + 1] \in Allocated(l)
        BY <3>2, Zenon DEF Chain
      <3> QED
        BY <1>2, <2>1, <3>1, <3>3, Zenon
    <2>2. CASE d \in Allocated(l) /\ j # 0 /\ d = cs[j]
      BY <1>2, <2>2, Zenon DEF Linked
    <2>3. CASE d \in Allocated(l) /\ ~(j # 0 /\ d = cs[j])
      <3>1. r.next[d] = l.next[d] /\ l.next[d] # NIL
        BY <1>4, <2>3, Zenon DEF Linked
      <3> QED
        BY <1>2, <1>3, <2>3, <3>1, Zenon DEF Sorted
    <2> QED
      BY <1>1, <2>1, <2>2, <2>3, Zenon
  <1> QED
    BY <1>4, Zenon DEF Sorted

-----------------------------------------------------------------------------

\* A set of natural numbers has a smallest element.
LEMMA LeastNatural ==
  ASSUME NEW S \in SUBSET Nat, S # {}
  PROVE  \E m \in S : \A k \in S : m <= k
  <1>1. PICK x \in S : \A y \in S : ~ (<<y, x>> \in OpToRel(<, Nat))
    BY NatLessThanWellFounded, WFMin, Zenon
  <1>2. \A y \in S : y < x => <<y, x>> \in OpToRel(<, Nat)
    BY Zenon DEF OpToRel
  <1>3. \A y \in S : ~ (y < x)
    BY <1>1, <1>2, Zenon
  <1> QED
    BY <1>3

\* new ListElement returns a cell that is not in use.
LEMMA FreshIsFree ==
  ASSUME NEW n \in Nat, NEW X, NEW l \in Lists(n, X), DOMAIN l.item \ Allocated(l) # {}
  PROVE  Fresh(l) \in 1..n /\ Fresh(l) \notin Allocated(l)
  <1> DEFINE S == DOMAIN l.item \ Allocated(l)
  <1>1. DOMAIN l.item = 1..n
    BY Zenon DEF Lists
  <1>2. S \in SUBSET Nat /\ S # {}
    BY <1>1
  <1> HIDE DEF S
  <1>3. PICK m \in S : \A k \in S : m <= k
    BY <1>2, LeastNatural, Zenon
  <1>4. Min(S) \in S
    BY <1>3, Zenon DEF Min
  <1> QED
    BY <1>1, <1>4, Zenon DEF S, Fresh

\* The loop of SortedInsert finds a cell whose key is not larger, followed by one
\* whose key is, or by none.
LEMMA InsertPointFound ==
  ASSUME NEW N \in Nat, NEW X, NEW l \in Lists(N, X), NEW cs, NEW n, Chain(l, cs, n),
         n = Cardinality(Allocated(l)), n # 0, NEW k \in Int, ~(k < l.key[cs[1]])
  PROVE  \E j \in 1..n : /\ InsertPoint(l, k) = cs[j] /\ l.key[cs[j]] <= k
                         /\ j # n => k <= l.key[cs[j + 1]]
  <1>1. n \in Nat /\ cs \in [1..n -> Allocated(l)] /\ 1 \in 1..n /\ n \in 1..n
    BY DEF Chain
  <1>2. /\ \A i \in 1..n : l.key[cs[i]] \in Int
        /\ NIL \notin Allocated(l)
    <2>1. l.key \in [1..N -> Int] /\ DOMAIN l.item = 1..N
      BY Zenon DEF Lists
    <2>2. Allocated(l) \subseteq 1..N
      BY <2>1, Zenon DEF Allocated
    <2>3. NIL \notin 1..N
      BY ListAssumption
    <2> QED
      BY <1>1, <2>1, <2>2, <2>3, Zenon
  <1>3. l.first = cs[1] /\ l.last = cs[n] /\ \A i \in 1..n : l.next[cs[i]] = IF i = n THEN NIL ELSE cs[i + 1]
    BY Zenon DEF Chain, Mapcar
  <1>4. \A i \in 1..n : Larger(l, cs[i], k) <=> i # n /\ k < l.key[cs[i + 1]]
    <2> TAKE i \in 1..n
    <2>1. i # n => i + 1 \in 1..n
      BY <1>1
    <2> QED
      BY <1>1, <1>2, <1>3, <2>1, Zenon DEF Larger
  <1>5. CASE \E ptr \in Allocated(l) : LoopReturns(l, ptr, k)
    <2> DEFINE ptr == InsertPoint(l, k)
    <2>1. ptr \in Allocated(l) /\ LoopReturns(l, ptr, k)
      BY <1>5, Zenon DEF InsertPoint
    <2> HIDE DEF ptr
    <2>a. PICK m \in 1..n : \E ptrs \in [1..m -> Allocated(l)] :
            /\ ptrs[1] = l.first /\ ptrs[m] = ptr
            /\ \A i \in 1..(m - 1) : ~Larger(l, ptrs[i], k) /\ ptrs[i + 1] = l.next[ptrs[i]]
            /\ Larger(l, ptr, k)
      BY <2>1, Zenon DEF LoopReturns
    <2>2. PICK ptrs \in [1..m -> Allocated(l)] :
            /\ ptrs[1] = l.first /\ ptrs[m] = ptr
            /\ \A i \in 1..(m - 1) : ~Larger(l, ptrs[i], k) /\ ptrs[i + 1] = l.next[ptrs[i]]
            /\ Larger(l, ptr, k)
      BY <2>a, Zenon
    <2> DEFINE Off == {i \in 1..m : ~(i <= n /\ ptrs[i] = cs[i])}
    <2>3. Off = {}
      <3>1. SUFFICES ASSUME Off # {} PROVE FALSE
        OBVIOUS
      <3>2. PICK o \in Off : \A i \in Off : o <= i
        <4>1. Off \in SUBSET Nat
          OBVIOUS
        <4> HIDE DEF Off
        <4> QED
          BY <3>1, <4>1, LeastNatural, Zenon
      <3>3. o # 1
        BY <1>1, <1>3, <2>2
      <3>4. o - 1 \in 1..(m - 1) /\ o - 1 \in 1..m /\ o - 1 \notin Off
        BY <3>2, <3>3
      <3>5. ptrs[o - 1] = cs[o - 1] /\ o - 1 \in 1..n
        BY <3>4
      <3>6. ptrs[o] = l.next[cs[o - 1]]
        <4>1. ptrs[(o - 1) + 1] = l.next[ptrs[o - 1]]
          BY <2>2, <3>4, Zenon
        <4>2. (o - 1) + 1 = o
          OBVIOUS
        <4> QED
          BY <3>5, <4>1, <4>2, Zenon
      <3>7. ptrs[o] \in Allocated(l)
        BY <2>2
      <3>8. o - 1 # n /\ ptrs[o] = cs[(o - 1) + 1]
        BY <1>2, <1>3, <3>5, <3>6, <3>7, Zenon
      <3>9. o <= n /\ ptrs[o] = cs[o]
        BY <1>1, <3>5, <3>8
      <3> QED
        BY <3>9
    <2>4. \A i \in 1..m : i <= n /\ ptrs[i] = cs[i]
      BY <2>3
    <2>5. ptr = cs[m] /\ m \in 1..n
      BY <2>2, <2>4
    <2>6. m # n /\ k < l.key[cs[m + 1]]
      BY <1>4, <2>2, <2>5, Zenon
    <2>7. l.key[cs[m]] <= k
      <3>1. CASE m = 1
        BY <1>1, <1>2, <3>1
      <3>2. CASE m # 1
        <4>1. m - 1 \in 1..(m - 1) /\ m - 1 \in 1..n /\ m - 1 \in 1..m /\ (m - 1) + 1 = m /\ m - 1 # n
          BY <1>1, <3>2
        <4>2. ~Larger(l, cs[m - 1], k)
          BY <2>2, <2>4, <4>1, Zenon
        <4>3. ~(k < l.key[cs[m]])
          BY <1>4, <4>1, <4>2, Zenon
        <4> QED
          BY <1>2, <4>3
      <3> QED
        BY <3>1, <3>2, Zenon
    <2>8. k <= l.key[cs[m + 1]]
      <3>1. m + 1 \in 1..n
        BY <1>1, <2>6
      <3> QED
        BY <1>2, <2>6, <3>1
    <2> QED
      BY <2>5, <2>7, <2>8, Zenon DEF ptr
  <1>6. CASE ~ \E ptr \in Allocated(l) : LoopReturns(l, ptr, k)
    <2>1. InsertPoint(l, k) = cs[n]
      BY <1>3, <1>6, Zenon DEF InsertPoint
    <2> DEFINE Big == {i \in 1..n : k < l.key[cs[i]]}
    <2>2. Big = {}
      <3>1. SUFFICES ASSUME Big # {} PROVE FALSE
        OBVIOUS
      <3>2. PICK b \in Big : \A i \in Big : b <= i
        <4>1. Big \in SUBSET Nat
          OBVIOUS
        <4> HIDE DEF Big
        <4> QED
          BY <3>1, <4>1, LeastNatural, Zenon
      <3>3. b # 1 /\ b \in 1..n /\ k < l.key[cs[b]]
        BY <3>2
      <3>4. b - 1 \in 1..n /\ b - 1 # n /\ (b - 1) + 1 = b
        BY <1>1, <3>3
      <3>5. Larger(l, cs[b - 1], k)
        BY <1>4, <3>3, <3>4, Zenon
      <3>6. \A i \in 1..((b - 1) - 1) : ~Larger(l, cs[i], k) /\ cs[i + 1] = l.next[cs[i]]
        <4> TAKE i \in 1..((b - 1) - 1)
        <4>1. i \in 1..n /\ i # n /\ i + 1 \in 1..n /\ i + 1 \notin Big
          BY <1>1, <3>2, <3>4
        <4>2. ~(k < l.key[cs[i + 1]])
          BY <4>1
        <4> QED
          BY <1>3, <1>4, <4>1, <4>2, Zenon
      <3> DEFINE ptrs == [i \in 1..(b - 1) |-> cs[i]]
      <3>7. /\ ptrs \in [1..(b - 1) -> Allocated(l)]
            /\ ptrs[1] = l.first /\ ptrs[b - 1] = cs[b - 1] /\ cs[b - 1] \in Allocated(l)
            /\ \A i \in 1..((b - 1) - 1) : ptrs[i] = cs[i] /\ ptrs[i + 1] = cs[i + 1]
        BY <1>1, <1>3, <3>4
      <3> HIDE DEF ptrs
      <3>8. \A i \in 1..((b - 1) - 1) : ~Larger(l, ptrs[i], k) /\ ptrs[i + 1] = l.next[ptrs[i]]
        BY <3>6, <3>7, Zenon
      <3>9. LoopReturns(l, cs[b - 1], k)
        BY <3>4, <3>5, <3>7, <3>8, Zenon DEF LoopReturns
      <3> QED
        BY <1>6, <3>7, <3>9, Zenon
    <2>3. l.key[cs[n]] <= k
      BY <1>1, <1>2, <2>2
    <2> QED
      BY <1>1, <2>1, <2>3, Zenon
  <1> QED
    BY <1>5, <1>6, Zenon

-----------------------------------------------------------------------------
(***************************************************************************)
(* The operations of the list                                              *)
(***************************************************************************)

\* A list as it should be.
Good(l, N, X) == l \in Lists(N, X) /\ WellLinked(l)

\* What After does to the fields of l, for a new cell c.
IsAfter(l, r, N, X, c, x, k, p) ==
  /\ r \in Lists(N, X) /\ r.first = l.first
  /\ r.last = IF p = l.last THEN c ELSE l.last
  /\ r.item = [l.item EXCEPT ![c] = x] /\ r.key = [l.key EXCEPT ![c] = k]
  /\ r.next = [l.next EXCEPT ![c] = l.next[p], ![p] = c]

LEMMA AfterFields ==
  ASSUME NEW N \in Nat, NEW X, NEW l \in Lists(N, X), NEW c \in 1..N, NEW x \in X, NEW k \in Int,
         NEW p \in 1..N, p # c
  PROVE  IsAfter(l, After(WithElement(l, c, x, k), p, c), N, X, c, x, k, p)
  BY Zenon DEF IsAfter, Lists, After, WithElement

\* r is l with one more cell, c, of item x and key k.
Inserts(l, r, c, x, k) == Fills(l, r, c, x) /\ r.key = [l.key EXCEPT ![c] = k]

\* List::SortedInsert adds one cell and keeps the list linked and sorted.
LEMMA SortedInsertWorks ==
  ASSUME NEW N \in Nat, NEW X, NIL \notin X, NEW l, Good(l, N, X), Sorted(l),
         DOMAIN l.item \ Allocated(l) # {}, NEW x \in X, NEW k \in Int
  PROVE  LET r == SortedInsert(l, x, k)
         IN  Good(r, N, X) /\ Sorted(r) /\ Inserts(l, r, Fresh(l), x, k)
  <1> DEFINE c == Fresh(l)
             r == SortedInsert(l, x, k)
             n == Cardinality(Allocated(l))
  <1> SUFFICES Good(r, N, X) /\ Sorted(r) /\ Inserts(l, r, c, x, k)
    BY Zenon
  <1>1. l \in Lists(N, X) /\ c \in 1..N /\ c \notin Allocated(l) /\ DOMAIN l.item = 1..N
        /\ DOMAIN l.next = 1..N /\ x # NIL
    <2>1. l \in Lists(N, X)
      BY Zenon DEF Good
    <2> QED
      BY <2>1, FreshIsFree, Zenon DEF Lists
  <1>2. PICK cs : Chain(l, cs, n)
    BY WellLinkedHasChain, Zenon DEF Good
  <1> HIDE DEF c, n
  <1>3. n \in Nat /\ cs \in [1..n -> Allocated(l)]
    BY <1>2, Zenon DEF Chain
  <1>4. \A d \in Allocated(l) : d \in 1..N /\ d # c
    BY <1>1, Zenon DEF Allocated
  <1>5. \A j \in 0..n : Linked(l, r, cs, n, j, c, x, k)
                        /\ (j # 0 => l.key[cs[j]] <= k) /\ (j # n => k <= l.key[cs[j + 1]])
                        /\ r \in Lists(N, X)
          => Good(r, N, X) /\ Sorted(r) /\ Inserts(l, r, c, x, k)
    <2> HIDE DEF r
    <2> TAKE j \in 0..n
    <2> HAVE /\ Linked(l, r, cs, n, j, c, x, k)
             /\ (j # 0 => l.key[cs[j]] <= k) /\ (j # n => k <= l.key[cs[j + 1]])
             /\ r \in Lists(N, X)
    <2>1. WellLinked(r)
      BY <1>1, <1>2, LinkedChain, Zenon
    <2>2. Sorted(r)
      BY <1>1, <1>2, LinkedSorted, Zenon
    <2>3. Inserts(l, r, c, x, k)
      BY Zenon DEF Linked, Inserts
    <2> QED
      BY <2>1, <2>2, <2>3, Zenon DEF Good
  <1>6. CASE IsEmpty(l)
    <2>1. n = 0 /\ Allocated(l) = {}
      BY <1>1, <1>2, <1>6, FirstCell, Zenon
    <2>2. r = Alone(WithElement(l, c, x, k), c)
      BY <1>6, Zenon DEF SortedInsert, c
    <2> HIDE DEF r
    <2>3. /\ r \in Lists(N, X) /\ r.first = c /\ r.last = c
          /\ r.item = [l.item EXCEPT ![c] = x] /\ r.key = [l.key EXCEPT ![c] = k]
          /\ r.next = [l.next EXCEPT ![c] = NIL]
      BY <1>1, <2>2, Zenon DEF Lists, Alone, WithElement
    <2>4. Linked(l, r, cs, n, 0, c, x, k)
      BY <1>1, <2>1, <2>3, Zenon DEF Linked, Fills
    <2>5. 0 \in 0..n
      BY <1>3
    <2> QED
      BY <1>5, <2>1, <2>3, <2>4, <2>5, Zenon
  <1>7. CASE ~IsEmpty(l) /\ k < l.key[l.first]
    <2>1. n # 0 /\ l.first = cs[1] /\ l.first \in Allocated(l)
      BY <1>1, <1>2, <1>7, FirstCell, Zenon
    <2>2. r = InFront(WithElement(l, c, x, k), c)
      BY <1>7, Zenon DEF SortedInsert, c
    <2> HIDE DEF r
    <2>3. /\ r \in Lists(N, X) /\ r.first = c /\ r.last = l.last
          /\ r.item = [l.item EXCEPT ![c] = x] /\ r.key = [l.key EXCEPT ![c] = k]
          /\ r.next = [l.next EXCEPT ![c] = l.first]
      BY <1>1, <2>2, Zenon DEF Lists, InFront, WithElement
    <2>4. 0 \in 0..n /\ 0 + 1 = 1 /\ 0 # n
      BY <1>3, <2>1
    <2>5. DOMAIN r.next = DOMAIN l.next /\ r.next[c] = cs[1] /\ \A d \in Allocated(l) : r.next[d] = l.next[d]
      BY <1>1, <1>4, <2>1, <2>3, Zenon
    <2>6. Linked(l, r, cs, n, 0, c, x, k)
      BY <1>1, <2>3, <2>4, <2>5, Zenon DEF Linked, Fills
    <2>7. k <= l.key[cs[1]]
      <3>1. l.key[l.first] \in Int
        BY <1>1, <1>4, <2>1, Zenon DEF Lists
      <3> QED
        BY <1>7, <2>1, <3>1
    <2> QED
      BY <1>5, <2>3, <2>4, <2>6, <2>7, Zenon
  <1>8. CASE ~IsEmpty(l) /\ ~(k < l.key[l.first])
    <2>1. n # 0 /\ l.first = cs[1] /\ l.last = cs[n]
      BY <1>1, <1>2, <1>8, FirstCell, Zenon
    <2>2. PICK j \in 1..n : /\ InsertPoint(l, k) = cs[j] /\ l.key[cs[j]] <= k
                            /\ j # n => k <= l.key[cs[j + 1]]
      BY <1>1, <1>2, <1>8, <2>1, InsertPointFound, Zenon DEF n
    <2> DEFINE p == cs[j]
    <2>3. r = After(WithElement(l, c, x, k), p, c)
      BY <1>8, <2>2, Zenon DEF SortedInsert, c
    <2> HIDE DEF r
    <2>4. p \in Allocated(l) /\ p \in 1..N /\ p # c
      BY <1>3, <1>4, Zenon
    <2> HIDE DEF p
    <2>5. /\ r \in Lists(N, X) /\ r.first = l.first
          /\ r.last = IF p = l.last THEN c ELSE l.last
          /\ r.item = [l.item EXCEPT ![c] = x] /\ r.key = [l.key EXCEPT ![c] = k]
          /\ r.next = [l.next EXCEPT ![c] = l.next[p], ![p] = c]
      <3>1. IsAfter(l, r, N, X, c, x, k, p)
        BY <1>1, <2>3, <2>4, AfterFields, Zenon
      <3> QED
        BY <3>1, Zenon DEF IsAfter
    <2>6. n \in 1..n /\ j \in 0..n /\ j # 0
      BY <1>3, <2>1
    <2>7. (p = l.last) <=> (j = n)
      BY <1>2, <2>1, <2>6, Zenon DEF Chain, p
    <2>8. l.next[p] = IF j = n THEN NIL ELSE cs[j + 1]
      BY <1>2, Zenon DEF Chain, Mapcar, p
    <2>9. /\ DOMAIN r.next = DOMAIN l.next /\ r.next[c] = l.next[p] /\ r.next[p] = c
          /\ \A d \in Allocated(l) : d # p => r.next[d] = l.next[d]
      BY <1>1, <1>4, <2>4, <2>5, Zenon
    <2>10. Linked(l, r, cs, n, j, c, x, k)
      BY <1>1, <2>5, <2>6, <2>7, <2>8, <2>9, Zenon DEF Linked, Fills, p
    <2> QED
      BY <1>5, <2>2, <2>5, <2>6, <2>10, Zenon
  <1> QED
    BY <1>6, <1>7, <1>8, Zenon

\* What SortedRemove does to the fields of l.
Removes(l, r, N, X) ==
  /\ r \in Lists(N, X)
  /\ r.first = IF l.first = l.last THEN NIL ELSE l.next[l.first]
  /\ r.last = IF l.first = l.last THEN NIL ELSE l.last
  /\ r.item = [l.item EXCEPT ![l.first] = NIL] /\ r.key = [l.key EXCEPT ![l.first] = 0]
  /\ r.next = [l.next EXCEPT ![l.first] = NIL]
  /\ r.size = l.size

FreeCell(l, f, a, b) ==
  [l EXCEPT !.first = a, !.last = b, !.item[f] = NIL, !.key[f] = 0, !.next[f] = NIL]

IsFreed(l, r, N, X, f, a, b) ==
  /\ r \in Lists(N, X)
  /\ r.first = a /\ r.last = b
  /\ r.item = [l.item EXCEPT ![f] = NIL] /\ r.key = [l.key EXCEPT ![f] = 0]
  /\ r.next = [l.next EXCEPT ![f] = NIL]
  /\ r.size = l.size

LEMMA CellFreed ==
  ASSUME NEW N \in Nat, NEW X, NEW l \in Lists(N, X), NEW f \in 1..N,
         NEW a \in (1..N) \cup {NIL}, NEW b \in (1..N) \cup {NIL}
  PROVE  IsFreed(l, FreeCell(l, f, a, b), N, X, f, a, b)
  <1> DEFINE r == FreeCell(l, f, a, b)
  <1>0. r = [l EXCEPT !.first = a, !.last = b, !.item[f] = NIL, !.key[f] = 0, !.next[f] = NIL]
    BY Zenon DEF FreeCell
  <1> HIDE DEF r
  <1>1. /\ r.first = a /\ r.last = b
        /\ r.item = [l.item EXCEPT ![f] = NIL] /\ r.key = [l.key EXCEPT ![f] = 0]
        /\ r.next = [l.next EXCEPT ![f] = NIL]
        /\ r.size = l.size
    BY <1>0 DEF Lists
  <1>2. /\ [l.item EXCEPT ![f] = NIL] \in [1..N -> X \cup {NIL}]
        /\ [l.key EXCEPT ![f] = 0] \in [1..N -> Int]
        /\ [l.next EXCEPT ![f] = NIL] \in [1..N -> (1..N) \cup {NIL}]
    BY DEF Lists
  <1>3. r = [first |-> a, last |-> b, size |-> l.size, next |-> r.next, key |-> r.key, item |-> r.item]
    BY <1>0, Zenon DEF Lists
  <1>4. r.next \in [1..N -> (1..N) \cup {NIL}] /\ r.key \in [1..N -> Int]
        /\ r.item \in [1..N -> X \cup {NIL}] /\ l.size \in Int
    BY <1>1, <1>2 DEF Lists
  <1> QED
    <2>1. r \in Lists(N, X)
      BY <1>1, <1>3, <1>4, Zenon DEF Lists
    <2> QED
      BY <1>1, <2>1, Zenon DEF IsFreed, r

LEMMA RemoveFields ==
  ASSUME NEW N \in Nat, NEW X, NEW l \in Lists(N, X), ~IsEmpty(l)
  PROVE  Removes(l, SortedRemove(l), N, X)
  <1>1. l.first \in 1..N /\ l.next[l.first] \in (1..N) \cup {NIL} /\ l.last \in (1..N) \cup {NIL}
        /\ NIL \in (1..N) \cup {NIL}
    BY DEF Lists, IsEmpty
  <1>2. CASE l.first = l.last
    <2>1. SortedRemove(l) = FreeCell(l, l.first, NIL, NIL)
      BY <1>2, Zenon DEF SortedRemove, FreeCell
    <2>2. IsFreed(l, SortedRemove(l), N, X, l.first, NIL, NIL)
      BY <1>1, <2>1, CellFreed, Zenon
    <2> QED
      BY <1>2, <2>2, Zenon DEF Removes, IsFreed
  <1>3. CASE l.first # l.last
    <2>1. SortedRemove(l) = FreeCell(l, l.first, l.next[l.first], l.last)
      BY <1>3, Zenon DEF SortedRemove, FreeCell
    <2>2. IsFreed(l, SortedRemove(l), N, X, l.first, l.next[l.first], l.last)
      BY <1>1, <2>1, CellFreed, Zenon
    <2> QED
      BY <1>3, <2>2, Zenon DEF Removes, IsFreed
  <1> QED
    BY <1>2, <1>3, Zenon

LEMMA RemovedAllocated ==
  ASSUME NEW N \in Nat, NEW X, NEW l \in Lists(N, X), NEW r, Removes(l, r, N, X),
         l.first \in Allocated(l)
  PROVE  /\ Allocated(r) = Allocated(l) \ {l.first}
         /\ \A c \in Allocated(r) : /\ r.item[c] = l.item[c] /\ r.key[c] = l.key[c]
                                    /\ r.next[c] = l.next[c]
  <1>1. /\ l.item \in [1..N -> X \cup {NIL}] /\ l.key \in [1..N -> Int]
        /\ l.next \in [1..N -> (1..N) \cup {NIL}]
    BY Zenon DEF Lists
  <1>2. /\ DOMAIN r.item = 1..N /\ r.item[l.first] = NIL
        /\ \A c \in 1..N : c # l.first => /\ r.item[c] = l.item[c] /\ r.key[c] = l.key[c]
                                          /\ r.next[c] = l.next[c]
    <2>1. l.first \in 1..N
      BY <1>1, Zenon DEF Allocated
    <2> QED
      BY <1>1, <2>1, Zenon DEF Removes
  <1>3. \A c : c \in Allocated(r) <=> c \in 1..N /\ r.item[c] # NIL
    BY <1>2, Zenon DEF Allocated
  <1>4. \A c : c \in Allocated(l) <=> c \in 1..N /\ l.item[c] # NIL
    BY <1>1, Zenon DEF Allocated
  <1>5. \A c : c \in Allocated(r) <=> c \in Allocated(l) /\ c # l.first
    BY <1>2, <1>3, <1>4
  <1>6. Allocated(r) = Allocated(l) \ {l.first}
    BY <1>5, Zenon
  <1> QED
    BY <1>2, <1>3, <1>5, <1>6, Zenon

\* List::SortedRemove takes the first cell away and keeps the list linked.
LEMMA SortedRemoveWorks ==
  ASSUME NEW N \in Nat, NEW X, NEW l, Good(l, N, X), ~IsEmpty(l)
  PROVE  /\ Good(SortedRemove(l), N, X) /\ Removes(l, SortedRemove(l), N, X)
         /\ l.first \in Allocated(l)
         /\ Sorted(l) => Sorted(SortedRemove(l))
  <1> DEFINE r == SortedRemove(l)
             n == Cardinality(Allocated(l))
  <1>1. l \in Lists(N, X) /\ Removes(l, r, N, X)
    BY RemoveFields, Zenon DEF Good
  <1>2. PICK cs : Chain(l, cs, n)
    BY WellLinkedHasChain, Zenon DEF Good
  <1> HIDE DEF r, n
  <1>3. n \in Nat /\ n # 0 /\ l.first = cs[1] /\ l.first \in Allocated(l) /\ l.last = cs[n]
    <2>1. n # 0 /\ l.first = cs[1] /\ l.first \in Allocated(l)
      BY <1>1, <1>2, FirstCell, Zenon
    <2> QED
      BY <1>2, <2>1, Zenon DEF Chain
  <1>4. /\ Allocated(r) = Allocated(l) \ {l.first}
        /\ \A c \in Allocated(r) : r.key[c] = l.key[c] /\ r.next[c] = l.next[c]
    BY <1>1, <1>3, RemovedAllocated
  <1>5. /\ cs \in [1..n -> Allocated(l)] /\ \A i, j \in 1..n : cs[i] = cs[j] => i = j
        /\ \A c \in Allocated(l) : \E i \in 1..n : cs[i] = c
        /\ \A i \in 1..n : l.next[cs[i]] = IF i = n THEN NIL ELSE cs[i + 1]
    BY <1>2, Zenon DEF Chain, Mapcar
  <1>6. 1 \in 1..n /\ n \in 1..n /\ ((l.first = l.last) <=> (n = 1))
    <2>1. 1 \in 1..n /\ n \in 1..n
      BY <1>3
    <2> QED
      BY <1>3, <1>5, <2>1
  <1> DEFINE ds == [i \in 1..(n - 1) |-> cs[i + 1]]
  <1>7. \A i \in 1..(n - 1) : i + 1 \in 1..n /\ i + 1 # 1 /\ ((i = n - 1) <=> (i + 1 = n))
    BY <1>3
  <1>8. \A i \in 1..(n - 1) : ds[i] = cs[i + 1] /\ ds[i] \in Allocated(r)
    <2> TAKE i \in 1..(n - 1)
    <2>1. ds[i] = cs[i + 1]
      BY Zenon
    <2>2. cs[i + 1] \in Allocated(l) /\ cs[i + 1] # l.first
      BY <1>3, <1>5, <1>6, <1>7
    <2> QED
      BY <1>4, <2>1, <2>2, Zenon
  <1>9. ds \in [1..(n - 1) -> Allocated(r)]
    BY <1>8, Zenon
  <1> HIDE DEF ds
  <1>10. \A i, j \in 1..(n - 1) : ds[i] = ds[j] => i = j
    BY <1>3, <1>5, <1>7, <1>8
  <1>11. \A c \in Allocated(r) : \E i \in 1..(n - 1) : ds[i] = c
    <2> TAKE c \in Allocated(r)
    <2>1. PICK i \in 1..n : cs[i] = c
      BY <1>4, <1>5, Zenon
    <2>2. i # 1
      BY <1>3, <1>4, <2>1, Zenon
    <2>3. i - 1 \in 1..(n - 1) /\ (i - 1) + 1 = i
      BY <1>3, <2>2
    <2>4. ds[i - 1] = c
      BY <1>8, <2>1, <2>3, Zenon
    <2> QED
      BY <2>3, <2>4, Zenon
  <1>12. Mapcar(r, ds, n - 1)
    <2>1. r.first = IF n - 1 = 0 THEN NIL ELSE ds[1]
      <3>1. CASE n = 1
        BY <1>1, <1>6, <3>1 DEF Removes
      <3>2. CASE n # 1
        <4>1. 1 \in 1..(n - 1) /\ n - 1 # 0 /\ 1 # n
          BY <1>3, <3>2
        <4>2. r.first = l.next[l.first]
          BY <1>1, <1>6, <3>2, Zenon DEF Removes
        <4> QED
          BY <1>3, <1>5, <1>6, <1>8, <4>1, <4>2
      <3> QED
        BY <3>1, <3>2, Zenon
    <2>2. \A i \in 1..(n - 1) : r.next[ds[i]] = IF i = n - 1 THEN NIL ELSE ds[i + 1]
      <3> TAKE i \in 1..(n - 1)
      <3>1. r.next[ds[i]] = l.next[cs[i + 1]]
        BY <1>4, <1>8, Zenon
      <3>2. l.next[cs[i + 1]] = IF i = n - 1 THEN NIL ELSE cs[(i + 1) + 1]
        BY <1>5, <1>7, Zenon
      <3>3. i # n - 1 => i + 1 \in 1..(n - 1)
        BY <1>3
      <3> QED
        BY <1>8, <3>1, <3>2, <3>3, Zenon
    <2> QED
      BY <2>1, <2>2, Zenon DEF Mapcar
  <1>13. r.last = IF n - 1 = 0 THEN NIL ELSE ds[n - 1]
    <2>1. CASE n = 1
      BY <1>1, <1>6, <2>1 DEF Removes
    <2>2. CASE n # 1
      <3>1. n - 1 # 0 /\ n - 1 \in 1..(n - 1) /\ (n - 1) + 1 = n
        BY <1>3, <2>2
      <3>2. r.last = l.last
        BY <1>1, <1>6, <2>2, Zenon DEF Removes
      <3> QED
        BY <1>3, <1>8, <3>1, <3>2, Zenon
    <2> QED
      BY <2>1, <2>2, Zenon
  <1>14. n - 1 \in Nat
    BY <1>3
  <1>15. Chain(r, ds, n - 1)
    BY <1>9, <1>10, <1>11, <1>12, <1>13, <1>14, Zenon DEF Chain
  <1>16. Good(r, N, X)
    BY <1>1, <1>15, ChainIsWellLinked, Zenon DEF Good, Removes
  <1>17. Sorted(l) => Sorted(r)
    <2> HAVE Sorted(l)
    <2> SUFFICES ASSUME NEW c \in Allocated(r), r.next[c] # NIL
                 PROVE  r.key[c] <= r.key[r.next[c]]
      BY Zenon DEF Sorted
    <2>1. PICK i \in 1..(n - 1) : ds[i] = c
      BY <1>11, Zenon
    <2>2. i # n - 1 /\ r.next[c] = ds[i + 1]
      BY <1>12, <2>1, Zenon DEF Mapcar
    <2>3. i + 1 \in 1..(n - 1)
      BY <1>3, <2>2
    <2>4. r.next[c] \in Allocated(r)
      BY <1>8, <2>2, <2>3, Zenon
    <2>5. c \in Allocated(l) /\ l.next[c] = r.next[c]
      BY <1>4, Zenon
    <2> QED
      BY <1>4, <2>4, <2>5, Zenon DEF Sorted
  <1> QED
    BY <1>1, <1>3, <1>16, <1>17, Zenon DEF r

\* In a sorted list no key is smaller than that of the first cell.
LEMMA FirstLeast ==
  ASSUME NEW N \in Nat, NEW X, NEW l, Good(l, N, X), Sorted(l), NEW c \in Allocated(l)
  PROVE  FirstKey(l) <= l.key[c]
  <1> DEFINE n == Cardinality(Allocated(l))
  <1>1. l \in Lists(N, X) /\ l.key \in [1..N -> Int] /\ Allocated(l) \subseteq 1..N
    BY Zenon DEF Good, Lists, Allocated
  <1>2. PICK cs : Chain(l, cs, n)
    BY WellLinkedHasChain, Zenon DEF Good
  <1> HIDE DEF n
  <1>3. /\ n \in Nat /\ cs \in [1..n -> Allocated(l)] /\ NIL \notin Allocated(l)
        /\ \A i \in 1..n : l.next[cs[i]] = IF i = n THEN NIL ELSE cs[i + 1]
    BY <1>1, <1>2, ListAssumption DEF Chain, Mapcar
  <1>4. \A i \in 1..n : l.key[cs[i]] \in Int
    BY <1>1, <1>3, Zenon
  <1> DEFINE Small == {i \in 1..n : l.key[cs[i]] < l.key[cs[1]]}
  <1>5. Small = {}
    <2>1. SUFFICES ASSUME Small # {} PROVE FALSE
      OBVIOUS
    <2>2. PICK m \in Small : \A i \in Small : m <= i
      <3>1. Small \in SUBSET Nat
        OBVIOUS
      <3> HIDE DEF Small
      <3> QED
        BY <2>1, <3>1, LeastNatural, Zenon
    <2>3. m # 1 /\ m \in 1..n
      BY <1>3, <1>4, <2>2
    <2>4. m - 1 \in 1..n /\ m - 1 # n /\ (m - 1) + 1 = m /\ m - 1 \notin Small
      BY <1>3, <2>2, <2>3
    <2>5. l.next[cs[m - 1]] = cs[m] /\ cs[m - 1] \in Allocated(l) /\ cs[m] \in Allocated(l)
      BY <1>3, <2>3, <2>4, Zenon
    <2>6. l.key[cs[m - 1]] <= l.key[cs[m]]
      BY <1>3, <2>5, Zenon DEF Sorted
    <2>7. ~(l.key[cs[m - 1]] < l.key[cs[1]]) /\ l.key[cs[m]] < l.key[cs[1]]
      BY <2>2, <2>4
    <2>8. 1 \in 1..n
      BY <1>3, <2>3
    <2> QED
      BY <1>4, <2>3, <2>4, <2>6, <2>7, <2>8
  <1>6. PICK i \in 1..n : cs[i] = c
    BY <1>2, Zenon DEF Chain
  <1>7. ~(l.key[cs[i]] < l.key[cs[1]]) /\ 1 \in 1..n
    BY <1>3, <1>5, <1>6
  <1>8. l.first = cs[1]
    BY <1>1, <1>2, FirstCell, Zenon
  <1> QED
    BY <1>4, <1>6, <1>7, <1>8 DEF FirstKey
=============================================================================
