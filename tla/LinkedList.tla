----------------------------- MODULE LinkedList -----------------------------
(***************************************************************************)
(* List and ListElement (threads/list.cc): a singly linked list with a     *)
(* pointer to each end.  A list is a record of its own cells: first and    *)
(* last are addresses, next, key and item are the fields of the cell at    *)
(* each address, and a cell whose item is NIL is not allocated.  size is   *)
(* the counter that only some of the operations maintain.                  *)
(***************************************************************************)
EXTENDS Integers, Sequences, FiniteSetsExt

CONSTANT NIL    \* the null pointer

ASSUME ListAssumption == NIL \notin Nat

\* List::List, with room for n cells.
NewList(n) ==
  [first |-> NIL, last |-> NIL, size |-> 0,
   next |-> [c \in 1..n |-> NIL],
   key  |-> [c \in 1..n |-> 0],
   item |-> [c \in 1..n |-> NIL]]

Allocated(l) == {c \in DOMAIN l.item : l.item[c] # NIL}

\* The address new ListElement returns.
Fresh(l) == Min(DOMAIN l.item \ Allocated(l))

\* ListElement::ListElement, at address c.
WithElement(l, c, x, sortKey) ==
  [l EXCEPT !.item[c] = x, !.key[c] = sortKey, !.next[c] = NIL]

IsEmpty(l) == l.first = NIL

\* The three ways of linking the new cell c: alone, before the first, after
\* the cell at p.
Alone(l, c)       == [l EXCEPT !.first = c, !.last = c]
InFront(l, c)     == [l EXCEPT !.next[c] = l.first, !.first = c]
After(l, p, c)    == [l EXCEPT !.next[c] = l.next[p], !.next[p] = c,
                               !.last = IF p = l.last THEN c ELSE @]

\* Mutant: Append that leaves last where it was.
ListAppendKeepsLast(l, x) ==
  LET c == Fresh(l)
      e == [WithElement(l, c, x, 0) EXCEPT !.size = @ + 1]
  IN  IF IsEmpty(l) THEN [Alone(e, c) EXCEPT !.last = NIL]
      ELSE [After(e, l.last, c) EXCEPT !.last = l.last]

\* List::Append
ListAppend(l, x) ==
  LET c == Fresh(l)
      e == [WithElement(l, c, x, 0) EXCEPT !.size = @ + 1]
  IN  IF IsEmpty(l) THEN Alone(e, c) ELSE After(e, l.last, c)

\* The loop of SortedInsert returns at ptr: the next cell has a larger key.
Larger(l, ptr, sortKey) == l.next[ptr] # NIL /\ sortKey < l.key[l.next[ptr]]

\* The loop gets to ptr, from the first cell along next, and returns there.
LoopReturns(l, ptr, sortKey) ==
  \E n \in 1..Cardinality(Allocated(l)) : \E ptrs \in [1..n -> Allocated(l)] :
    /\ ptrs[1] = l.first /\ ptrs[n] = ptr
    /\ \A i \in 1..(n - 1) : ~Larger(l, ptrs[i], sortKey) /\ ptrs[i + 1] = l.next[ptrs[i]]
    /\ Larger(l, ptr, sortKey)

\* The cell after which SortedInsert links: where the loop returns or, when it runs
\* to the end, the last one.
InsertPoint(l, sortKey) ==
  IF \E ptr \in Allocated(l) : LoopReturns(l, ptr, sortKey)
  THEN CHOOSE ptr \in Allocated(l) : LoopReturns(l, ptr, sortKey)
  ELSE l.last

\* Mutant: SortedInsert without the case of the front of the list.
SortedInsertNeverFirst(l, x, sortKey) ==
  LET c == Fresh(l)
      e == WithElement(l, c, x, sortKey)
  IN  IF IsEmpty(l) THEN Alone(e, c) ELSE After(e, InsertPoint(l, sortKey), c)

\* List::SortedInsert
SortedInsert(l, x, sortKey) ==
  LET c == Fresh(l)
      e == WithElement(l, c, x, sortKey)
  IN  IF IsEmpty(l) THEN Alone(e, c)
      ELSE IF sortKey < l.key[l.first] THEN InFront(e, c)
      ELSE After(e, InsertPoint(l, sortKey), c)

\* List::SortedRemove: the list it leaves.  What it returns is FirstItem and,
\* through keyPtr, FirstKey of the list it was given.
SortedRemove(l) ==
  IF IsEmpty(l) THEN l
  ELSE [l EXCEPT !.first = IF l.first = l.last THEN NIL ELSE l.next[l.first],
                 !.last  = IF l.first = l.last THEN NIL ELSE @,
                 !.item[l.first] = NIL,
                 !.key[l.first]  = 0,
                 !.next[l.first] = NIL]

FirstItem(l) == IF IsEmpty(l) THEN NIL ELSE l.item[l.first]
FirstKey(l) == l.key[l.first]

\* List::Remove: size goes down even when there is nothing to remove.
ListRemove(l) == [SortedRemove(l) EXCEPT !.size = @ - 1]

-----------------------------------------------------------------------------

\* Mapcar visits the cells cs, one after the other, and ends.
Mapcar(l, cs, n) ==
  /\ l.first = IF n = 0 THEN NIL ELSE cs[1]
  /\ \A i \in 1..n : l.next[cs[i]] = IF i = n THEN NIL ELSE cs[i + 1]

\* The pointers describe one finite chain: it visits every allocated cell once,
\* ends at last, and last is null exactly when first is.
WellLinked(l) ==
  LET n == Cardinality(Allocated(l))
  IN  \E cs \in Bijection(1..n, Allocated(l)) :
        Mapcar(l, cs, n) /\ l.last = IF n = 0 THEN NIL ELSE cs[n]

\* The keys never decrease along the chain.
Sorted(l) ==
  \A c \in Allocated(l) : l.next[c] # NIL => l.key[c] <= l.key[l.next[c]]
=============================================================================
