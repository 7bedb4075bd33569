---------------------------- MODULE DevicesProofs ----------------------------
(***************************************************************************)
(* Proofs about the pending interrupts, the simulated clock and the        *)
(* devices, for all times and sizes.  DevInv is the inductive invariant;   *)
(* every action is shown to keep it and to be a step of EventQueue at      *)
(* once.                                                                   *)
(***************************************************************************)
EXTENDS Devices, LinkedListProofs

\* A character typed after others.
LEMMA CharAppended ==
  ASSUME NEW C, NEW q \in Seq(C), NEW c \in C
  PROVE  /\ Append(q, c) \in Seq(C)
         /\ \A e : e \notin Range(Append(q, c)) => e \notin Range(q) /\ c # e
  <1>1. Append(q, c) \in Seq(C) /\ Len(q) \in Nat /\ Len(Append(q, c)) = Len(q) + 1
        /\ DOMAIN q = 1..Len(q) /\ DOMAIN Append(q, c) = 1..(Len(q) + 1)
    OBVIOUS
  <1>2. \A i \in 1..Len(q) : Append(q, c)[i] = q[i] /\ i \in 1..(Len(q) + 1)
    OBVIOUS
  <1>3. Append(q, c)[Len(q) + 1] = c /\ Len(q) + 1 \in 1..(Len(q) + 1)
    BY <1>1
  <1> QED
    BY <1>1, <1>2, <1>3, Zenon DEF Range

-----------------------------------------------------------------------------
(***************************************************************************)
(* The times of the disk                                                   *)
(***************************************************************************)

LEMMA Remainder ==
  ASSUME NEW a \in Int, NEW b \in Nat \ {0}
  PROVE  a % b \in 0..(b - 1) /\ a \div b \in Int /\ a = (a \div b) * b + (a % b)
  OBVIOUS

LEMMA Product == ASSUME NEW a \in Nat, NEW b \in Nat PROVE a * b \in Nat
  OBVIOUS

\* What Disk::TimeToSeek, ModuloDiff and ComputeLatency return.
LEMMA SeekTyped ==
  ASSUME now \in Nat, lastSector \in Nat, NEW n \in Nat
  PROVE  TimeToSeek(n).seek \in Nat /\ TimeToSeek(n).rotation \in 0..(RotationTime - 1)
         /\ (now + TimeToSeek(n).seek + TimeToSeek(n).rotation) % RotationTime = 0
  <1> DEFINE distance == Track(n) - Track(lastSector)
             far == IF distance < 0 THEN -distance ELSE distance
             seek == SeekTime * far
             over == (now + seek) % RotationTime
             rotation == IF over > 0 THEN RotationTime - over ELSE 0
  <1>1. SectorsPerTrack \in Nat \ {0} /\ SeekTime \in Nat /\ RotationTime \in Nat \ {0}
    BY DeviceAssumption
  <1>2. Track(n) \in Int /\ Track(lastSector) \in Int
    BY <1>1, Remainder DEF Track
  <1>3. far \in Nat
    BY <1>2
  <1>4. seek \in Nat
    BY <1>1, <1>3, Product
  <1>5. over \in 0..(RotationTime - 1) /\ now + seek = ((now + seek) \div RotationTime) * RotationTime + over
        /\ (now + seek) \div RotationTime \in Int
    <2> HIDE DEF seek
    <2>1. now + seek \in Int
      BY <1>4
    <2> QED
      BY <1>1, <2>1, Remainder, Zenon
  <1>6. TimeToSeek(n).seek = seek /\ TimeToSeek(n).rotation = rotation
    BY DEF TimeToSeek
  <1>7. rotation \in 0..(RotationTime - 1) /\ (now + seek + rotation) % RotationTime = 0
    <2> DEFINE q == (now + seek) \div RotationTime
    <2> HIDE DEF seek, over, q
    <2>1. over \in 0..(RotationTime - 1) /\ now + seek = q * RotationTime + over /\ q \in Int
      BY <1>5 DEF q
    <2>2. CASE over > 0
      <3>1. rotation = RotationTime - over /\ rotation \in 0..(RotationTime - 1)
        BY <1>1, <2>1, <2>2
      <3>2. now + seek + rotation = (q + 1) * RotationTime + 0
        BY <1>1, <1>4, <2>1, <3>1
      <3>3. ((q + 1) * RotationTime + 0) % RotationTime = 0
        BY <1>1, <2>1
      <3> QED
        BY <3>1, <3>2, <3>3
    <2>3. CASE over = 0
      <3>1. rotation = 0 /\ 0 \in 0..(RotationTime - 1)
        BY <1>1, <2>3
      <3>2. now + seek + rotation = q * RotationTime + 0
        BY <1>4, <2>1, <2>3, <3>1
      <3>3. (q * RotationTime + 0) % RotationTime = 0
        BY <1>1, <2>1
      <3> QED
        BY <3>1, <3>2, <3>3
    <2> QED
      BY <2>1, <2>2, <2>3
  <1> HIDE DEF seek, rotation
  <1> QED
    BY <1>4, <1>6, <1>7, Zenon

LEMMA ModuloTyped ==
  ASSUME NEW a \in Int, NEW b \in Int
  PROVE  ModuloDiff(a, b) \in Nat
  <1>1. SectorsPerTrack \in Nat \ {0}
    BY DeviceAssumption
  <1>2. ((a % SectorsPerTrack) - (b % SectorsPerTrack)) + SectorsPerTrack \in Int
    BY <1>1, Remainder
  <1> QED
    BY <1>1, <1>2, Remainder DEF ModuloDiff

LEMMA LatencyTyped ==
  ASSUME now \in Nat, lastSector \in Nat, NEW n \in Nat, NEW writing
  PROVE  ComputeLatency(n, writing) \in Nat \ {0}
  <1> DEFINE seek == TimeToSeek(n).seek
             rotation == TimeToSeek(n).rotation
             m == ModuloDiff(n, (now + seek + rotation) \div RotationTime)
  <1>1. RotationTime \in Nat \ {0}
    BY DeviceAssumption
  <1>2. seek \in Nat /\ rotation \in Nat
    BY <1>1, SeekTyped
  <1>3. (now + seek + rotation) \div RotationTime \in Int
    <2> HIDE DEF seek, rotation
    <2>1. now + seek + rotation \in Int
      BY <1>2
    <2> QED
      BY <1>1, <2>1, Remainder
  <1>4. m \in Nat
    <2>1. n \in Int
      OBVIOUS
    <2> HIDE DEF seek, rotation
    <2> QED
      BY <1>3, <2>1, ModuloTyped, Zenon
  <1>5. ComputeLatency(n, writing) = RotationTime
        \/ ComputeLatency(n, writing) = seek + rotation + m * RotationTime + RotationTime
    BY Zenon DEF ComputeLatency
  <1> HIDE DEF seek, rotation, m
  <1>6. m * RotationTime \in Nat
    BY <1>1, <1>4, Product
  <1> QED
    BY <1>1, <1>2, <1>5, <1>6

LEMMA Multiple ==
  ASSUME NEW q \in Int, NEW b \in Nat \ {0}, NEW r \in 0..(b - 1)
  PROVE  (q * b + r) % b = r /\ (q * b + r) \div b = q
  OBVIOUS

\* Rotating by ModuloDiff(a, b) sectors from b gets to the angle of a.
LEMMA ModuloWorks ==
  ASSUME NEW a \in Int, NEW b \in Int
  PROVE  (b + ModuloDiff(a, b)) % SectorsPerTrack = a % SectorsPerTrack
  <1> DEFINE S == SectorsPerTrack
             ra == a % S
             rb == b % S
             x == (ra - rb) + S
             m == x % S
  <1>1. S \in Nat \ {0}
    BY DeviceAssumption
  <1> HIDE DEF S
  <1>2. ra \in 0..(S - 1) /\ rb \in 0..(S - 1) /\ a \div S \in Int /\ b \div S \in Int
        /\ a = (a \div S) * S + ra /\ b = (b \div S) * S + rb
    BY <1>1, Remainder
  <1> HIDE DEF ra, rb
  <1>3. x \in Int
    BY <1>1, <1>2
  <1> HIDE DEF x
  <1>4. m \in 0..(S - 1) /\ x \div S \in Int /\ x = (x \div S) * S + m
    BY <1>1, <1>3, Remainder
  <1> HIDE DEF m
  <1> DEFINE q == (b \div S) + 1 - (x \div S)
  <1>5. b + m = q * S + ra
    <2>1. x = (ra - rb) + S
      BY DEF x
    <2> QED
      BY <1>1, <1>2, <1>4, <2>1
  <1>6. q \in Int
    BY <1>2, <1>4
  <1> HIDE DEF q
  <1>7. (q * S + ra) % S = ra
    BY <1>1, <1>2, <1>6, Multiple
  <1>8. ModuloDiff(a, b) = m
    BY Zenon DEF ModuloDiff, m, x, ra, rb, S
  <1> QED
    BY <1>5, <1>7, <1>8 DEF ra, S

LEMMA NextSector ==
  ASSUME NEW a \in Int, NEW b \in Int, a % SectorsPerTrack = b % SectorsPerTrack
  PROVE  (a + 1) % SectorsPerTrack = (b + 1) % SectorsPerTrack
  <1> DEFINE S == SectorsPerTrack
             r == a % S
             qa == a \div S
             qb == b \div S
  <1>1. S \in Nat \ {0}
    BY DeviceAssumption
  <1>2. r = b % S
    OBVIOUS
  <1> HIDE DEF S
  <1>3. r \in 0..(S - 1) /\ qa \in Int /\ qb \in Int /\ a = qa * S + r /\ b = qb * S + r
    BY <1>1, <1>2, Remainder
  <1> HIDE DEF r, qa, qb
  <1>4. CASE r + 1 < S
    <2>1. r + 1 \in 0..(S - 1) /\ a + 1 = qa * S + (r + 1) /\ b + 1 = qb * S + (r + 1)
      BY <1>1, <1>3, <1>4
    <2> DEFINE u == r + 1
    <2>2. u \in 0..(S - 1)
      BY <2>1, Zenon
    <2> HIDE DEF u
    <2>3. (qa * S + u) % S = u /\ (qb * S + u) % S = u
      BY <1>1, <1>3, <2>2, Multiple, Zenon
    <2>4. a + 1 = qa * S + u /\ b + 1 = qb * S + u
      BY <2>1, Zenon DEF u
    <2> QED
      BY <2>3, <2>4, Zenon DEF S
  <1>5. CASE r + 1 = S
    <2>1. 0 \in 0..(S - 1) /\ a + 1 = (qa + 1) * S + 0 /\ b + 1 = (qb + 1) * S + 0
          /\ qa + 1 \in Int /\ qb + 1 \in Int
      BY <1>1, <1>3, <1>5
    <2>2. ((qa + 1) * S + 0) % S = 0 /\ ((qb + 1) * S + 0) % S = 0
      BY <1>1, <2>1, Multiple
    <2> QED
      BY <2>1, <2>2 DEF S
  <1> QED
    BY <1>1, <1>3, <1>4, <1>5

\* A request that goes to the surface completes at the end of its sector.
LEMMA SurfaceWorks ==
  ASSUME NEW n \in Int, NEW t \in Int, NEW due,
         due = t * RotationTime + ModuloDiff(n, t) * RotationTime + RotationTime
  PROVE  /\ due % RotationTime = 0
         /\ (due \div RotationTime) % SectorsPerTrack = (n + 1) % SectorsPerTrack
  <1> DEFINE m == ModuloDiff(n, t)
             R == RotationTime
  <1>1. R \in Nat \ {0} /\ 0 \in 0..(R - 1)
    BY DeviceAssumption
  <1>2. m \in Nat /\ (t + m) % SectorsPerTrack = n % SectorsPerTrack
    BY ModuloTyped, ModuloWorks, Zenon
  <1>3. due = t * R + m * R + R
    BY Zenon
  <1> HIDE DEF m, R
  <1>4. due = (t + m + 1) * R + 0 /\ t + m + 1 \in Int
    BY <1>1, <1>2, <1>3
  <1>5. due % R = 0 /\ due \div R = t + m + 1
    <2> DEFINE u == t + m + 1
    <2> HIDE DEF u
    <2>1. due = u * R + 0 /\ u \in Int
      BY <1>4 DEF u
    <2>2. (u * R + 0) % R = 0 /\ (u * R + 0) \div R = u
      BY <1>1, <2>1, Multiple, Zenon
    <2> QED
      BY <2>1, <2>2 DEF u
  <1>6. (t + m + 1) % SectorsPerTrack = (n + 1) % SectorsPerTrack
    <2>1. t + m \in Int
      BY <1>2
    <2> QED
      BY <1>2, <2>1, NextSector
  <1> QED
    BY <1>5, <1>6 DEF R

\* Sector n passes under the head after the b-th boundary and before time due.
Passes(n, b, due) ==
  \E k \in 0..(due \div RotationTime) :
    /\ b * RotationTime <= k * RotationTime
    /\ (k + 1) * RotationTime <= due
    /\ k % SectorsPerTrack = n % SectorsPerTrack

\* A read served from the track buffer finds its sector there.
LEMMA BufferWorks ==
  ASSUME NEW n \in Int, NEW b \in Nat, NEW t \in Int, NEW time \in Nat,
         NEW r \in 0..(RotationTime - 1), time + r = t * RotationTime,
         t - b > ModuloDiff(n, b)
  PROVE  Passes(n, b, time + RotationTime)
  <1> DEFINE m == ModuloDiff(n, b)
             R == RotationTime
             k == b + m
             top == (time + R) \div R
  <1>1. R \in Nat \ {0}
    BY DeviceAssumption
  <1>2. m \in Nat /\ k % SectorsPerTrack = n % SectorsPerTrack
    BY ModuloTyped, ModuloWorks
  <1>3. k + 1 <= t /\ k \in Nat /\ b <= k
    <2>1. t - b > m
      OBVIOUS
    <2> HIDE DEF m
    <2> QED
      BY <1>2, <2>1
  <1>4. time + r = t * R /\ r \in 0..(R - 1)
    BY Zenon
  <1> HIDE DEF m, R, k
  <1>5. b * R <= k * R
    BY <1>1, <1>3
  <1>6. (k + 1) * R <= t * R
    <2> DEFINE u == k + 1
    <2>1. u \in Int /\ u <= t
      BY <1>3
    <2> HIDE DEF u
    <2>2. u * R <= t * R
      BY <1>1, <2>1
    <2> QED
      BY <2>2 DEF u
  <1>7. (k + 1) * R <= time + R /\ (k + 1) * R \in Nat
    BY <1>1, <1>3, <1>4, <1>6
  <1>8. k \in 0..top
    <2>1. time + R = top * R + ((time + R) % R) /\ (time + R) % R \in 0..(R - 1) /\ top \in Int
      <3>1. time + R \in Int
        BY <1>1
      <3> QED
        BY <1>1, <3>1, Remainder, Zenon
    <2> HIDE DEF top
    <2>2. (k + 1) * R < (top + 1) * R
      BY <1>1, <1>3, <1>7, <2>1
    <2>3. ~(top + 1 <= k)
      <3>1. SUFFICES ASSUME top + 1 <= k PROVE FALSE
        BY Zenon
      <3>2. (top + 1) * R <= (k + 1) * R
        BY <1>1, <1>3, <2>1, <3>1
      <3> QED
        BY <1>1, <1>3, <2>1, <2>2, <3>2
    <2> QED
      BY <1>3, <2>1, <2>3
  <1> QED
    BY <1>2, <1>5, <1>7, <1>8, Zenon DEF Passes, R, top

\* What the times of Disk::ReadRequest and WriteRequest mean: a request that goes to the
\* surface completes at the end of its sector, one served from the buffer after its sector
\* has passed, and the buffer starts to load at a sector boundary.
LatencyFacts(n, writing) ==
  /\ BufferInit(n) \in Nat /\ BufferInit(n) % RotationTime = 0
  /\ \/ ~writing /\ InTrackBuffer(n)
     \/ LET due == now + ComputeLatency(n, writing)
        IN  /\ due % RotationTime = 0
            /\ (due \div RotationTime) % SectorsPerTrack = (n + 1) % SectorsPerTrack
  /\ ~writing /\ InTrackBuffer(n) =>
       \E k \in 0..((now + ComputeLatency(n, writing)) \div RotationTime) :
         /\ BufferInit(n) <= k * RotationTime
         /\ (k + 1) * RotationTime <= now + ComputeLatency(n, writing)
         /\ k % SectorsPerTrack = n % SectorsPerTrack

LEMMA LatencyWorks ==
  ASSUME now \in Nat, lastSector \in Nat, bufferInit \in Nat, bufferInit % RotationTime = 0,
         NEW n \in Nat, NEW writing
  PROVE  LatencyFacts(n, writing)
  <1> DEFINE R == RotationTime
             seek == TimeToSeek(n).seek
             rotation == TimeToSeek(n).rotation
             t == (now + seek + rotation) \div R
             b == bufferInit \div R
             due == now + ComputeLatency(n, writing)
             buffered == ~writing /\ InTrackBuffer(n)
  <1>1. R \in Nat \ {0} /\ n \in Int
    BY DeviceAssumption
  <1>4. seek \in Nat /\ rotation \in 0..(R - 1) /\ (now + seek + rotation) % R = 0
    BY <1>1, SeekTyped, Zenon
  <1>5. t \in Int /\ now + seek + rotation = t * R
    <2> DEFINE u == now + seek + rotation
    <2>1. u \in Int
      BY <1>1, <1>4
    <2>2. u % R = 0
      BY <1>4, Zenon
    <2> HIDE DEF u
    <2>3. u \div R \in Int /\ u = (u \div R) * R + (u % R)
      BY <1>1, <2>1, Remainder, Zenon
    <2>4. u = (u \div R) * R
      BY <1>1, <2>2, <2>3
    <2> QED
      BY <2>3, <2>4, Zenon DEF u
  <1>6. b \in Nat /\ bufferInit = b * R
    <2>2. b \in Int /\ bufferInit = b * R + (bufferInit % R)
      BY <1>1, Remainder
    <2> QED
      BY <1>1, <2>2
  <1>7. BufferInit(n) \in Nat /\ BufferInit(n) % R = 0
    <2>1. BufferInit(n) = bufferInit \/ BufferInit(n) = now + seek + rotation
      BY Zenon DEF BufferInit
    <2>3. now + seek + rotation \in Nat
      BY <1>1, <1>4
    <2> QED
      BY <1>4, <2>1, <2>3, Zenon
  <1>8. ASSUME ~buffered
        PROVE  /\ due % R = 0
               /\ (due \div R) % SectorsPerTrack = (n + 1) % SectorsPerTrack
    <2> DEFINE m == ModuloDiff(n, t)
    <2>1. ComputeLatency(n, writing) = seek + rotation + m * R + R
      BY <1>8, Zenon DEF ComputeLatency
    <2>2. m \in Nat
      BY <1>1, <1>5, ModuloTyped, Zenon
    <2> HIDE DEF R, seek, rotation, t, m
    <2>3. m * R \in Nat
      BY <1>1, <2>2, Product
    <2>4. due = t * R + m * R + R
      <3>1. t * R \in Int
        BY <1>1, <1>5
      <3> QED
        <4>1. due = now + (seek + rotation + m * R + R)
          BY <2>1, Zenon
        <4> QED
          BY <1>1, <1>4, <1>5, <2>3, <3>1, <4>1
    <2>5. due = t * RotationTime + ModuloDiff(n, t) * RotationTime + RotationTime
      BY <2>4, Zenon DEF m, R
    <2> QED
      BY <1>1, <1>5, <2>5, SurfaceWorks, Zenon DEF R
  <1>9. ASSUME buffered
        PROVE  \E k \in 0..(due \div R) :
                 /\ BufferInit(n) <= k * R
                 /\ (k + 1) * R <= due
                 /\ k % SectorsPerTrack = n % SectorsPerTrack
    <2>1. seek = 0 /\ (now + rotation - bufferInit) \div R > ModuloDiff(n, b)
          /\ ComputeLatency(n, writing) = R
      BY <1>9, Zenon DEF InTrackBuffer, ComputeLatency
    <2>2. BufferInit(n) = bufferInit
      BY <2>1, Zenon DEF BufferInit
    <2> HIDE DEF R, seek, rotation, t, b
    <2>3. now + rotation = t * R
      BY <1>1, <1>4, <1>5, <2>1
    <2>4. (now + rotation - bufferInit) \div R = t - b
      <3>3. (t - b) * R = t * R - b * R
        BY <1>1, <1>5, <1>6
      <3>1. now + rotation - bufferInit = (t - b) * R + 0 /\ t - b \in Int /\ 0 \in 0..(R - 1)
        <4>1. now + rotation - bufferInit = t * R - b * R
          <5> DEFINE p == t * R
                     q == b * R
          <5>1. now + rotation = p /\ bufferInit = q /\ now \in Int /\ rotation \in Int
                /\ bufferInit \in Int
            BY <1>1, <1>4, <1>6, <2>3
          <5> HIDE DEF p, q
          <5>2. now + rotation - bufferInit = p - q
            BY <5>1
          <5> QED
            BY <5>2 DEF p, q
        <4>2. t * R - b * R \in Int
          BY <1>1, <1>5, <1>6
        <4> QED
          BY <1>1, <1>5, <1>6, <3>3, <4>1, <4>2
      <3>2. ((t - b) * R + 0) \div R = t - b
        BY <1>1, <3>1, Multiple, Zenon
      <3> QED
        BY <3>1, <3>2, Zenon
    <2>5. t - b > ModuloDiff(n, b)
      BY <2>1, <2>4, Zenon
    <2>6. PICK k \in 0..((now + R) \div R) :
            /\ b * R <= k * R /\ (k + 1) * R <= now + R
            /\ k % SectorsPerTrack = n % SectorsPerTrack
      <3>1. now + rotation = t * RotationTime /\ rotation \in 0..(RotationTime - 1)
        BY <1>4, <2>3, Zenon DEF R
      <3>2. Passes(n, b, now + RotationTime)
        BY <1>1, <1>5, <1>6, <2>5, <3>1, BufferWorks, Zenon
      <3> QED
        BY <3>2, Zenon DEF Passes, R
    <2>7. due = now + R
      BY <2>1, Zenon
    <2> QED
      BY <1>6, <2>2, <2>6, <2>7, Zenon
  <1> HIDE DEF buffered
  <1>10. buffered \/ ~buffered
    OBVIOUS
  <1> QED
    BY <1>7, <1>8, <1>9, <1>10, Zenon DEF LatencyFacts, buffered

-----------------------------------------------------------------------------
(***************************************************************************)
(* The pending interrupts                                                  *)
(***************************************************************************)

\* The interrupts on the list l, as the abstract queue sees them.
EventsOf(l) == {[kind |-> l.item[c], when |-> l.key[c]] : c \in Allocated(l)}

\* l is a sorted list of interrupts, one of each type.
PendingOK(l) ==
  /\ Good(l, MaxPending, IntTypes) /\ Sorted(l)
  /\ \A c, d \in Allocated(l) : l.item[c] = l.item[d] => c = d

Event(k, w) == [kind |-> k, when |-> w]

LEMMA PendingTyped ==
  ASSUME NEW l, PendingOK(l)
  PROVE  /\ Allocated(l) \subseteq 1..MaxPending /\ DOMAIN l.item = 1..MaxPending
         /\ \A c \in Allocated(l) : l.item[c] \in IntTypes /\ l.key[c] \in Int
         /\ \A e : e \in EventsOf(l) <=> \E c \in Allocated(l) : e = Event(l.item[c], l.key[c])
         /\ \A e \in EventsOf(l) : e.kind \in IntTypes /\ e.when \in Int
                                   /\ e = Event(e.kind, e.when)
         /\ \A e, f \in EventsOf(l) : e.kind = f.kind => e = f
  <1>1. l \in Lists(MaxPending, IntTypes)
    BY Zenon DEF PendingOK, Good
  <1>2. Allocated(l) \subseteq 1..MaxPending /\ DOMAIN l.item = 1..MaxPending
    BY <1>1, Zenon DEF Allocated, Lists
  <1>3. \A c \in Allocated(l) : l.item[c] \in IntTypes /\ l.key[c] \in Int
    BY <1>1, <1>2, Zenon DEF Allocated, Lists
  <1>4. \A e : e \in EventsOf(l) <=> \E c \in Allocated(l) : e = Event(l.item[c], l.key[c])
    BY Zenon DEF EventsOf, Event
  <1>5. \A k, w : Event(k, w).kind = k /\ Event(k, w).when = w
    BY DEF Event
  <1>6. \A e, f \in EventsOf(l) : e.kind = f.kind => e = f
    <2> TAKE e, f \in EventsOf(l)
    <2> HAVE e.kind = f.kind
    <2>1. PICK c \in Allocated(l) : e = Event(l.item[c], l.key[c])
      BY <1>4, Zenon
    <2>2. PICK d \in Allocated(l) : f = Event(l.item[d], l.key[d])
      BY <1>4, Zenon
    <2>3. l.item[c] = l.item[d]
      BY <1>5, <2>1, <2>2, Zenon
    <2>4. c = d
      BY <2>3, Zenon DEF PendingOK
    <2> QED
      BY <2>1, <2>2, <2>4, Zenon
  <1>7. \A e \in EventsOf(l) : e.kind \in IntTypes /\ e.when \in Int /\ e = Event(e.kind, e.when)
    <2> TAKE e \in EventsOf(l)
    <2>1. PICK c \in Allocated(l) : e = Event(l.item[c], l.key[c])
      BY <1>4, Zenon
    <2>2. e.kind = l.item[c] /\ e.when = l.key[c]
      BY <1>5, <2>1, Zenon
    <2> QED
      BY <1>3, <2>1, <2>2, Zenon
  <1> QED
    BY <1>2, <1>3, <1>4, <1>6, <1>7, Zenon

\* Interrupt::Schedule adds its interrupt to the ones that are pending.
LEMMA ScheduleWorks ==
  ASSUME NEW l, PendingOK(l), DOMAIN l.item \ Allocated(l) # {}, NEW k \in IntTypes, NEW w \in Int,
         \A e \in EventsOf(l) : e.kind # k
  PROVE  LET r == SortedInsert(l, k, w)
         IN  PendingOK(r) /\ EventsOf(r) = EventsOf(l) \cup {Event(k, w)}
  <1> DEFINE r == SortedInsert(l, k, w)
             c == Fresh(l)
  <1>1. MaxPending \in Nat /\ NIL \notin IntTypes
    BY ClockAssumption, DeviceAssumption, Zenon
  <1>2. Good(r, MaxPending, IntTypes) /\ Sorted(r) /\ Inserts(l, r, c, k, w)
    BY <1>1, SortedInsertWorks, Zenon DEF PendingOK
  <1>3. /\ Allocated(l) \subseteq 1..MaxPending /\ DOMAIN l.item = 1..MaxPending
        /\ \A d \in Allocated(l) : l.item[d] \in IntTypes
        /\ \A e : e \in EventsOf(l) <=> \E d \in Allocated(l) : e = Event(l.item[d], l.key[d])
    BY PendingTyped, Zenon
  <1>4. c \in 1..MaxPending /\ c \notin Allocated(l) /\ DOMAIN l.key = 1..MaxPending
    <2>1. l \in Lists(MaxPending, IntTypes)
      BY Zenon DEF Good, PendingOK
    <2> QED
      BY <1>1, <2>1, FreshIsFree, Zenon DEF Lists
  <1> HIDE DEF r, c
  <1>5. /\ Allocated(r) = Allocated(l) \cup {c} /\ r.item[c] = k /\ r.key[c] = w
        /\ \A d \in Allocated(l) : r.item[d] = l.item[d] /\ r.key[d] = l.key[d]
    <2>1. r.item = [l.item EXCEPT ![c] = k] /\ r.key = [l.key EXCEPT ![c] = w]
      BY <1>2, Zenon DEF Inserts, Fills
    <2>2. DOMAIN r.item = 1..MaxPending /\ r.item[c] = k /\ r.key[c] = w
          /\ \A d \in 1..MaxPending : d # c => r.item[d] = l.item[d] /\ r.key[d] = l.key[d]
      BY <1>3, <1>4, <2>1, Zenon
    <2>3. \A d : d \in Allocated(r) <=> d \in Allocated(l) \/ d = c
      BY <1>1, <1>3, <1>4, <2>2, Zenon DEF Allocated
    <2> QED
      BY <1>3, <1>4, <2>2, <2>3, Zenon
  <1>6. \A d \in Allocated(l) : l.item[d] # k
    <2>1. \A kk, ww : Event(kk, ww).kind = kk
      BY DEF Event
    <2> QED
      BY <1>3, <2>1, Zenon
  <1>7. \A d, f \in Allocated(r) : r.item[d] = r.item[f] => d = f
    BY <1>5, <1>6, Zenon DEF PendingOK
  <1>8. PendingOK(r)
    BY <1>2, <1>7, Zenon DEF PendingOK
  <1>9. \A e : e \in EventsOf(r) <=> \E d \in Allocated(r) : e = Event(r.item[d], r.key[d])
    BY Zenon DEF EventsOf, Event
  <1>10. \A e : e \in EventsOf(r) <=> e \in EventsOf(l) \/ e = Event(k, w)
    <2> TAKE e
    <2>1. e \in EventsOf(l) => e \in EventsOf(r)
      <3> HAVE e \in EventsOf(l)
      <3>1. PICK d \in Allocated(l) : e = Event(l.item[d], l.key[d])
        BY <1>3, Zenon
      <3>2. d \in Allocated(r) /\ e = Event(r.item[d], r.key[d])
        BY <1>5, <3>1, Zenon
      <3> QED
        BY <1>9, <3>2, Zenon
    <2>2. Event(k, w) \in EventsOf(r)
      BY <1>5, <1>9, Zenon
    <2>3. e \in EventsOf(r) => e \in EventsOf(l) \/ e = Event(k, w)
      <3> HAVE e \in EventsOf(r)
      <3>1. PICK d \in Allocated(r) : e = Event(r.item[d], r.key[d])
        BY <1>9, Zenon
      <3>2. CASE d = c
        BY <1>5, <3>1, <3>2, Zenon
      <3>3. CASE d \in Allocated(l)
        BY <1>3, <1>5, <3>1, <3>3, Zenon
      <3> QED
        BY <1>5, <3>2, <3>3, Zenon
    <2> QED
      BY <2>1, <2>2, <2>3, Zenon
  <1> QED
    BY <1>8, <1>10, Zenon DEF r

\* List::SortedRemove takes away the interrupt that is due first.
LEMMA TakeWorks ==
  ASSUME NEW l, PendingOK(l), ~IsEmpty(l)
  PROVE  LET r == SortedRemove(l)
             first == Event(FirstItem(l), FirstKey(l))
         IN  /\ PendingOK(r) /\ EventsOf(r) = EventsOf(l) \ {first}
             /\ DOMAIN r.item \ Allocated(r) # {}
             /\ first \in EventsOf(l) /\ \A e \in EventsOf(l) : FirstKey(l) <= e.when
  <1> DEFINE r == SortedRemove(l)
             c == l.first
             first == Event(FirstItem(l), FirstKey(l))
  <1>1. MaxPending \in Nat /\ NIL \notin IntTypes
    BY ClockAssumption, DeviceAssumption, Zenon
  <1>2. /\ Good(r, MaxPending, IntTypes) /\ Removes(l, r, MaxPending, IntTypes)
        /\ c \in Allocated(l) /\ Sorted(r)
    BY <1>1, SortedRemoveWorks, Zenon DEF PendingOK
  <1>3. /\ Allocated(l) \subseteq 1..MaxPending /\ l \in Lists(MaxPending, IntTypes)
        /\ \A e : e \in EventsOf(l) <=> \E d \in Allocated(l) : e = Event(l.item[d], l.key[d])
    BY PendingTyped, Zenon DEF PendingOK, Good
  <1>4. FirstItem(l) = l.item[c] /\ FirstKey(l) = l.key[c]
    BY Zenon DEF FirstItem, FirstKey
  <1> HIDE DEF r, c, first
  <1>5. /\ Allocated(r) = Allocated(l) \ {c}
        /\ \A d \in Allocated(r) : r.item[d] = l.item[d] /\ r.key[d] = l.key[d]
    BY <1>1, <1>2, <1>3, RemovedAllocated DEF c
  <1>6. \A d, f \in Allocated(r) : r.item[d] = r.item[f] => d = f
    BY <1>5, Zenon DEF PendingOK
  <1>7. PendingOK(r)
    BY <1>2, <1>6, Zenon DEF PendingOK
  <1>8. \A e : e \in EventsOf(r) <=> \E d \in Allocated(r) : e = Event(r.item[d], r.key[d])
    BY Zenon DEF EventsOf, Event
  <1>9. first = Event(l.item[c], l.key[c]) /\ first \in EventsOf(l)
    BY <1>2, <1>3, <1>4, Zenon DEF first
  <1>10. \A d \in Allocated(l) : Event(l.item[d], l.key[d]) = first => d = c
    <2>1. \A kk, ww : Event(kk, ww).kind = kk
      BY DEF Event
    <2> TAKE d \in Allocated(l)
    <2> HAVE Event(l.item[d], l.key[d]) = first
    <2>2. l.item[d] = l.item[c]
      BY <1>9, <2>1
    <2> QED
      BY <1>2, <2>2, Zenon DEF PendingOK
  <1>11. \A e : e \in EventsOf(r) <=> e \in EventsOf(l) /\ e # first
    <2> TAKE e
    <2>1. ASSUME e \in EventsOf(r) PROVE e \in EventsOf(l) /\ e # first
      <3>1. PICK d \in Allocated(r) : e = Event(r.item[d], r.key[d])
        BY <1>8, <2>1, Zenon
      <3>2. d \in Allocated(l) /\ d # c /\ e = Event(l.item[d], l.key[d])
        BY <1>5, <3>1, Zenon
      <3> QED
        BY <1>3, <1>10, <3>2, Zenon
    <2>2. ASSUME e \in EventsOf(l), e # first PROVE e \in EventsOf(r)
      <3>1. PICK d \in Allocated(l) : e = Event(l.item[d], l.key[d])
        BY <1>3, <2>2, Zenon
      <3>2. d # c
        BY <1>9, <2>2, <3>1, Zenon
      <3>3. d \in Allocated(r) /\ e = Event(r.item[d], r.key[d])
        BY <1>5, <3>1, <3>2, Zenon
      <3> QED
        BY <1>8, <3>3, Zenon
    <2> QED
      BY <2>1, <2>2, Zenon
  <1>12. DOMAIN r.item \ Allocated(r) # {}
    <2>1. DOMAIN r.item = 1..MaxPending
      BY <1>7, PendingTyped, Zenon
    <2> QED
      BY <1>2, <1>3, <1>5, <2>1, Zenon
  <1>13. \A e \in EventsOf(l) : FirstKey(l) <= e.when
    <2> TAKE e \in EventsOf(l)
    <2>1. PICK d \in Allocated(l) : e = Event(l.item[d], l.key[d])
      BY <1>3, Zenon
    <2>2. e.when = l.key[d]
      BY <2>1 DEF Event
    <2>3. FirstKey(l) <= l.key[d]
      BY <1>1, FirstLeast, Zenon DEF PendingOK
    <2> QED
      BY <2>2, <2>3, Zenon
  <1> QED
    BY <1>7, <1>9, <1>11, <1>12, <1>13, Zenon DEF r, first

\* The list is empty when no interrupt is pending.
LEMMA EmptyMeansNone ==
  ASSUME NEW l, PendingOK(l)
  PROVE  IsEmpty(l) <=> EventsOf(l) = {}
  <1>1. ~IsEmpty(l) => EventsOf(l) # {}
    BY TakeWorks, Zenon
  <1>2. IsEmpty(l) => Allocated(l) = {}
    <2>1. PICK cs : Chain(l, cs, Cardinality(Allocated(l)))
      BY ClockAssumption, WellLinkedHasChain, Zenon DEF PendingOK, Good
    <2> QED
      BY <2>1, ClockAssumption, FirstCell, Zenon DEF PendingOK, Good
  <1> QED
    BY <1>1, <1>2, Zenon DEF EventsOf

\* CheckIfDue that puts the first interrupt back leaves the same interrupts pending.
LEMMA PutBackWorks ==
  ASSUME NEW l, PendingOK(l)
  PROVE  PendingOK(PutBack(l)) /\ EventsOf(PutBack(l)) = EventsOf(l)
  <1>1. CASE IsEmpty(l)
    BY <1>1, Zenon DEF PutBack
  <1>2. CASE ~IsEmpty(l)
    <2> DEFINE r == SortedRemove(l)
               first == Event(FirstItem(l), FirstKey(l))
    <2>1. /\ PendingOK(r) /\ EventsOf(r) = EventsOf(l) \ {first}
          /\ DOMAIN r.item \ Allocated(r) # {} /\ first \in EventsOf(l)
      BY <1>2, TakeWorks, Zenon
    <2>2. FirstItem(l) \in IntTypes /\ FirstKey(l) \in Int
      <3>1. first.kind = FirstItem(l) /\ first.when = FirstKey(l)
        BY DEF Event
      <3>2. first.kind \in IntTypes /\ first.when \in Int
        BY <2>1, PendingTyped, Zenon
      <3> QED
        BY <3>1, <3>2, Zenon
    <2>3. \A e \in EventsOf(r) : e.kind # FirstItem(l)
      <3>1. first.kind = FirstItem(l)
        BY DEF Event
      <3>2. \A e, f \in EventsOf(l) : e.kind = f.kind => e = f
        BY PendingTyped, Zenon
      <3> HIDE DEF first, r
      <3> QED
        BY <2>1, <3>1, <3>2, Zenon
    <2>4. PutBack(l) = SortedInsert(r, FirstItem(l), FirstKey(l))
      BY <1>2, Zenon DEF PutBack
    <2> HIDE DEF r
    <2>5. PendingOK(PutBack(l)) /\ EventsOf(PutBack(l)) = EventsOf(r) \cup {first}
      BY <2>1, <2>2, <2>3, <2>4, ScheduleWorks
    <2> QED
      BY <2>1, <2>5, Zenon
  <1> QED
    BY <1>1, <1>2, Zenon

\* There is room for another interrupt when those pending are of two types.
LEMMA RoomLeft ==
  ASSUME NEW l, PendingOK(l), NEW a, NEW b, \A e \in EventsOf(l) : e.kind \in {a, b}
  PROVE  DOMAIN l.item \ Allocated(l) # {}
  <1>1. SUFFICES ASSUME DOMAIN l.item \ Allocated(l) = {} PROVE FALSE
    BY Zenon
  <1>2. /\ DOMAIN l.item = 1..MaxPending
        /\ \A e : e \in EventsOf(l) <=> \E d \in Allocated(l) : e = Event(l.item[d], l.key[d])
    BY PendingTyped, Zenon
  <1>3. 1 \in 1..MaxPending /\ 2 \in 1..MaxPending /\ 3 \in 1..MaxPending
    BY ClockAssumption
  <1>4. 1 \in Allocated(l) /\ 2 \in Allocated(l) /\ 3 \in Allocated(l)
    BY <1>1, <1>2, <1>3, Zenon
  <1>5. \A d \in Allocated(l) : l.item[d] \in {a, b}
    <2>1. \A kk, ww : Event(kk, ww).kind = kk
      BY DEF Event
    <2> QED
      BY <1>2, <2>1, Zenon
  <1>6. \A c, d \in Allocated(l) : l.item[c] = l.item[d] => c = d
    BY Zenon DEF PendingOK
  <1>7. l.item[1] # l.item[2] /\ l.item[1] # l.item[3] /\ l.item[2] # l.item[3]
    BY <1>4, <1>6
  <1> QED
    BY <1>4, <1>5, <1>7, Zenon

-----------------------------------------------------------------------------
(***************************************************************************)
(* The semaphore queues, on which only main ever waits                     *)
(***************************************************************************)

NoOne(z) == [NewList(1) EXCEPT !.size = z]
MainWaits(z) ==
  [first |-> 1, last |-> 1, size |-> z, next |-> [c \in 1..1 |-> NIL],
   key |-> [c \in 1..1 |-> 0], item |-> [c \in 1..1 |-> Main]]

\* The queue of a semaphore on which main waits or not.
QueueIs(q, waiting) ==
  \/ waiting /\ \E z \in Int : z <= 1 /\ q = MainWaits(z)
  \/ ~waiting /\ \E z \in Int : z <= 0 /\ q = NoOne(z)

LEMMA NilIsNot == NIL # 1 /\ NIL # Main /\ NIL \notin Nat
  BY ListAssumption, DeviceAssumption DEF Main

LEMMA OneCell ==
  ASSUME NEW a, NEW b
  PROVE  [[c \in 1..1 |-> a] EXCEPT ![1] = b] = [c \in 1..1 |-> b]
  <1>1. \A c \in 1..1 : c = 1
    OBVIOUS
  <1> QED
    BY <1>1, Zenon

LEMMA NoOneFields ==
  ASSUME NEW z
  PROVE  NoOne(z) = [first |-> NIL, last |-> NIL, size |-> z, next |-> [c \in 1..1 |-> NIL],
                     key |-> [c \in 1..1 |-> 0], item |-> [c \in 1..1 |-> NIL]]
  BY DEF NoOne, NewList

\* List::Append of main to the queue of a semaphore.
LEMMA QueueAppend ==
  ASSUME NEW q, QueueIs(q, FALSE)
  PROVE  QueueIs(ListAppend(q, Main), TRUE)
  <1>1. PICK z \in Int : z <= 0 /\ q = NoOne(z)
    BY Zenon DEF QueueIs
  <1>2. q = [first |-> NIL, last |-> NIL, size |-> z, next |-> [c \in 1..1 |-> NIL],
             key |-> [c \in 1..1 |-> 0], item |-> [c \in 1..1 |-> NIL]]
    BY <1>1, NoOneFields
  <1>3. Fresh(q) = 1
    <2>1. DOMAIN q.item \ Allocated(q) = {1}
      BY <1>2 DEF Allocated
    <2> QED
      BY <2>1 DEF Fresh, Min
  <1>4. IsEmpty(q)
    BY <1>2 DEF IsEmpty
  <1>5. ListAppend(q, Main) = Alone([WithElement(q, 1, Main, 0) EXCEPT !.size = @ + 1], 1)
    BY <1>3, <1>4, Zenon DEF ListAppend
  <1>6. ListAppend(q, Main) = MainWaits(z + 1)
    <2>1. WithElement(q, 1, Main, 0)
            = [first |-> NIL, last |-> NIL, size |-> z, next |-> [c \in 1..1 |-> NIL],
               key |-> [c \in 1..1 |-> 0], item |-> [c \in 1..1 |-> Main]]
      <3>2. [[c \in 1..1 |-> NIL] EXCEPT ![1] = NIL] = [c \in 1..1 |-> NIL]
            /\ [[c \in 1..1 |-> 0] EXCEPT ![1] = 0] = [c \in 1..1 |-> 0]
            /\ [[c \in 1..1 |-> NIL] EXCEPT ![1] = Main] = [c \in 1..1 |-> Main]
        BY OneCell, Zenon
      <3>3. WithElement(q, 1, Main, 0)
              = [first |-> NIL, last |-> NIL, size |-> z,
                 next |-> [[c \in 1..1 |-> NIL] EXCEPT ![1] = NIL],
                 key |-> [[c \in 1..1 |-> 0] EXCEPT ![1] = 0],
                 item |-> [[c \in 1..1 |-> NIL] EXCEPT ![1] = Main]]
        <4>1. WithElement(q, 1, Main, 0) = [q EXCEPT !.item[1] = Main, !.key[1] = 0, !.next[1] = NIL]
          BY Zenon DEF WithElement
        <4> QED
          BY <1>2, <4>1, Zenon
      <3> QED
        BY <3>2, <3>3, Zenon
    <2>2. [WithElement(q, 1, Main, 0) EXCEPT !.size = @ + 1]
            = [first |-> NIL, last |-> NIL, size |-> z + 1, next |-> [c \in 1..1 |-> NIL],
               key |-> [c \in 1..1 |-> 0], item |-> [c \in 1..1 |-> Main]]
      BY <2>1
    <2> QED
      BY <1>5, <2>2, Zenon DEF Alone, MainWaits
  <1>7. z + 1 \in Int /\ z + 1 <= 1
    BY <1>1
  <1> QED
    BY <1>6, <1>7, Zenon DEF QueueIs

\* List::Remove from the queue of a semaphore.
LEMMA QueueRemove ==
  ASSUME NEW q, NEW w \in BOOLEAN, QueueIs(q, w)
  PROVE  QueueIs(ListRemove(q), FALSE) /\ (~IsEmpty(q) <=> w)
  <1>1. CASE w
    <2>1. PICK z \in Int : z <= 1 /\ q = MainWaits(z)
      BY <1>1, Zenon DEF QueueIs
    <2>2. ~IsEmpty(q) /\ q.first = 1 /\ q.last = 1
      BY <2>1, NilIsNot DEF IsEmpty, MainWaits
    <2>3. SortedRemove(q) = [q EXCEPT !.first = NIL, !.last = NIL, !.item[1] = NIL,
                                      !.key[1] = 0, !.next[1] = NIL]
      BY <2>2, Zenon DEF SortedRemove
    <2>4. SortedRemove(q) = NoOne(z)
      <3>1. SortedRemove(q)
              = [first |-> NIL, last |-> NIL, size |-> z,
                 next |-> [[c \in 1..1 |-> NIL] EXCEPT ![1] = NIL],
                 key |-> [[c \in 1..1 |-> 0] EXCEPT ![1] = 0],
                 item |-> [[c \in 1..1 |-> Main] EXCEPT ![1] = NIL]]
        BY <2>1, <2>3, Zenon DEF MainWaits
      <3>2. [[c \in 1..1 |-> NIL] EXCEPT ![1] = NIL] = [c \in 1..1 |-> NIL]
            /\ [[c \in 1..1 |-> 0] EXCEPT ![1] = 0] = [c \in 1..1 |-> 0]
            /\ [[c \in 1..1 |-> Main] EXCEPT ![1] = NIL] = [c \in 1..1 |-> NIL]
        BY OneCell, Zenon
      <3> QED
        BY <3>1, <3>2, NoOneFields, Zenon
    <2>5. ListRemove(q) = NoOne(z - 1)
      BY <2>4, NoOneFields DEF ListRemove
    <2>6. z - 1 \in Int /\ z - 1 <= 0
      BY <2>1
    <2> QED
      BY <1>1, <2>2, <2>5, <2>6, Zenon DEF QueueIs
  <1>2. CASE ~w
    <2>1. PICK z \in Int : z <= 0 /\ q = NoOne(z)
      BY <1>2, Zenon DEF QueueIs
    <2>2. IsEmpty(q)
      BY <2>1, NoOneFields DEF IsEmpty
    <2>3. SortedRemove(q) = NoOne(z)
      BY <2>1, <2>2, Zenon DEF SortedRemove
    <2>4. ListRemove(q) = NoOne(z - 1)
      BY <2>3, NoOneFields DEF ListRemove
    <2>5. z - 1 \in Int /\ z - 1 <= 0
      BY <2>1
    <2> QED
      BY <1>2, <2>2, <2>4, <2>5, Zenon DEF QueueIs
  <1> QED
    BY <1>1, <1>2, Zenon

LEMMA QueueGood ==
  ASSUME NEW q, NEW w \in BOOLEAN, QueueIs(q, w)
  PROVE  WellLinked(q) /\ q.size <= Cardinality(Allocated(q))
  <1>1. CASE w
    <2>1. PICK z \in Int : z <= 1 /\ q = MainWaits(z)
      BY <1>1, Zenon DEF QueueIs
    <2>2. Allocated(q) = {1} /\ q.first = 1 /\ q.last = 1 /\ q.next[1] = NIL /\ q.size = z
      BY <2>1, NilIsNot DEF Allocated, MainWaits
    <2> DEFINE cs == [i \in 1..1 |-> 1]
    <2>3. Chain(q, cs, 1)
      BY <2>2 DEF Chain, Mapcar
    <2>4. Cardinality(Allocated(q)) = 1
      BY <2>2, FS_Singleton, Zenon
    <2> QED
      BY <2>1, <2>2, <2>3, <2>4, ChainIsWellLinked, Zenon
  <1>2. CASE ~w
    <2>1. PICK z \in Int : z <= 0 /\ q = NoOne(z)
      BY <1>2, Zenon DEF QueueIs
    <2>2. Allocated(q) = {} /\ q.first = NIL /\ q.last = NIL /\ q.size = z
      BY <2>1, NoOneFields DEF Allocated
    <2> DEFINE cs == [i \in 1..0 |-> 1]
    <2>3. Chain(q, cs, 0)
      BY <2>2 DEF Chain, Mapcar
    <2>4. Cardinality(Allocated(q)) = 0
      BY <2>2, FS_EmptySet, Zenon
    <2> QED
      BY <2>1, <2>2, <2>3, <2>4, ChainIsWellLinked, Zenon
  <1> QED
    BY <1>1, <1>2, Zenon

\* List::List
LEMMA NewLists ==
  /\ QueueIs(NewList(1), FALSE)
  /\ PendingOK(NewList(MaxPending)) /\ EventsOf(NewList(MaxPending)) = {}
  <1>1. NewList(1) = NoOne(0)
    BY DEF NoOne, NewList
  <1>2. QueueIs(NewList(1), FALSE)
    <2>1. 0 \in Int /\ 0 <= 0
      OBVIOUS
    <2> QED
      BY <1>1, <2>1, Zenon DEF QueueIs
  <1> DEFINE l == NewList(MaxPending)
             cs == [i \in 1..0 |-> 1]
  <1>3. MaxPending \in Nat
    BY ClockAssumption, Zenon
  <1>4. l \in Lists(MaxPending, IntTypes) /\ Allocated(l) = {}
    BY <1>3 DEF Lists, NewList, Allocated
  <1>5. l.first = NIL /\ l.last = NIL
    BY DEF NewList
  <1> HIDE DEF l
  <1>6. Chain(l, cs, 0)
    BY <1>4, <1>5 DEF Chain, Mapcar
  <1>7. PendingOK(l)
    BY <1>4, <1>6, ChainIsWellLinked, Zenon DEF PendingOK, Good, Sorted
  <1>8. EventsOf(l) = {}
    BY <1>4, Zenon DEF EventsOf
  <1> QED
    BY <1>2, <1>7, <1>8, Zenon DEF l

-----------------------------------------------------------------------------
(***************************************************************************)
(* The invariant of the machine                                            *)
(***************************************************************************)

\* The semaphore main is about to wait on, or waits on.
SemOf == [p \in {"read", "write", "io"} |->
            IF p = "read" THEN "readAvail" ELSE IF p = "write" THEN "writeDone" ELSE "synch disk"]

Asleep == cpu \in {"sleep", "idle"} /\ ~ready
WaitsOn(s) == Asleep /\ pc \in {"read", "write", "io"} /\ s = SemOf[pc]

Pends(kind) == \E e \in Events : e.kind = kind

\* What main is doing fits the workload, and it only sleeps in P or when it is gone.
MainOK ==
  /\ workload \in {"console", "disk"}
  /\ pc \in IF workload = "console" THEN {"start", "read", "echo", "write", "quit"}
                                    ELSE {"start", "user", "kernel", "io", "finished"}
  /\ cpu \in {"boot", "tick", "thread", "sleep", "idle", "resume", "halted"}
  /\ cpu \in {"sleep", "idle"} => pc \in {"read", "write", "io", "finished"}
  /\ ready => cpu \in {"sleep", "idle"}
  /\ HaltMeansDone

\* A device that is at work has its interrupt pending, and no other device has.
DevicesOK ==
  /\ lastSector \in Nat
  /\ cpu = "boot" => Events = {} /\ pc = "start"
  /\ Pends("DiskInt") <=> active
  /\ Pends("ConsoleWriteInt") <=> putBusy
  /\ Pends("ConsoleReadInt") <=> workload = "console" /\ pc # "start"

\* A semaphore has its unit from the interrupt until main takes it.
SemaphoresOK ==
  /\ value \in [Sems -> Nat]
  /\ active => pc = "io"
  /\ value["synch disk"] = IF pc = "io" /\ ~active THEN 1 ELSE 0
  /\ putBusy => pc = "write"
  /\ value["writeDone"] = IF pc = "write" /\ ~putBusy THEN 1 ELSE 0

\* Main is on the queue of the semaphore it waits on, which has no unit.
QueuesOK ==
  /\ queue = [s \in Sems |-> queue[s]]
  /\ \A s \in Sems : /\ WaitsOn(s) => QueueIs(queue[s], TRUE) /\ value[s] = 0
                     /\ ~WaitsOn(s) => QueueIs(queue[s], FALSE)

\* One character is in the buffer from the interrupt until main takes it.
KeyboardOK ==
  /\ typed \in Seq(Chars)
  /\ EOF \notin Range(typed) =>
       /\ value["readAvail"] = IF pc # "echo" /\ incoming # EOF THEN 1 ELSE 0
       /\ pc = "echo" => incoming # EOF
  /\ EchoInOrder

\* No pending interrupt is overdue, by more than a tick while a tick is going on.
TimesOK ==
  /\ now \in Nat
  /\ \A e \in Events :
       /\ cpu = "tick" => now <= e.when + SystemTick
       /\ cpu = "thread" => now < e.when
       /\ cpu \notin {"tick", "thread"} => now <= e.when

DevInv ==
  /\ PendingOK(pending) /\ TimesOK
  /\ MainOK /\ DevicesOK /\ SemaphoresOK /\ QueuesOK /\ KeyboardOK

-----------------------------------------------------------------------------
(***************************************************************************)
(* Steps of the clock.  Each keeps the list, the times and the promise of  *)
(* EventQueue, and changes the types that are pending in a known way.      *)
(***************************************************************************)

ClockOK == PendingOK(pending') /\ TimesOK' /\ Queue!EQNext

Same == \A k \in IntTypes : Pends(k)' <=> Pends(k)
More(type) == \A k \in IntTypes : Pends(k)' <=> Pends(k) \/ k = type
Less(type) == \A k \in IntTypes : Pends(k)' <=> Pends(k) /\ k # type

LEMMA EventsAre == Events = EventsOf(pending) /\ Events' = EventsOf(pending')
  BY Zenon DEF Events, EventsOf

LEMMA EventsTyped ==
  ASSUME PendingOK(pending)
  PROVE  \A e \in Events : e.kind \in IntTypes /\ e.when \in Int
  BY EventsAre, PendingTyped, Zenon

LEMMA Ticks == SystemTick \in Nat \ {0} /\ UserTick \in Nat \ {0} /\ UserTick <= SystemTick
               /\ \A mode : TickLength(mode) \in Nat /\ TickLength(mode) <= SystemTick
  BY ClockAssumption DEF TickLength

\* Time moves and no interrupt is scheduled or fired.
LEMMA TimePasses ==
  ASSUME PendingOK(pending), pending' = pending \/ pending' = PutBack(pending),
         now \in Nat, now' \in Nat, now <= now', \A e \in Events : now' <= e.when + SystemTick
  PROVE  PendingOK(pending') /\ Events' = Events /\ Same /\ Queue!EQNext
  <1>1. PendingOK(pending') /\ Events' = Events
    BY EventsAre, PutBackWorks, Zenon
  <1>2. Same
    BY <1>1, Zenon DEF Same, Pends
  <1>3. Queue!PassOrSchedule
    BY <1>1 DEF Queue!PassOrSchedule
  <1> QED
    BY <1>1, <1>2, <1>3, Zenon DEF Queue!EQNext

\* OneTick
LEMMA TickBegins ==
  ASSUME DevInv, cpu \in {"thread", "resume"}, NEW mode, BeginTick(mode), pending' = pending
  PROVE  ClockOK /\ Same
  <1>1. PendingOK(pending) /\ TimesOK
    BY Zenon DEF DevInv
  <1>2. now \in Nat /\ now' \in Nat /\ now <= now' /\ now' <= now + SystemTick /\ cpu' = "tick"
    BY <1>1, Ticks DEF BeginTick, TimesOK
  <1>3. \A e \in Events : e.when \in Int /\ now <= e.when
    BY <1>1, EventsTyped DEF TimesOK
  <1>4. \A e \in Events : now' <= e.when + SystemTick
    BY <1>2, <1>3, Ticks
  <1>5. PendingOK(pending') /\ Events' = Events /\ Same /\ Queue!EQNext
    BY <1>1, <1>2, <1>4, TimePasses, Zenon
  <1>6. TimesOK'
    BY <1>2, <1>4, <1>5 DEF TimesOK
  <1> QED
    BY <1>5, <1>6, Zenon DEF ClockOK

\* Steps that leave the clock alone.
LEMMA ClockStays ==
  ASSUME DevInv, pending' = pending, now' = now,
         cpu' = cpu \/ (cpu \in {"thread", "resume", "sleep"} /\ cpu' \in {"sleep", "resume", "halted"})
  PROVE  ClockOK /\ Same
  <1>1. PendingOK(pending) /\ TimesOK /\ now \in Nat
    BY Zenon DEF DevInv, TimesOK
  <1>2. \A e \in Events : e.when \in Int /\ now <= e.when + SystemTick
    BY <1>1, EventsTyped, Ticks DEF TimesOK
  <1>3. PendingOK(pending') /\ Events' = Events /\ Same /\ Queue!EQNext
    BY <1>1, <1>2, TimePasses
  <1>4. TimesOK'
    BY <1>1, <1>2, <1>3 DEF TimesOK
  <1> QED
    BY <1>3, <1>4, Zenon DEF ClockOK

\* CheckIfDue finds nothing to fire: nothing is due, or only the timer.
LEMMA NothingDue ==
  ASSUME PendingOK(pending), now \in Nat, ~Due
  PROVE  /\ Clock \in Nat /\ now <= Clock
         /\ cpu # "sleep" => Clock = now
         /\ (\A e \in Events : now <= e.when) => \A e \in Events : Clock <= e.when
         /\ \/ \A e \in Events : Clock < e.when
            \/ cpu # "tick" /\ \A e \in Events : e.kind = "TimerInt"
         /\ cpu = "sleep" => \A e \in Events : e.kind = "TimerInt"
  <1>1. CASE IsEmpty(pending)
    <2>1. Events = {}
      BY <1>1, EmptyMeansNone, EventsAre, Zenon
    <2>2. Clock = now
      BY <1>1, Zenon DEF Clock
    <2> QED
      BY <2>1, <2>2
  <1>2. CASE ~IsEmpty(pending)
    <2> DEFINE r == SortedRemove(pending)
               first == Event(FirstItem(pending), FirstKey(pending))
    <2>1. /\ PendingOK(r) /\ EventsOf(r) = Events \ {first}
          /\ first \in Events /\ \A e \in Events : FirstKey(pending) <= e.when
      BY <1>2, TakeWorks, EventsAre, Zenon
    <2>2. first.kind = FirstItem(pending) /\ first.when = FirstKey(pending)
      BY DEF Event
    <2> HIDE DEF first, r
    <2>3. \A e \in Events : e.when \in Int
      BY EventsTyped, Zenon
    <2>4. FirstKey(pending) \in Int
      BY <2>1, <2>2, <2>3, Zenon
    <2>5. Clock = IF cpu = "sleep" /\ FirstKey(pending) > now THEN FirstKey(pending) ELSE now
      <3>1. Max({now, FirstKey(pending)}) = IF FirstKey(pending) > now THEN FirstKey(pending) ELSE now
        BY <2>4 DEF Max
      <3> QED
        BY <1>2, <3>1, Zenon DEF Clock
    <2>6. OnlyTimer => \A e \in Events : e.kind = "TimerInt"
      <3> HAVE OnlyTimer
      <3>1. EventsOf(r) = {} /\ first.kind = "TimerInt"
        BY <2>1, <2>2, EmptyMeansNone, Zenon DEF OnlyTimer, r
      <3> QED
        BY <2>1, <3>1, Zenon
    <2>7. FirstKey(pending) > Clock \/ (cpu # "tick" /\ OnlyTimer)
      <3>1. ~(FirstKey(pending) <= Clock) \/ (cpu # "tick" /\ OnlyTimer)
        BY <1>2, Zenon DEF Due
      <3>2. Clock \in Int
        BY <2>4, <2>5
      <3> QED
        BY <2>4, <3>1, <3>2
    <2>8. Clock \in Nat /\ now <= Clock /\ (cpu # "sleep" => Clock = now)
          /\ (cpu = "sleep" => FirstKey(pending) <= Clock)
      BY <2>4, <2>5
    <2>9. (\A e \in Events : now <= e.when) => \A e \in Events : Clock <= e.when
      BY <2>1, <2>3, <2>4, <2>5
    <2>10. FirstKey(pending) > Clock => \A e \in Events : Clock < e.when
      BY <2>1, <2>3, <2>4, <2>8
    <2>11. cpu = "sleep" => OnlyTimer
      BY <2>4, <2>7, <2>8
    <2> QED
      BY <2>6, <2>7, <2>8, <2>9, <2>10, <2>11, Zenon
  <1> QED
    BY <1>1, <1>2, Zenon

LEMMA ClockStepClock ==
  ASSUME DevInv, ClockStep
  PROVE  ClockOK /\ Same
  <1>1. PendingOK(pending) /\ TimesOK /\ now \in Nat
    BY Zenon DEF DevInv, TimesOK
  <1>2. \A e \in Events : e.when \in Int
    BY <1>1, EventsTyped, Zenon
  <1>3. CASE TickReturns
    <2>1. cpu = "tick" /\ ~Due /\ pending' = PutBack(pending)
          /\ (\/ cpu' = "thread" /\ now' = now
              \/ cpu' = "tick" /\ now' = now + TickLength("SystemMode"))
      BY <1>3, Zenon DEF TickReturns
    <2>2. \A e \in Events : now < e.when
      BY <1>1, <2>1, NothingDue
    <2>3. now' \in Nat /\ now <= now' /\ now' <= now + SystemTick /\ (cpu' = "thread" => now' = now)
          /\ cpu' \in {"thread", "tick"}
      BY <1>1, <2>1, Ticks
    <2>4. \A e \in Events : now' <= e.when + SystemTick
      BY <1>1, <1>2, <2>2, <2>3, Ticks
    <2>5. PendingOK(pending') /\ Events' = Events /\ Same /\ Queue!EQNext
      BY <1>1, <2>1, <2>3, <2>4, TimePasses, Zenon
    <2>6. TimesOK'
      <3>1. \A e \in Events : cpu' = "thread" => now' < e.when
        BY <2>2, <2>3, Zenon
      <3> QED
        BY <2>3, <2>4, <2>5, <3>1, Zenon DEF TimesOK
    <2> QED
      BY <2>5, <2>6, Zenon DEF ClockOK
  <1>4. CASE IdleReturns
    <2>1. cpu = "idle" /\ cpu' = "sleep" /\ now' = now /\ pending' = PutBack(pending)
      BY <1>4, Zenon DEF IdleReturns
    <2>2. \A e \in Events : now <= e.when /\ now <= e.when + SystemTick
      BY <1>1, <1>2, <2>1, Ticks DEF TimesOK
    <2>3. PendingOK(pending') /\ Events' = Events /\ Same /\ Queue!EQNext
      BY <1>1, <2>1, <2>2, TimePasses
    <2>4. TimesOK'
      BY <1>1, <2>1, <2>2, <2>3 DEF TimesOK
    <2> QED
      BY <2>3, <2>4, Zenon DEF ClockOK
  <1>5. CASE IdleHalts
    <2>1. cpu = "sleep" /\ ~Due /\ cpu' = "halted" /\ now' = Clock /\ pending' = PutBack(pending)
      BY <1>5, Zenon DEF IdleHalts, Sleeping
    <2>2. \A e \in Events : now <= e.when
      BY <1>1, <2>1 DEF TimesOK
    <2>3. now' \in Nat /\ now <= now' /\ \A e \in Events : now' <= e.when
      BY <1>1, <2>1, <2>2, NothingDue, Zenon
    <2>4. \A e \in Events : now' <= e.when + SystemTick
      BY <1>2, <2>3, Ticks
    <2>5. PendingOK(pending') /\ Events' = Events /\ Same /\ Queue!EQNext
      BY <1>1, <2>1, <2>3, <2>4, TimePasses, Zenon
    <2>6. TimesOK'
      BY <2>1, <2>3, <2>5 DEF TimesOK
    <2> QED
      BY <2>5, <2>6, Zenon DEF ClockOK
  <1>6. CASE Dispatch
    BY <1>6, ClockStays, Zenon DEF Dispatch
  <1> QED
    BY <1>3, <1>4, <1>5, <1>6, Zenon DEF ClockStep

LEMMA EventFields == \A k, w : Event(k, w).kind = k /\ Event(k, w).when = w
  BY DEF Event

\* An interrupt is scheduled at a later time.
LEMMA Scheduled ==
  ASSUME DevInv, NEW type \in IntTypes, NEW d \in Nat \ {0},
         pending' = Schedule(pending, type, d, now),
         DOMAIN pending.item \ Allocated(pending) # {}, ~Pends(type),
         now' \in Nat, now <= now', \A e \in Events : now' <= e.when + SystemTick
  PROVE  /\ PendingOK(pending') /\ Events' = Events \cup {Event(type, now + d)}
         /\ More(type) /\ Queue!EQNext
  <1>1. PendingOK(pending) /\ now \in Nat
    BY Zenon DEF DevInv, TimesOK
  <1>2. \A e \in EventsOf(pending) : e.kind # type
    BY EventsAre, Zenon DEF Pends
  <1>3. now + d \in Int /\ now < now + d
    BY <1>1
  <1>4. PendingOK(pending') /\ Events' = Events \cup {Event(type, now + d)}
    BY <1>1, <1>2, <1>3, ScheduleWorks, EventsAre, Zenon DEF Schedule
  <1>5. More(type)
    <2> DEFINE f0 == Event(type, now + d)
    <2>1. f0.kind = type
      BY EventFields, Zenon
    <2> HIDE DEF f0
    <2>2. Events' = Events \cup {f0}
      BY <1>4, Zenon DEF f0
    <2> QED
      BY <2>1, <2>2, Zenon DEF More, Pends
  <1>6. Queue!PassOrSchedule
    <2>1. \A e \in Events' \ Events : e.when > now
      <3>1. Event(type, now + d).when > now
        BY <1>1, <1>3, EventFields
      <3> QED
        BY <1>4, <3>1, Zenon
    <2> QED
      BY <1>4, <2>1 DEF Queue!PassOrSchedule
  <1> QED
    BY <1>4, <1>5, <1>6, Zenon DEF Queue!EQNext

\* The thread that runs starts a device.
LEMMA DeviceStarts ==
  ASSUME DevInv, NEW type \in IntTypes, NEW d \in Nat \ {0}, cpu = "thread",
         pending' = Schedule(pending, type, d, now), now' = now, cpu' = cpu,
         NEW a, NEW b, \A k \in IntTypes : Pends(k) => k \in {a, b}, ~Pends(type)
  PROVE  ClockOK /\ More(type)
  <1>1. PendingOK(pending) /\ TimesOK /\ now \in Nat
    BY Zenon DEF DevInv, TimesOK
  <1>2. \A e \in Events : e.when \in Int /\ e.kind \in IntTypes
    BY <1>1, EventsTyped, Zenon
  <1>3. DOMAIN pending.item \ Allocated(pending) # {}
    <2>1. \A e \in EventsOf(pending) : e.kind \in {a, b}
      BY <1>2, EventsAre, Zenon DEF Pends
    <2> QED
      BY <1>1, <2>1, RoomLeft, Zenon
  <1>4. \A e \in Events : now < e.when /\ now <= e.when + SystemTick
    BY <1>1, <1>2, Ticks DEF TimesOK
  <1>5. now' \in Nat /\ now <= now' /\ \A e \in Events : now' <= e.when + SystemTick
    BY <1>1, <1>4
  <1>6. /\ PendingOK(pending') /\ Events' = Events \cup {Event(type, now + d)}
        /\ More(type) /\ Queue!EQNext
    BY <1>3, <1>5, Scheduled, Zenon
  <1>7. TimesOK'
    <2>1. Event(type, now + d).when = now + d
      BY EventFields, Zenon
    <2>2. \A e \in Events' : now < e.when
      BY <1>1, <1>4, <1>6, <2>1
    <2> QED
      BY <1>1, <2>2 DEF TimesOK
  <1> QED
    BY <1>6, <1>7, Zenon DEF ClockOK

LEMMA EnableClock ==
  ASSUME DevInv, Enable
  PROVE  ClockOK /\ \A k \in IntTypes \ {"TimerInt"} : Pends(k)' <=> Pends(k)
  <1>1. PendingOK(pending) /\ now \in Nat /\ Events = {} /\ cpu = "boot"
    BY Zenon DEF DevInv, TimesOK, DevicesOK, Enable
  <1>2. now' \in Nat /\ now <= now' /\ now' <= now + SystemTick /\ cpu' = "tick"
    BY <1>1, Ticks DEF Enable, BeginTick
  <1>3. \A e \in Events : now' <= e.when + SystemTick
    BY <1>1, Zenon
  <1>4. CASE pending' = pending
    <2>1. PendingOK(pending') /\ Events' = Events /\ Same /\ Queue!EQNext
      BY <1>1, <1>2, <1>3, <1>4, TimePasses, Zenon
    <2> QED
      BY <1>1, <1>2, <2>1 DEF ClockOK, TimesOK, Same
  <1>5. CASE pending' # pending
    <2>1. PICK d \in TimeOfNextInterrupt : pending' = Schedule(pending, "TimerInt", d, now)
      BY <1>5, Zenon DEF Enable
    <2>2. d \in Nat \ {0}
      BY DEF TimeOfNextInterrupt
    <2>3. DOMAIN pending.item \ Allocated(pending) # {}
      BY <1>1, RoomLeft, EventsAre, Zenon
    <2>4. "TimerInt" \in IntTypes /\ ~Pends("TimerInt")
      BY <1>1, Zenon DEF IntTypes, Pends
    <2>5. /\ PendingOK(pending') /\ Events' = Events \cup {Event("TimerInt", now + d)}
          /\ More("TimerInt") /\ Queue!EQNext
      BY <1>2, <1>3, <2>1, <2>2, <2>3, <2>4, Scheduled, Zenon
    <2>6. \A e \in Events' : now' <= e.when + SystemTick
      <3>1. Event("TimerInt", now + d).when = now + d
        BY EventFields, Zenon
      <3>2. now' <= (now + d) + SystemTick
        BY <1>1, <1>2, <2>2, Ticks
      <3> QED
        BY <1>1, <2>5, <3>1, <3>2, Zenon
    <2>7. TimesOK'
      BY <1>2, <2>6 DEF TimesOK
    <2> QED
      BY <2>5, <2>7, Zenon DEF ClockOK, More
  <1> QED
    BY <1>4, <1>5, Zenon

\* What CheckIfDue knows of the interrupt e0 that it fires.
FireFacts(e0, type) ==
  /\ PendingOK(SortedRemove(pending)) /\ EventsOf(SortedRemove(pending)) = Events \ {e0}
  /\ DOMAIN SortedRemove(pending).item \ Allocated(SortedRemove(pending)) # {}
  /\ e0 \in Events /\ e0.kind = type /\ \A e \in Events : e0.when <= e.when
  /\ Clock \in Nat /\ now <= Clock /\ e0.when <= Clock /\ Clock <= e0.when + SystemTick
  /\ \A e \in Events : cpu # "tick" => Clock <= e.when

LEMMA FireKnows ==
  ASSUME DevInv, NEW type, NEW left, Fire(type, left)
  PROVE  \E e0 : FireFacts(e0, type)
  <1> DEFINE r == SortedRemove(pending)
             first == Event(FirstItem(pending), FirstKey(pending))
  <1>1. PendingOK(pending) /\ TimesOK /\ now \in Nat /\ ~IsEmpty(pending)
        /\ FirstItem(pending) = type /\ FirstKey(pending) <= Clock
        /\ cpu \in {"tick", "idle", "sleep"}
    BY Zenon DEF DevInv, TimesOK, Fire, Due, Sleeping
  <1>2. /\ PendingOK(r) /\ EventsOf(r) = Events \ {first} /\ DOMAIN r.item \ Allocated(r) # {}
        /\ first \in Events /\ \A e \in Events : FirstKey(pending) <= e.when
    BY <1>1, TakeWorks, EventsAre, Zenon
  <1>3. first.kind = type /\ first.when = FirstKey(pending)
    BY <1>1, EventFields, Zenon
  <1> HIDE DEF r, first
  <1>4. \A e \in Events : e.when \in Int
    BY <1>1, EventsTyped, Zenon
  <1>5. FirstKey(pending) \in Int
    BY <1>2, <1>3, <1>4, Zenon
  <1>6. Clock = IF cpu = "sleep" /\ FirstKey(pending) > now THEN FirstKey(pending) ELSE now
    <2>1. Max({now, FirstKey(pending)}) = IF FirstKey(pending) > now THEN FirstKey(pending) ELSE now
      BY <1>1, <1>5 DEF Max
    <2> QED
      BY <1>1, <2>1, Zenon DEF Clock
  <1>7. Clock \in Nat /\ now <= Clock
    BY <1>1, <1>5, <1>6
  <1>8. Clock <= FirstKey(pending) + SystemTick
    <2>1. now <= FirstKey(pending) + SystemTick
      BY <1>1, <1>2, <1>3, <1>4, Ticks DEF TimesOK
    <2> QED
      BY <1>1, <1>5, <1>6, <2>1, Ticks
  <1>9. \A e \in Events : cpu # "tick" => Clock <= e.when
    <2>1. \A e \in Events : cpu # "tick" => now <= e.when
      BY <1>1 DEF TimesOK
    <2>2. Clock = now \/ Clock = FirstKey(pending)
      BY <1>6, Zenon
    <2> QED
      BY <1>2, <2>1, <2>2, Zenon
  <1>10. FireFacts(first, type)
    BY <1>1, <1>2, <1>3, <1>7, <1>8, <1>9, Zenon DEF FireFacts, r
  <1> QED
    BY <1>10, Zenon

\* An interrupt fires and its handler schedules no other.
LEMMA FiredOnce ==
  ASSUME DevInv, NEW type \in IntTypes, Fire(type, SortedRemove(pending))
  PROVE  ClockOK /\ Less(type) /\ Pends(type)
  <1>1. PICK e0 : FireFacts(e0, type)
    BY FireKnows, Zenon
  <1>2. PendingOK(pending) /\ now' = Clock /\ pending' = SortedRemove(pending)
        /\ cpu' = (IF cpu = "sleep" THEN "idle" ELSE cpu) /\ cpu \in {"tick", "idle", "sleep"}
    BY Zenon DEF DevInv, Fire, Sleeping
  <1>3. PendingOK(pending') /\ Events' = Events \ {e0}
    BY <1>1, <1>2, EventsAre, Zenon DEF FireFacts
  <1>4. Less(type) /\ Pends(type)
    <2>1. \A e \in Events : e.kind = type => e = e0
      BY <1>1, <1>2, EventsAre, PendingTyped, Zenon DEF FireFacts
    <2> QED
      BY <1>1, <1>3, <2>1, Zenon DEF Less, Pends, FireFacts
  <1>5. \A e \in Events : e.when \in Int
    BY <1>2, EventsTyped, Zenon
  <1>6. Queue!Happen
    <2>1. now' >= now /\ e0.when <= now' /\ now' <= e0.when + SystemTick
      BY <1>1, <1>2 DEF FireFacts, DevInv, TimesOK
    <2> QED
      BY <1>1, <1>3, <2>1, Zenon DEF Queue!Happen, FireFacts
  <1>7. TimesOK'
    BY <1>1, <1>2, <1>3, <1>5, Ticks DEF TimesOK, FireFacts
  <1> QED
    BY <1>3, <1>4, <1>6, <1>7, Zenon DEF ClockOK, Queue!EQNext

\* An interrupt fires and its handler schedules the next one of its type.
LEMMA FiredAgain ==
  ASSUME DevInv, NEW type \in IntTypes, NEW d \in Nat \ {0}, Fire(type, Again(type, d))
  PROVE  ClockOK /\ Same /\ Pends(type)
  <1>1. PICK e0 : FireFacts(e0, type)
    BY FireKnows, Zenon
  <1>2. PendingOK(pending) /\ now' = Clock /\ pending' = Again(type, d)
        /\ cpu' = (IF cpu = "sleep" THEN "idle" ELSE cpu) /\ cpu \in {"tick", "idle", "sleep"}
    BY Zenon DEF DevInv, Fire, Sleeping
  <1>3. \A e \in Events : e.kind = type => e = e0
    BY <1>1, <1>2, EventsAre, PendingTyped, Zenon DEF FireFacts
  <1> DEFINE f0 == Event(type, Clock + d)
  <1>4. f0.kind = type /\ f0.when = Clock + d
    BY EventFields, Zenon
  <1>5. Clock \in Nat /\ Clock + d \in Int /\ Clock < Clock + d
    BY <1>1 DEF FireFacts
  <1>6. PendingOK(pending') /\ Events' = (Events \ {e0}) \cup {f0}
    <2>1. \A e \in EventsOf(SortedRemove(pending)) : e.kind # type
      BY <1>1, <1>3, Zenon DEF FireFacts
    <2> DEFINE r == SortedRemove(pending)
    <2>2. PendingOK(r) /\ EventsOf(r) = Events \ {e0} /\ DOMAIN r.item \ Allocated(r) # {}
      BY <1>1, Zenon DEF FireFacts
    <2>3. pending' = SortedInsert(r, type, Clock + d)
      BY <1>2, Zenon DEF Again, Schedule
    <2> HIDE DEF r
    <2>4. PendingOK(pending') /\ EventsOf(pending') = EventsOf(r) \cup {Event(type, Clock + d)}
      BY <1>5, <2>1, <2>2, <2>3, ScheduleWorks, Zenon DEF r
    <2> QED
      BY <2>2, <2>4, EventsAre, Zenon
  <1> HIDE DEF f0
  <1>7. Same /\ Pends(type)
    BY <1>1, <1>3, <1>4, <1>6, Zenon DEF Same, Pends, FireFacts
  <1>8. \A e \in Events : e.when \in Int
    BY <1>2, EventsTyped, Zenon
  <1>9. Queue!Happen
    <2>1. now' >= now /\ e0.when <= now' /\ now' <= e0.when + SystemTick
      BY <1>1, <1>2 DEF FireFacts, DevInv, TimesOK
    <2>2. f0.when > now' /\ e0 # f0
      BY <1>1, <1>2, <1>4, <1>5, <1>8 DEF FireFacts
    <2> QED
      BY <1>1, <1>6, <2>1, <2>2, Zenon DEF Queue!Happen, FireFacts
  <1>10. TimesOK'
    <2>1. now' \in Nat /\ now' < f0.when
      BY <1>2, <1>4, <1>5
    <2>2. \A e \in Events : now' <= e.when + SystemTick /\ (cpu # "tick" => now' <= e.when)
      BY <1>1, <1>2, <1>8, Ticks DEF FireFacts
    <2>3. now' <= f0.when /\ now' <= f0.when + SystemTick
      BY <1>4, <1>5, <2>1, Ticks
    <2> QED
      <3> SUFFICES ASSUME NEW e \in Events'
                   PROVE  /\ cpu' = "tick" => now' <= e.when + SystemTick
                          /\ cpu' = "thread" => now' < e.when
                          /\ cpu' \notin {"tick", "thread"} => now' <= e.when
        BY <2>1, Zenon DEF TimesOK
      <3>1. CASE e = f0
        BY <2>1, <2>3, <3>1, Zenon
      <3>2. CASE e \in Events
        BY <1>2, <2>2, <3>2
      <3> QED
        BY <1>6, <3>1, <3>2, Zenon
  <1> QED
    BY <1>6, <1>7, <1>9, <1>10, Zenon DEF ClockOK, Queue!EQNext

-----------------------------------------------------------------------------
(***************************************************************************)
(* What a step leaves alone                                                *)
(***************************************************************************)

LEMMA DevicesStay ==
  ASSUME DevicesOK, \A k \in IntTypes \ {"TimerInt"} : Pends(k)' <=> Pends(k),
         UNCHANGED <<lastSector, workload, active, putBusy>>, cpu' # "boot",
         workload = "console" => (pc' = "start" <=> pc = "start")
  PROVE  DevicesOK'
  BY Zenon DEF DevicesOK, IntTypes

LEMMA SemaphoresStay ==
  ASSUME SemaphoresOK, UNCHANGED <<value, active, putBusy>>,
         pc' = "io" <=> pc = "io", pc' = "write" <=> pc = "write"
  PROVE  SemaphoresOK'
  BY Zenon DEF SemaphoresOK

LEMMA QueuesStay ==
  ASSUME QueuesOK, UNCHANGED queue, \A s \in Sems : WaitsOn(s)' <=> WaitsOn(s),
         value' = value \/ \A s \in Sems : ~WaitsOn(s)
  PROVE  QueuesOK'
  BY Zenon DEF QueuesOK

LEMMA KeyboardStays ==
  ASSUME KeyboardOK, UNCHANGED <<typed, incoming, shown>>, value'["readAvail"] = value["readAvail"],
         pc' = "echo" <=> pc = "echo"
  PROVE  KeyboardOK'
  BY Zenon DEF KeyboardOK, EchoInOrder

\* While main is awake it is on no queue.
LEMMA AwakeWaitsOnNothing ==
  /\ cpu \notin {"sleep", "idle"} \/ ready => \A s : ~WaitsOn(s)
  /\ cpu' \notin {"sleep", "idle"} \/ ready' => \A s : ~WaitsOn(s)'
  BY Zenon DEF WaitsOn, Asleep

-----------------------------------------------------------------------------
(***************************************************************************)
(* The actions                                                             *)
(***************************************************************************)

LEMMA EnableKeeps ==
  ASSUME DevInv, Enable
  PROVE  DevInv' /\ Queue!EQNext
  <1>1. MainOK /\ DevicesOK /\ SemaphoresOK /\ QueuesOK /\ KeyboardOK
    BY Zenon DEF DevInv
  <1>2. /\ UNCHANGED <<yieldOnReturn, ready, workload, timerOn, value, queue, pc,
                       incoming, putBusy, ch, typed, shown, active, lastSector, bufferInit, request>>
        /\ cpu = "boot" /\ cpu' = "tick"
    BY Zenon DEF Enable, BeginTick, consoleVars, diskVars
  <1>3. ClockOK /\ \A k \in IntTypes \ {"TimerInt"} : Pends(k)' <=> Pends(k)
    BY EnableClock, Zenon
  <1>4. MainOK'
    BY <1>1, <1>2 DEF MainOK, HaltMeansDone
  <1>5. DevicesOK'
    BY <1>1, <1>2, <1>3, DevicesStay
  <1>6. SemaphoresOK' /\ KeyboardOK'
    BY <1>1, <1>2, SemaphoresStay, KeyboardStays, Zenon
  <1>7. QueuesOK'
    BY <1>1, <1>2, QueuesStay, AwakeWaitsOnNothing
  <1> QED
    BY <1>3, <1>4, <1>5, <1>6, <1>7, Zenon DEF DevInv, ClockOK

LEMMA ClockStepKeeps ==
  ASSUME DevInv, ClockStep
  PROVE  DevInv' /\ Queue!EQNext
  <1>1. MainOK /\ DevicesOK /\ SemaphoresOK /\ QueuesOK /\ KeyboardOK
    BY Zenon DEF DevInv
  <1>2. UNCHANGED <<workload, timerOn, value, queue, pc, incoming, putBusy, ch, typed, shown,
                    active, lastSector, bufferInit, request>>
    BY Zenon DEF ClockStep, consoleVars, diskVars
  <1>3. ClockOK /\ Same
    BY ClockStepClock, Zenon
  <1>4. \/ cpu = "tick" /\ cpu' \in {"thread", "tick"} /\ ready' = ready
        \/ cpu = "idle" /\ cpu' = "sleep" /\ ready' = ready
        \/ cpu = "sleep" /\ ~ready /\ ~Due /\ cpu' = "halted" /\ ready' = ready
        \/ cpu = "sleep" /\ ready /\ cpu' = "resume" /\ ~ready'
    BY Zenon DEF ClockStep, TickReturns, IdleReturns, IdleHalts, Dispatch, Sleeping
  <1>5. cpu = "sleep" /\ ~ready /\ ~Due =>
          pc = "finished" /\ workload = "disk" /\ ~active /\ ~putBusy
    <2> HAVE cpu = "sleep" /\ ~ready /\ ~Due
    <2>1. \A e \in Events : e.kind = "TimerInt"
      <3>1. PendingOK(pending) /\ now \in Nat
        BY Zenon DEF DevInv, TimesOK
      <3> QED
        BY <3>1, NothingDue, Zenon
    <2>2. ~Pends("DiskInt") /\ ~Pends("ConsoleWriteInt") /\ ~Pends("ConsoleReadInt")
      BY <2>1 DEF Pends
    <2>3. ~active /\ ~putBusy /\ (workload # "console" \/ pc = "start")
      BY <1>1, <2>2, Zenon DEF DevicesOK
    <2>4. pc \in {"io", "finished"} /\ workload = "disk"
      BY <1>1, <2>3 DEF MainOK
    <2>5. pc # "io"
      <3>1. SUFFICES ASSUME pc = "io" PROVE FALSE
        BY Zenon
      <3>2. WaitsOn("synch disk") /\ "synch disk" \in Sems
        BY <3>1 DEF WaitsOn, Asleep, SemOf, Sems
      <3>3. value["synch disk"] = 0
        BY <1>1, <3>2, Zenon DEF QueuesOK
      <3>4. value["synch disk"] = 1
        BY <1>1, <2>3, <3>1, Zenon DEF SemaphoresOK
      <3>5. 0 # 1
        OBVIOUS
      <3> QED
        BY <3>3, <3>4, <3>5, Zenon
    <2> QED
      BY <2>3, <2>4, <2>5, Zenon
  <1>6. MainOK'
    BY <1>1, <1>2, <1>4, <1>5 DEF MainOK, HaltMeansDone
  <1>7. DevicesOK'
    <2>1. cpu' # "boot"
      BY <1>4
    <2> QED
      BY <1>1, <1>2, <1>3, <2>1, DevicesStay, Zenon DEF Same
  <1>8. SemaphoresOK' /\ KeyboardOK'
    BY <1>1, <1>2, SemaphoresStay, KeyboardStays, Zenon
  <1>9. QueuesOK'
    <2>1. \A s \in Sems : WaitsOn(s)' <=> WaitsOn(s)
      <3>1. CASE cpu = "tick" /\ cpu' \in {"thread", "tick"}
        BY <3>1, AwakeWaitsOnNothing
      <3>2. CASE cpu = "idle" /\ cpu' = "sleep" /\ ready' = ready
        BY <1>2, <3>2, Zenon DEF WaitsOn, Asleep
      <3>3. CASE cpu = "sleep" /\ ~ready /\ ~Due /\ cpu' = "halted"
        <4>1. \A s : ~WaitsOn(s)
          BY <1>5, <3>3 DEF WaitsOn
        <4> QED
          BY <3>3, <4>1, AwakeWaitsOnNothing
      <3>4. CASE ready /\ cpu' = "resume"
        BY <3>4, AwakeWaitsOnNothing
      <3> QED
        BY <1>4, <3>1, <3>2, <3>3, <3>4, Zenon
    <2> QED
      BY <1>1, <1>2, <2>1, QueuesStay, Zenon
  <1> QED
    BY <1>3, <1>6, <1>7, <1>8, <1>9, Zenon DEF DevInv, ClockOK

\* CheckIfDue fires the timer, or polls the keyboard and finds nothing to take.
LEMMA FireAgainKeeps ==
  ASSUME DevInv, NEW type \in IntTypes, NEW d \in Nat \ {0}, Fire(type, Again(type, d)),
         UNCHANGED <<ready, workload, value, queue, pc, incoming, putBusy, typed, shown,
                     active, lastSector>>
  PROVE  DevInv' /\ Queue!EQNext
  <1>1. MainOK /\ DevicesOK /\ SemaphoresOK /\ QueuesOK /\ KeyboardOK
    BY Zenon DEF DevInv
  <1>2. cpu \in {"tick", "idle", "sleep"} /\ cpu' = IF cpu = "sleep" THEN "idle" ELSE cpu
    BY Zenon DEF Fire, Sleeping
  <1>3. ClockOK /\ Same
    BY FiredAgain, Zenon
  <1>4. MainOK'
    BY <1>1, <1>2 DEF MainOK, HaltMeansDone
  <1>5. DevicesOK'
    <2>1. cpu' # "boot"
      BY <1>2
    <2> QED
      BY <1>1, <1>3, <2>1, DevicesStay, Zenon DEF Same
  <1>6. SemaphoresOK' /\ KeyboardOK'
    BY <1>1, SemaphoresStay, KeyboardStays, Zenon
  <1>7. QueuesOK'
    <2>1. cpu' \in {"sleep", "idle"} <=> cpu \in {"sleep", "idle"}
      BY <1>2
    <2>2. \A s \in Sems : WaitsOn(s)' <=> WaitsOn(s)
      BY <2>1, Zenon DEF WaitsOn, Asleep
    <2> QED
      BY <1>1, <2>2, QueuesStay, Zenon
  <1> QED
    BY <1>3, <1>4, <1>5, <1>6, <1>7, Zenon DEF DevInv, ClockOK

LEMMA Periods == /\ ConsoleTime \in Nat \ {0} /\ \A d \in TimeOfNextInterrupt : d \in Nat \ {0}
                 /\ "TimerInt" \in IntTypes /\ "DiskInt" \in IntTypes
                 /\ "ConsoleWriteInt" \in IntTypes /\ "ConsoleReadInt" \in IntTypes
  BY DeviceAssumption DEF TimeOfNextInterrupt, IntTypes

LEMMA TimerKeeps ==
  ASSUME DevInv, TimerExpired
  PROVE  DevInv' /\ Queue!EQNext
  <1>1. PICK d \in TimeOfNextInterrupt : Fire("TimerInt", Again("TimerInt", d))
    BY Zenon DEF TimerExpired
  <1>2. UNCHANGED <<ready, workload, value, queue, pc, incoming, putBusy, typed, shown,
                    active, lastSector>>
    BY Zenon DEF TimerExpired, consoleVars, diskVars
  <1> QED
    BY <1>1, <1>2, Periods, FireAgainKeeps, Zenon

LEMMA CheckCharNoneKeeps ==
  ASSUME DevInv, CheckCharNone
  PROVE  DevInv' /\ Queue!EQNext
  <1>1. Fire("ConsoleReadInt", Again("ConsoleReadInt", ConsoleTime))
    BY Zenon DEF CheckCharNone
  <1>2. UNCHANGED <<ready, workload, value, queue, pc, incoming, putBusy, typed, shown,
                    active, lastSector>>
    BY Zenon DEF CheckCharNone, consoleVars, diskVars
  <1> QED
    BY <1>1, <1>2, Periods, FireAgainKeeps, Zenon

\* Semaphore::V, called by a handler, wakes main if it waits.
LEMMA PostWorks ==
  ASSUME MainOK, SemaphoresOK, QueuesOK, NEW s \in Sems, Post(s), UNCHANGED <<workload, pc>>,
         cpu \in {"tick", "idle", "sleep"}, cpu' = IF cpu = "sleep" THEN "idle" ELSE cpu
  PROVE  /\ MainOK' /\ QueuesOK' /\ value' \in [Sems -> Nat]
         /\ value'[s] = value[s] + 1 /\ \A t \in Sems : t # s => value'[t] = value[t]
  <1>1. /\ value' = [value EXCEPT ![s] = @ + 1] /\ queue' = [queue EXCEPT ![s] = ListRemove(@)]
        /\ (ready' <=> ready \/ ~IsEmpty(queue[s]))
    BY Zenon DEF Post
  <1>2. QueueIs(ListRemove(queue[s]), FALSE) /\ (~IsEmpty(queue[s]) <=> WaitsOn(s))
    <2>1. CASE WaitsOn(s)
      <3>1. QueueIs(queue[s], TRUE)
        BY <2>1, Zenon DEF QueuesOK
      <3> QED
        BY <2>1, <3>1, QueueRemove, Zenon
    <2>2. CASE ~WaitsOn(s)
      <3>1. QueueIs(queue[s], FALSE)
        BY <2>2, Zenon DEF QueuesOK
      <3> QED
        BY <2>2, <3>1, QueueRemove, Zenon
    <2> QED
      BY <2>1, <2>2, Zenon
  <1>3. value \in [Sems -> Nat] /\ queue = [t \in Sems |-> queue[t]]
    BY Zenon DEF SemaphoresOK, QueuesOK
  <1>4. /\ value' \in [Sems -> Nat]
        /\ value'[s] = value[s] + 1 /\ \A t \in Sems : t # s => value'[t] = value[t]
    BY <1>1, <1>3
  <1>5. /\ queue' = [t \in Sems |-> queue'[t]] /\ queue'[s] = ListRemove(queue[s])
        /\ \A t \in Sems : t # s => queue'[t] = queue[t]
    BY <1>1, <1>3, Zenon
  <1>6. cpu' \in {"sleep", "idle"} <=> cpu \in {"sleep", "idle"}
    OBVIOUS
  <1>7. \A t \in Sems : WaitsOn(t)' <=> WaitsOn(t) /\ t # s
    BY <1>1, <1>2, <1>6, Zenon DEF WaitsOn, Asleep
  <1>8. QueuesOK'
    <2>1. \A t \in Sems : /\ WaitsOn(t)' => QueueIs(queue'[t], TRUE) /\ value'[t] = 0
                          /\ ~WaitsOn(t)' => QueueIs(queue'[t], FALSE)
      <3> TAKE t \in Sems
      <3>1. CASE t = s
        BY <1>2, <1>5, <1>7, <3>1, Zenon
      <3>2. CASE t # s
        BY <1>4, <1>5, <1>7, <3>2, Zenon DEF QueuesOK
      <3> QED
        BY <3>1, <3>2, Zenon
    <2> QED
      BY <1>5, <2>1, Zenon DEF QueuesOK
  <1>9. MainOK'
    <2>1. ready' => cpu' \in {"sleep", "idle"}
      BY <1>1, <1>2, <1>6, Zenon DEF WaitsOn, Asleep, MainOK
    <2>2. cpu' \in {"tick", "idle"}
      OBVIOUS
    <2> QED
      BY <1>6, <2>1, <2>2 DEF MainOK, HaltMeansDone
  <1> QED
    BY <1>4, <1>8, <1>9, Zenon

LEMMA SemNames == /\ "readAvail" \in Sems /\ "writeDone" \in Sems /\ "synch disk" \in Sems
                  /\ "readAvail" # "writeDone" /\ "readAvail" # "synch disk"
                  /\ "writeDone" # "synch disk"
  BY DEF Sems

LEMMA CheckCharAvailKeeps ==
  ASSUME DevInv, NEW c \in Chars, CheckCharAvail(c)
  PROVE  DevInv' /\ Queue!EQNext
  <1>1. MainOK /\ DevicesOK /\ SemaphoresOK /\ QueuesOK /\ KeyboardOK
    BY Zenon DEF DevInv
  <1>2. /\ Fire("ConsoleReadInt", Again("ConsoleReadInt", ConsoleTime)) /\ Post("readAvail")
        /\ incoming = EOF /\ incoming' = c /\ typed' = Append(typed, c)
        /\ UNCHANGED <<workload, pc, putBusy, shown, active, lastSector>>
    BY Zenon DEF CheckCharAvail, diskVars
  <1>3. cpu \in {"tick", "idle", "sleep"} /\ cpu' = IF cpu = "sleep" THEN "idle" ELSE cpu
    BY <1>2, Zenon DEF Fire, Sleeping
  <1>4. ClockOK /\ Same
    BY <1>2, Periods, FiredAgain, Zenon
  <1>5. /\ MainOK' /\ QueuesOK' /\ value' \in [Sems -> Nat]
        /\ value'["readAvail"] = value["readAvail"] + 1
        /\ \A t \in Sems : t # "readAvail" => value'[t] = value[t]
    BY <1>1, <1>2, <1>3, SemNames, PostWorks, Zenon
  <1>6. DevicesOK'
    <2>1. cpu' # "boot"
      BY <1>3
    <2> QED
      BY <1>1, <1>2, <1>4, <2>1, DevicesStay, Zenon DEF Same
  <1>7. SemaphoresOK'
    BY <1>1, <1>2, <1>5, SemNames, Zenon DEF SemaphoresOK
  <1>8. KeyboardOK'
    <2>1. typed \in Seq(Chars) /\ typed' \in Seq(Chars)
      BY <1>1, <1>2, CharAppended, Zenon DEF KeyboardOK
    <2>2. EOF \notin Range(typed') => EOF \notin Range(typed) /\ c # EOF
      BY <1>2, <2>1, CharAppended, Zenon
    <2>3. ASSUME EOF \notin Range(typed')
          PROVE  /\ value'["readAvail"] = 1 /\ pc # "echo" /\ c # EOF
                 /\ typed' = Append(shown, c)
      <3>1. value["readAvail"] = 0 /\ pc # "echo" /\ typed = shown
        BY <1>1, <1>2, <2>2, <2>3, Zenon DEF KeyboardOK, EchoInOrder
      <3>2. 0 + 1 = 1
        OBVIOUS
      <3> QED
        BY <1>2, <1>5, <2>2, <2>3, <3>1, <3>2, Zenon
    <2> QED
      BY <1>2, <2>1, <2>3, Zenon DEF KeyboardOK, EchoInOrder
  <1> QED
    BY <1>4, <1>5, <1>6, <1>7, <1>8, Zenon DEF DevInv, ClockOK

LEMMA WriteDoneKeeps ==
  ASSUME DevInv, WriteDone
  PROVE  DevInv' /\ Queue!EQNext
  <1>1. MainOK /\ DevicesOK /\ SemaphoresOK /\ QueuesOK /\ KeyboardOK
    BY Zenon DEF DevInv
  <1>2. /\ Fire("ConsoleWriteInt", SortedRemove(pending)) /\ Post("writeDone") /\ ~putBusy'
        /\ UNCHANGED <<workload, pc, incoming, typed, shown, active, lastSector>>
    BY Zenon DEF WriteDone, diskVars
  <1>3. cpu \in {"tick", "idle", "sleep"} /\ cpu' = IF cpu = "sleep" THEN "idle" ELSE cpu
    BY <1>2, Zenon DEF Fire, Sleeping
  <1>4. ClockOK /\ Less("ConsoleWriteInt") /\ Pends("ConsoleWriteInt")
    BY <1>2, Periods, FiredOnce, Zenon
  <1>5. /\ MainOK' /\ QueuesOK' /\ value' \in [Sems -> Nat]
        /\ value'["writeDone"] = value["writeDone"] + 1
        /\ \A t \in Sems : t # "writeDone" => value'[t] = value[t]
    BY <1>1, <1>2, <1>3, SemNames, PostWorks, Zenon
  <1>6. DevicesOK'
    <2>1. cpu' # "boot"
      BY <1>3
    <2>2. "DiskInt" # "ConsoleWriteInt" /\ "ConsoleReadInt" # "ConsoleWriteInt"
      OBVIOUS
    <2>3. /\ Pends("DiskInt")' <=> Pends("DiskInt")
          /\ Pends("ConsoleReadInt")' <=> Pends("ConsoleReadInt")
          /\ ~Pends("ConsoleWriteInt")'
      BY <1>4, <2>2, Periods, Zenon DEF Less
    <2> QED
      BY <1>1, <1>2, <2>1, <2>3, Zenon DEF DevicesOK
  <1>7. SemaphoresOK'
    <2>1. putBusy /\ pc = "write" /\ value["writeDone"] = 0
      BY <1>1, <1>4, Zenon DEF DevicesOK, SemaphoresOK
    <2>2. 0 + 1 = 1
      OBVIOUS
    <2> QED
      BY <1>1, <1>2, <1>5, <2>1, <2>2, SemNames, Zenon DEF SemaphoresOK
  <1>8. KeyboardOK'
    BY <1>1, <1>2, <1>5, SemNames, KeyboardStays, Zenon
  <1> QED
    BY <1>4, <1>5, <1>6, <1>7, <1>8, Zenon DEF DevInv, ClockOK

LEMMA DiskDoneKeeps ==
  ASSUME DevInv, DiskDone
  PROVE  DevInv' /\ Queue!EQNext
  <1>1. MainOK /\ DevicesOK /\ SemaphoresOK /\ QueuesOK /\ KeyboardOK
    BY Zenon DEF DevInv
  <1>2. /\ Fire("DiskInt", SortedRemove(pending)) /\ Post("synch disk") /\ ~active'
        /\ UNCHANGED <<workload, pc, incoming, putBusy, typed, shown, lastSector>>
    BY Zenon DEF DiskDone, consoleVars
  <1>3. cpu \in {"tick", "idle", "sleep"} /\ cpu' = IF cpu = "sleep" THEN "idle" ELSE cpu
    BY <1>2, Zenon DEF Fire, Sleeping
  <1>4. ClockOK /\ Less("DiskInt") /\ Pends("DiskInt")
    BY <1>2, Periods, FiredOnce, Zenon
  <1>5. /\ MainOK' /\ QueuesOK' /\ value' \in [Sems -> Nat]
        /\ value'["synch disk"] = value["synch disk"] + 1
        /\ \A t \in Sems : t # "synch disk" => value'[t] = value[t]
    BY <1>1, <1>2, <1>3, SemNames, PostWorks, Zenon
  <1>6. DevicesOK'
    <2>1. cpu' # "boot"
      BY <1>3
    <2>2. "ConsoleWriteInt" # "DiskInt" /\ "ConsoleReadInt" # "DiskInt"
      OBVIOUS
    <2>3. /\ Pends("ConsoleWriteInt")' <=> Pends("ConsoleWriteInt")
          /\ Pends("ConsoleReadInt")' <=> Pends("ConsoleReadInt")
          /\ ~Pends("DiskInt")'
      BY <1>4, <2>2, Periods, Zenon DEF Less
    <2> QED
      BY <1>1, <1>2, <2>1, <2>3, Zenon DEF DevicesOK
  <1>7. SemaphoresOK'
    <2>1. active /\ pc = "io" /\ value["synch disk"] = 0
      BY <1>1, <1>4, Zenon DEF DevicesOK, SemaphoresOK
    <2>2. 0 + 1 = 1
      OBVIOUS
    <2> QED
      BY <1>1, <1>2, <1>5, <2>1, <2>2, SemNames, Zenon DEF SemaphoresOK
  <1>8. KeyboardOK'
    BY <1>1, <1>2, <1>5, SemNames, KeyboardStays, Zenon
  <1> QED
    BY <1>4, <1>5, <1>6, <1>7, <1>8, Zenon DEF DevInv, ClockOK

\* Semaphore::P puts main on the queue and to sleep.
LEMMA PSleepKeeps ==
  ASSUME DevInv, pc \in {"read", "write", "io"}, NEW s, s = SemOf[pc], PSleep(s),
         UNCHANGED <<workload, pc, incoming, putBusy, typed, shown, active, lastSector>>
  PROVE  DevInv' /\ Queue!EQNext
  <1>1. MainOK /\ DevicesOK /\ SemaphoresOK /\ QueuesOK /\ KeyboardOK
    BY Zenon DEF DevInv
  <1>2. /\ cpu \in {"thread", "resume"} /\ value[s] = 0 /\ cpu' = "sleep"
        /\ queue' = [queue EXCEPT ![s] = ListAppend(@, Main)]
        /\ UNCHANGED <<now, pending, ready, value>>
    BY Zenon DEF PSleep
  <1>3. s \in Sems
    BY DEF SemOf, Sems
  <1>4. ClockOK /\ Same
    <2>1. cpu \in {"thread", "resume", "sleep"} /\ cpu' \in {"sleep", "resume", "halted"}
      BY <1>2, Zenon
    <2> QED
      BY <1>2, <2>1, ClockStays, Zenon
  <1>5. MainOK' /\ ~ready
    BY <1>1, <1>2 DEF MainOK, HaltMeansDone
  <1>6. DevicesOK'
    <2>1. cpu' # "boot"
      BY <1>2
    <2> QED
      BY <1>1, <1>4, <2>1, DevicesStay, Zenon DEF Same
  <1>7. SemaphoresOK' /\ KeyboardOK'
    BY <1>1, <1>2, SemaphoresStay, KeyboardStays, Zenon
  <1>8. QueuesOK'
    <2>1. \A t \in Sems : ~WaitsOn(t) /\ QueueIs(queue[t], FALSE)
      <3>1. \A t \in Sems : ~WaitsOn(t)
        BY <1>2, AwakeWaitsOnNothing
      <3> QED
        BY <1>1, <3>1, Zenon DEF QueuesOK
    <2>2. \A t : WaitsOn(t)' <=> t = s
      BY <1>2, <1>5, Zenon DEF WaitsOn, Asleep
    <2>3. /\ queue' = [t \in Sems |-> queue'[t]] /\ queue'[s] = ListAppend(queue[s], Main)
          /\ \A t \in Sems : t # s => queue'[t] = queue[t]
      <3>1. queue = [t \in Sems |-> queue[t]]
        BY <1>1, Zenon DEF QueuesOK
      <3> QED
        BY <1>2, <1>3, <3>1, Zenon
    <2>4. QueueIs(queue'[s], TRUE)
      BY <1>3, <2>1, <2>3, QueueAppend, Zenon
    <2> QED
      BY <1>2, <2>1, <2>2, <2>3, <2>4, Zenon DEF QueuesOK
  <1> QED
    BY <1>4, <1>5, <1>6, <1>7, <1>8, Zenon DEF DevInv, ClockOK

\* Semaphore::P takes the unit: the clock and the queues.
LEMMA PDoneWorks ==
  ASSUME DevInv, NEW s \in Sems, PDone(s)
  PROVE  /\ ClockOK /\ Same /\ QueuesOK' /\ cpu' = "tick" /\ ready' = ready /\ ~ready
         /\ value[s] > 0 /\ value' = [value EXCEPT ![s] = @ - 1]
         /\ value' \in [Sems -> Nat]
         /\ value'[s] = value[s] - 1 /\ \A t \in Sems : t # s => value'[t] = value[t]
  <1>1. MainOK /\ SemaphoresOK /\ QueuesOK
    BY Zenon DEF DevInv
  <1>2. /\ cpu \in {"thread", "resume"} /\ value[s] > 0 /\ value' = [value EXCEPT ![s] = @ - 1]
        /\ BeginTick(status) /\ cpu' = "tick" /\ UNCHANGED <<pending, ready, queue>>
    BY Zenon DEF PDone, BeginTick
  <1>3. ClockOK /\ Same
    BY <1>2, TickBegins, Zenon
  <1>4. \A t \in Sems : ~WaitsOn(t) /\ ~WaitsOn(t)'
    BY <1>2, AwakeWaitsOnNothing
  <1>5. QueuesOK'
    BY <1>1, <1>2, <1>4, QueuesStay, Zenon
  <1>6. value \in [Sems -> Nat]
    BY <1>1, Zenon DEF SemaphoresOK
  <1>7. /\ value' \in [Sems -> Nat]
        /\ value'[s] = value[s] - 1 /\ \A t \in Sems : t # s => value'[t] = value[t]
    BY <1>2, <1>6
  <1>8. ~ready
    BY <1>1, <1>2 DEF MainOK
  <1> QED
    BY <1>2, <1>3, <1>5, <1>7, <1>8, Zenon

LEMMA Units == 1 - 1 = 0 /\ ~(0 > 0) /\ 0 # 1
  OBVIOUS

LEMMA WaitCharKeeps ==
  ASSUME DevInv, WaitChar
  PROVE  DevInv' /\ Queue!EQNext
  <1>1. MainOK /\ DevicesOK /\ SemaphoresOK /\ QueuesOK /\ KeyboardOK
    BY Zenon DEF DevInv
  <1>2. pc = "read" /\ UNCHANGED <<workload, incoming, putBusy, typed, shown, active, lastSector>>
    BY Zenon DEF WaitChar, consoleVars, diskVars
  <1>3. CASE PSleep("readAvail") /\ UNCHANGED pc
    <2>1. pc \in {"read", "write", "io"} /\ "readAvail" = SemOf[pc]
      BY <1>2 DEF SemOf
    <2> QED
      BY <1>2, <1>3, <2>1, PSleepKeeps, Zenon
  <1>4. CASE PDone("readAvail") /\ pc' = "echo"
    <2>1. /\ ClockOK /\ Same /\ QueuesOK' /\ cpu' = "tick" /\ ready' = ready /\ ~ready
          /\ value["readAvail"] > 0 /\ value' \in [Sems -> Nat]
          /\ value'["readAvail"] = value["readAvail"] - 1
          /\ \A t \in Sems : t # "readAvail" => value'[t] = value[t]
      BY <1>4, SemNames, PDoneWorks, Zenon
    <2>2. MainOK'
      BY <1>1, <1>2, <1>4, <2>1 DEF MainOK, HaltMeansDone
    <2>3. DevicesOK'
      <3>1. cpu' # "boot" /\ (pc' = "start" <=> pc = "start")
        BY <1>2, <1>4, <2>1
      <3> QED
        BY <1>1, <1>2, <2>1, <3>1, DevicesStay, Zenon DEF Same
    <2>4. SemaphoresOK'
      BY <1>1, <1>2, <1>4, <2>1, SemNames DEF SemaphoresOK
    <2>5. KeyboardOK'
      <3>1. ASSUME EOF \notin Range(typed)
            PROVE  value'["readAvail"] = 0 /\ incoming # EOF
        <4>1. value["readAvail"] = 1 /\ incoming # EOF
          BY <1>1, <2>1, <3>1, Units, Zenon DEF KeyboardOK
        <4> QED
          BY <2>1, <4>1, Units, Zenon
      <3> QED
        BY <1>1, <1>2, <1>4, <3>1, Zenon DEF KeyboardOK, EchoInOrder
    <2> QED
      BY <2>1, <2>2, <2>3, <2>4, <2>5, Zenon DEF DevInv, ClockOK
  <1> QED
    BY <1>3, <1>4, Zenon DEF WaitChar

LEMMA WaitWrittenKeeps ==
  ASSUME DevInv, WaitWritten
  PROVE  DevInv' /\ Queue!EQNext
  <1>1. MainOK /\ DevicesOK /\ SemaphoresOK /\ QueuesOK /\ KeyboardOK
    BY Zenon DEF DevInv
  <1>2. pc = "write" /\ UNCHANGED <<workload, incoming, putBusy, typed, shown, active, lastSector>>
    BY Zenon DEF WaitWritten, consoleVars, diskVars
  <1>3. CASE PSleep("writeDone") /\ UNCHANGED pc
    <2>1. pc \in {"read", "write", "io"} /\ "writeDone" = SemOf[pc]
      BY <1>2 DEF SemOf
    <2> QED
      BY <1>2, <1>3, <2>1, PSleepKeeps, Zenon
  <1>4. CASE PDone("writeDone") /\ pc' \in {"quit", "read"}
    <2>1. /\ ClockOK /\ Same /\ QueuesOK' /\ cpu' = "tick" /\ ready' = ready /\ ~ready
          /\ value["writeDone"] > 0 /\ value' \in [Sems -> Nat]
          /\ value'["writeDone"] = value["writeDone"] - 1
          /\ \A t \in Sems : t # "writeDone" => value'[t] = value[t]
      BY <1>4, SemNames, PDoneWorks, Zenon
    <2>2. MainOK'
      BY <1>1, <1>2, <1>4, <2>1 DEF MainOK, HaltMeansDone
    <2>3. DevicesOK'
      <3>1. cpu' # "boot" /\ (pc' = "start" <=> pc = "start")
        BY <1>2, <1>4, <2>1
      <3> QED
        BY <1>1, <1>2, <2>1, <3>1, DevicesStay, Zenon DEF Same
    <2>4. SemaphoresOK'
      <3>1. value["writeDone"] = 1 /\ ~putBusy
        BY <1>1, <2>1, Units, Zenon DEF SemaphoresOK
      <3>2. value'["writeDone"] = 0
        BY <2>1, <3>1, Units, Zenon
      <3>3. pc' # "write" /\ pc' # "io" /\ pc # "io"
        BY <1>2, <1>4
      <3> QED
        BY <1>1, <1>2, <2>1, <3>1, <3>2, <3>3, SemNames, Zenon DEF SemaphoresOK
    <2>5. KeyboardOK'
      <3>1. pc' # "echo" /\ pc # "echo"
        BY <1>2, <1>4
      <3> QED
        BY <1>1, <1>2, <2>1, <3>1, SemNames, KeyboardStays, Zenon
    <2> QED
      BY <2>1, <2>2, <2>3, <2>4, <2>5, Zenon DEF DevInv, ClockOK
  <1> QED
    BY <1>3, <1>4, Zenon DEF WaitWritten

LEMMA WaitDiskKeeps ==
  ASSUME DevInv, WaitDisk
  PROVE  DevInv' /\ Queue!EQNext
  <1>1. MainOK /\ DevicesOK /\ SemaphoresOK /\ QueuesOK /\ KeyboardOK
    BY Zenon DEF DevInv
  <1>2. pc = "io" /\ UNCHANGED <<workload, incoming, putBusy, typed, shown, active, lastSector>>
    BY Zenon DEF WaitDisk, consoleVars, diskVars
  <1>3. CASE PSleep("synch disk") /\ UNCHANGED pc
    <2>1. pc \in {"read", "write", "io"} /\ "synch disk" = SemOf[pc]
      BY <1>2 DEF SemOf
    <2> QED
      BY <1>2, <1>3, <2>1, PSleepKeeps, Zenon
  <1>4. CASE PDone("synch disk") /\ pc' = "kernel"
    <2>1. /\ ClockOK /\ Same /\ QueuesOK' /\ cpu' = "tick" /\ ready' = ready /\ ~ready
          /\ value["synch disk"] > 0 /\ value' \in [Sems -> Nat]
          /\ value'["synch disk"] = value["synch disk"] - 1
          /\ \A t \in Sems : t # "synch disk" => value'[t] = value[t]
      BY <1>4, SemNames, PDoneWorks, Zenon
    <2>2. MainOK'
      BY <1>1, <1>2, <1>4, <2>1 DEF MainOK, HaltMeansDone
    <2>3. DevicesOK'
      <3>1. cpu' # "boot" /\ (pc' = "start" <=> pc = "start")
        BY <1>2, <1>4, <2>1
      <3> QED
        BY <1>1, <1>2, <2>1, <3>1, DevicesStay, Zenon DEF Same
    <2>4. SemaphoresOK'
      <3>1. value["synch disk"] = 1 /\ ~active
        BY <1>1, <2>1, Units, Zenon DEF SemaphoresOK
      <3>2. value'["synch disk"] = 0
        BY <2>1, <3>1, Units, Zenon
      <3>3. pc' # "write" /\ pc' # "io" /\ pc # "write"
        BY <1>2, <1>4
      <3> QED
        BY <1>1, <1>2, <2>1, <3>1, <3>2, <3>3, SemNames, Zenon DEF SemaphoresOK
    <2>5. KeyboardOK'
      <3>1. pc' # "echo" /\ pc # "echo"
        BY <1>2, <1>4
      <3> QED
        BY <1>1, <1>2, <2>1, <3>1, SemNames, KeyboardStays, Zenon
    <2> QED
      BY <2>1, <2>2, <2>3, <2>4, <2>5, Zenon DEF DevInv, ClockOK
  <1> QED
    BY <1>3, <1>4, Zenon DEF WaitDisk

LEMMA StartConsoleKeeps ==
  ASSUME DevInv, StartConsole
  PROVE  DevInv' /\ Queue!EQNext
  <1>1. MainOK /\ DevicesOK /\ SemaphoresOK /\ QueuesOK /\ KeyboardOK
    BY Zenon DEF DevInv
  <1>2. /\ cpu = "thread" /\ workload = "console" /\ pc = "start" /\ pc' = "read"
        /\ pending' = Schedule(pending, "ConsoleReadInt", ConsoleTime, now)
        /\ UNCHANGED <<now, cpu, ready, workload, value, queue, incoming, putBusy, typed, shown,
                       active, lastSector>>
    BY Zenon DEF StartConsole, consoleVars, diskVars
  <1>3. /\ ~Pends("ConsoleReadInt") /\ ~Pends("ConsoleWriteInt") /\ ~Pends("DiskInt")
    <2>1. ~putBusy /\ ~active
      BY <1>1, <1>2 DEF SemaphoresOK
    <2> QED
      BY <1>1, <1>2, <2>1, Zenon DEF DevicesOK
  <1>4. \A k \in IntTypes : Pends(k) => k \in {"TimerInt", "TimerInt"}
    BY <1>3, Zenon DEF IntTypes
  <1>5. ClockOK /\ More("ConsoleReadInt")
    BY <1>2, <1>3, <1>4, Periods, DeviceStarts, Zenon
  <1>6. MainOK'
    BY <1>1, <1>2 DEF MainOK, HaltMeansDone
  <1>7. DevicesOK'
    <2>1. cpu' # "boot" /\ pc' # "start" /\ "ConsoleWriteInt" # "ConsoleReadInt"
          /\ "DiskInt" # "ConsoleReadInt"
      BY <1>2
    <2>2. Pends("ConsoleReadInt")' /\ (Pends("ConsoleWriteInt")' <=> Pends("ConsoleWriteInt"))
          /\ (Pends("DiskInt")' <=> Pends("DiskInt"))
      BY <1>5, <2>1, Periods, Zenon DEF More
    <2> QED
      BY <1>1, <1>2, <2>1, <2>2, Zenon DEF DevicesOK
  <1>8. SemaphoresOK' /\ KeyboardOK'
    <2>1. pc' # "io" /\ pc # "io" /\ pc' # "write" /\ pc # "write" /\ pc' # "echo" /\ pc # "echo"
      BY <1>2
    <2> QED
      BY <1>1, <1>2, <2>1, SemaphoresStay, KeyboardStays, Zenon
  <1>9. QueuesOK'
    BY <1>1, <1>2, QueuesStay, AwakeWaitsOnNothing
  <1> QED
    BY <1>5, <1>6, <1>7, <1>8, <1>9, Zenon DEF DevInv, ClockOK

LEMMA EchoKeeps ==
  ASSUME DevInv, Echo
  PROVE  DevInv' /\ Queue!EQNext
  <1>1. MainOK /\ DevicesOK /\ SemaphoresOK /\ QueuesOK /\ KeyboardOK
    BY Zenon DEF DevInv
  <1>2. /\ cpu = "thread" /\ pc = "echo" /\ pc' = "write" /\ putBusy'
        /\ incoming' = EOF /\ shown' = Append(shown, incoming)
        /\ pending' = Schedule(pending, "ConsoleWriteInt", ConsoleTime, now)
        /\ UNCHANGED <<now, cpu, ready, workload, value, queue, typed, active, lastSector>>
    BY Zenon DEF Echo, diskVars
  <1>3. workload = "console" /\ ~putBusy /\ ~active
    BY <1>1, <1>2 DEF MainOK, SemaphoresOK
  <1>4. ~Pends("ConsoleWriteInt") /\ ~Pends("DiskInt")
    BY <1>1, <1>3, Zenon DEF DevicesOK
  <1>5. \A k \in IntTypes : Pends(k) => k \in {"TimerInt", "ConsoleReadInt"}
    BY <1>4, Zenon DEF IntTypes
  <1>6. ClockOK /\ More("ConsoleWriteInt")
    BY <1>2, <1>4, <1>5, Periods, DeviceStarts, Zenon
  <1>7. MainOK'
    BY <1>1, <1>2, <1>3 DEF MainOK, HaltMeansDone
  <1>8. DevicesOK'
    <2>1. cpu' # "boot" /\ pc' # "start" /\ pc # "start" /\ "ConsoleReadInt" # "ConsoleWriteInt"
          /\ "DiskInt" # "ConsoleWriteInt"
      BY <1>2
    <2>2. Pends("ConsoleWriteInt")' /\ (Pends("ConsoleReadInt")' <=> Pends("ConsoleReadInt"))
          /\ (Pends("DiskInt")' <=> Pends("DiskInt"))
      BY <1>6, <2>1, Periods, Zenon DEF More
    <2> QED
      BY <1>1, <1>2, <2>1, <2>2, Zenon DEF DevicesOK
  <1>9. SemaphoresOK'
    <2>1. pc' # "io" /\ pc # "io" /\ pc # "write"
      BY <1>2
    <2> QED
      BY <1>1, <1>2, <1>3, <2>1, Zenon DEF SemaphoresOK
  <1>10. KeyboardOK'
    <2>1. pc' # "echo"
      BY <1>2
    <2> QED
      BY <1>1, <1>2, <2>1, Zenon DEF KeyboardOK, EchoInOrder
  <1>11. QueuesOK'
    BY <1>1, <1>2, QueuesStay, AwakeWaitsOnNothing
  <1> QED
    BY <1>6, <1>7, <1>8, <1>9, <1>10, <1>11, Zenon DEF DevInv, ClockOK

LEMMA DiskRequestKeeps ==
  ASSUME DevInv, NEW n \in 0..(NumSectors - 1), NEW writing \in BOOLEAN, DiskRequest(n, writing)
  PROVE  DevInv' /\ Queue!EQNext
  <1>1. MainOK /\ DevicesOK /\ SemaphoresOK /\ QueuesOK /\ KeyboardOK /\ now \in Nat
    BY Zenon DEF DevInv, TimesOK
  <1> DEFINE ticks == ComputeLatency(n, writing)
  <1>2. /\ cpu = "thread" /\ workload = "disk" /\ pc = "kernel" /\ pc' = "io" /\ active'
        /\ lastSector' = n
        /\ pending' = Schedule(pending, "DiskInt", ticks, now)
        /\ UNCHANGED <<now, cpu, ready, workload, value, queue, incoming, putBusy, typed, shown>>
    BY Zenon DEF DiskRequest, consoleVars
  <1>3. n \in Nat
    BY DeviceAssumption DEF NumSectors
  <1>4. ticks \in Nat \ {0}
    BY <1>1, <1>3, LatencyTyped, Zenon DEF DevicesOK
  <1> HIDE DEF ticks
  <1>5. ~active /\ ~putBusy
    BY <1>1, <1>2 DEF SemaphoresOK
  <1>6. ~Pends("ConsoleReadInt") /\ ~Pends("ConsoleWriteInt") /\ ~Pends("DiskInt")
    <2>1. workload # "console"
      BY <1>2
    <2> QED
      BY <1>1, <1>5, <2>1, Zenon DEF DevicesOK
  <1>7. \A k \in IntTypes : Pends(k) => k \in {"TimerInt", "TimerInt"}
    BY <1>6, Zenon DEF IntTypes
  <1>8. ClockOK /\ More("DiskInt")
    BY <1>2, <1>4, <1>6, <1>7, Periods, DeviceStarts, Zenon
  <1>9. MainOK'
    BY <1>1, <1>2 DEF MainOK, HaltMeansDone
  <1>10. DevicesOK'
    <2>1. cpu' # "boot" /\ workload' # "console" /\ "ConsoleReadInt" # "DiskInt"
          /\ "ConsoleWriteInt" # "DiskInt"
      BY <1>2
    <2>2. Pends("DiskInt")' /\ ~Pends("ConsoleReadInt")' /\ ~Pends("ConsoleWriteInt")'
      BY <1>6, <1>8, <2>1, Periods, Zenon DEF More
    <2> QED
      BY <1>2, <1>3, <1>5, <2>1, <2>2, Zenon DEF DevicesOK
  <1>11. SemaphoresOK'
    <2>1. pc' # "write" /\ pc # "write" /\ pc # "io"
      BY <1>2
    <2> QED
      BY <1>1, <1>2, <1>5, <2>1, Zenon DEF SemaphoresOK
  <1>12. KeyboardOK'
    <2>1. pc' # "echo" /\ pc # "echo"
      BY <1>2
    <2> QED
      BY <1>1, <1>2, <2>1, KeyboardStays, Zenon
  <1>13. QueuesOK'
    BY <1>1, <1>2, QueuesStay, AwakeWaitsOnNothing
  <1> QED
    BY <1>8, <1>9, <1>10, <1>11, <1>12, <1>13, Zenon DEF DevInv, ClockOK

\* Main moves on without using a device.
LEMMA MovesOn ==
  ASSUME DevInv, cpu = "thread", ClockOK, Same,
         UNCHANGED <<ready, workload, value, queue, incoming, putBusy, typed, shown, active, lastSector>>,
         \/ pc' = pc /\ cpu' = "tick"
         \/ workload = "disk" /\ pc \in {"start", "kernel", "user"} /\ pc' \in {"user", "kernel"} /\ cpu' = cpu
         \/ pc = "kernel" /\ workload = "disk" /\ pc' = "finished" /\ cpu' = "sleep"
         \/ pc = "quit" /\ pc' = pc /\ cpu' = "halted"
  PROVE  DevInv' /\ Queue!EQNext
  <1>1. MainOK /\ DevicesOK /\ SemaphoresOK /\ QueuesOK /\ KeyboardOK
    BY Zenon DEF DevInv
  <1>2. /\ cpu' # "boot" /\ (workload = "console" => (pc' = "start" <=> pc = "start"))
        /\ (pc' = "io" <=> pc = "io") /\ (pc' = "write" <=> pc = "write")
        /\ (pc' = "echo" <=> pc = "echo")
    OBVIOUS
  <1>3. ~ready
    BY <1>1 DEF MainOK
  <1>4. pc = "quit" => ~active /\ ~putBusy /\ workload = "console"
    BY <1>1 DEF MainOK, SemaphoresOK
  <1>5. MainOK'
    BY <1>1, <1>3, <1>4 DEF MainOK, HaltMeansDone
  <1>6. DevicesOK'
    BY <1>1, <1>2, DevicesStay, Zenon DEF Same
  <1>7. SemaphoresOK' /\ KeyboardOK'
    BY <1>1, <1>2, SemaphoresStay, KeyboardStays, Zenon
  <1>8. QueuesOK'
    <2>1. \A s : ~WaitsOn(s)
      BY AwakeWaitsOnNothing
    <2>2. \A s : ~WaitsOn(s)'
      BY AwakeWaitsOnNothing DEF WaitsOn
    <2> QED
      BY <1>1, <2>1, <2>2, QueuesStay, Zenon
  <1> QED
    BY <1>5, <1>6, <1>7, <1>8, Zenon DEF DevInv, ClockOK

LEMMA QuitKeeps ==
  ASSUME DevInv, QuitHalts
  PROVE  DevInv' /\ Queue!EQNext
  <1>1. /\ cpu = "thread" /\ pc = "quit" /\ pc' = pc /\ cpu' = "halted"
        /\ UNCHANGED <<now, pending, ready, workload, value, queue, incoming, putBusy, typed, shown,
                       active, lastSector>>
    BY Zenon DEF QuitHalts, consoleVars, diskVars
  <1>2. ClockOK /\ Same
    BY <1>1, ClockStays, Zenon
  <1> QED
    BY <1>1, <1>2, MovesOn, Zenon

LEMMA ModeKeeps ==
  ASSUME DevInv, ToUser \/ RaiseException
  PROVE  DevInv' /\ Queue!EQNext
  <1>1. /\ cpu = "thread" /\ pc \in {"start", "kernel", "user"} /\ pc' \in {"user", "kernel"}
        /\ cpu' = cpu
        /\ UNCHANGED <<now, pending, ready, workload, value, queue, incoming, putBusy, typed, shown,
                       active, lastSector>>
    BY Zenon DEF ToUser, RaiseException, consoleVars, diskVars
  <1>2. workload = "disk"
    <2>1. pc = "user" \/ workload = "disk"
      BY Zenon DEF ToUser, RaiseException
    <2> QED
      BY <2>1 DEF DevInv, MainOK
  <1>3. ClockOK /\ Same
    BY <1>1, ClockStays, Zenon
  <1> QED
    BY <1>1, <1>2, <1>3, MovesOn, Zenon

LEMMA InstructionKeeps ==
  ASSUME DevInv, UserInstruction
  PROVE  DevInv' /\ Queue!EQNext
  <1>1. /\ cpu = "thread" /\ pc' = pc /\ BeginTick("UserMode") /\ cpu' = "tick"
        /\ UNCHANGED <<pending, ready, workload, value, queue, incoming, putBusy, typed, shown,
                       active, lastSector>>
    BY Zenon DEF UserInstruction, BeginTick, consoleVars, diskVars
  <1>2. ClockOK /\ Same
    BY <1>1, TickBegins, Zenon
  <1> QED
    BY <1>1, <1>2, MovesOn, Zenon

LEMMA ExitKeeps ==
  ASSUME DevInv, ProgramExits
  PROVE  DevInv' /\ Queue!EQNext
  <1>1. /\ cpu = "thread" /\ pc = "kernel" /\ workload = "disk" /\ pc' = "finished" /\ cpu' = "sleep"
        /\ UNCHANGED <<now, pending, ready, workload, value, queue, incoming, putBusy, typed, shown,
                       active, lastSector>>
    BY Zenon DEF ProgramExits, consoleVars, diskVars
  <1>2. ClockOK /\ Same
    BY <1>1, ClockStays, Zenon
  <1> QED
    BY <1>1, <1>2, MovesOn, Zenon

LEMMA NothingKeeps ==
  ASSUME DevInv, UNCHANGED devVars
  PROVE  DevInv' /\ UNCHANGED Queue!eqVars
  <1>1. UNCHANGED <<now, status, old, yieldOnReturn, pending, cpu, ready, workload, timerOn, value,
                    queue, pc, incoming, putBusy, ch, typed, shown, active, lastSector, bufferInit,
                    request>>
    BY Zenon DEF devVars, clockVars, consoleVars, diskVars
  <1>2. PendingOK(pending') /\ TimesOK' /\ Same /\ Events' = Events
    <2>1. ClockOK /\ Same
      BY <1>1, ClockStays, Zenon
    <2> QED
      BY <1>1, <2>1, Zenon DEF ClockOK, Events
  <1>3. MainOK'
    BY <1>1, Zenon DEF DevInv, MainOK, HaltMeansDone
  <1>4. DevicesOK'
    BY <1>1, <1>2, Zenon DEF DevInv, DevicesOK, Pends
  <1>5. SemaphoresOK' /\ KeyboardOK'
    BY <1>1, SemaphoresStay, KeyboardStays, Zenon DEF DevInv
  <1>6. QueuesOK'
    BY <1>1, QueuesStay, Zenon DEF DevInv, WaitsOn, Asleep
  <1> QED
    BY <1>1, <1>2, <1>3, <1>4, <1>5, <1>6, Zenon DEF DevInv, Queue!eqVars

LEMMA DevInvInit == DevInit => DevInv /\ Queue!EQInit
  <1> SUFFICES ASSUME DevInit PROVE DevInv /\ Queue!EQInit
    BY Zenon
  <1>1. /\ workload \in {"console", "disk"} /\ now = 0 /\ pending = NewList(MaxPending)
        /\ cpu = "boot" /\ ~ready /\ value = [s \in Sems |-> 0] /\ queue = [s \in Sems |-> NewList(1)]
        /\ pc = "start" /\ incoming = EOF /\ ~putBusy /\ typed = <<>> /\ shown = <<>>
        /\ ~active /\ lastSector = 0
    BY Zenon DEF DevInit
  <1>2. PendingOK(pending) /\ Events = {}
    BY <1>1, NewLists, EventsAre, Zenon
  <1>3. TimesOK
    BY <1>1, <1>2 DEF TimesOK
  <1>4. MainOK
    BY <1>1 DEF MainOK, HaltMeansDone
  <1>5. DevicesOK
    BY <1>1, <1>2 DEF DevicesOK, Pends
  <1>6. value \in [Sems -> Nat] /\ \A s \in Sems : value[s] = 0
    BY <1>1
  <1>7. SemaphoresOK
    BY <1>1, <1>6, SemNames DEF SemaphoresOK
  <1>8. QueuesOK
    <2>1. \A s \in Sems : ~WaitsOn(s)
      BY <1>1 DEF WaitsOn, Asleep
    <2> QED
      BY <1>1, <2>1, NewLists, Zenon DEF QueuesOK
  <1>9. KeyboardOK
    <2>1. typed \in Seq(Chars) /\ pc # "echo"
      BY <1>1
    <2> QED
      BY <1>1, <1>6, <2>1, SemNames, Zenon DEF KeyboardOK, EchoInOrder
  <1>10. Queue!EQInit
    BY <1>1, <1>2, Zenon DEF Queue!EQInit
  <1> QED
    BY <1>2, <1>3, <1>4, <1>5, <1>7, <1>8, <1>9, <1>10, Zenon DEF DevInv

LEMMA DevInvStep == DevInv /\ [DevNext]_devVars => DevInv' /\ [Queue!EQNext]_(Queue!eqVars)
  <1> SUFFICES ASSUME DevInv, [DevNext]_devVars
               PROVE  DevInv' /\ (Queue!EQNext \/ UNCHANGED Queue!eqVars)
    BY Zenon
  <1>1. CASE Enable
    BY <1>1, EnableKeeps, Zenon
  <1>2. CASE ClockStep
    BY <1>2, ClockStepKeeps, Zenon
  <1>3. CASE TimerExpired
    BY <1>3, TimerKeeps, Zenon
  <1>4. CASE StartConsole \/ WaitChar \/ Echo \/ WaitWritten \/ QuitHalts
    BY <1>4, StartConsoleKeeps, WaitCharKeeps, EchoKeeps, WaitWrittenKeeps, QuitKeeps, Zenon
  <1>5. CASE \E c \in Chars : CheckCharAvail(c)
    BY <1>5, CheckCharAvailKeeps, Zenon
  <1>6. CASE CheckCharNone \/ WriteDone
    BY <1>6, CheckCharNoneKeeps, WriteDoneKeeps, Zenon
  <1>7. CASE \E s \in 0..(NumSectors - 1), writing \in BOOLEAN : DiskRequest(s, writing)
    BY <1>7, DiskRequestKeeps, Zenon
  <1>8. CASE DiskDone \/ WaitDisk
    BY <1>8, DiskDoneKeeps, WaitDiskKeeps, Zenon
  <1>9. CASE ToUser \/ UserInstruction \/ RaiseException \/ ProgramExits
    BY <1>9, ModeKeeps, InstructionKeeps, ExitKeeps, Zenon
  <1>10. CASE Horizon \/ Halted \/ UNCHANGED devVars
    BY <1>10, NothingKeeps, Zenon DEF Horizon, Halted
  <1> QED
    BY <1>1, <1>2, <1>3, <1>4, <1>5, <1>6, <1>7, <1>8, <1>9, <1>10, Zenon DEF DevNext

\* The list of pending interrupts and the queues of the semaphores stay lists whatever
\* List::SortedInsert, SortedRemove, Append and Remove do to their cells, Idle stops the
\* machine only when nothing can happen any more, and ConsoleTest echoes what is typed:
\* for all times, all sizes of the disk and all characters.
THEOREM DevicesCorrect == DevSpec => [](ListsOK /\ HaltMeansDone /\ EchoInOrder)
  <1>1. DevSpec => []DevInv
    <2>1. DevInit => DevInv
      BY DevInvInit, Zenon
    <2>2. DevInv /\ [DevNext]_devVars => DevInv'
      BY DevInvStep, Zenon
    <2> QED
      BY <2>1, <2>2, PTL DEF DevSpec
  <1>2. DevInv => ListsOK /\ HaltMeansDone /\ EchoInOrder
    <2> HAVE DevInv
    <2>1. WellLinked(pending) /\ Sorted(pending)
          /\ \A c, d \in Allocated(pending) : pending.item[c] = pending.item[d] => c = d
      BY Zenon DEF DevInv, PendingOK, Good
    <2>2. \A s \in Sems : WellLinked(queue[s]) /\ queue[s].size <= Cardinality(Allocated(queue[s]))
      <3> TAKE s \in Sems
      <3>1. QueueIs(queue[s], TRUE) \/ QueueIs(queue[s], FALSE)
        BY Zenon DEF DevInv, QueuesOK
      <3> QED
        BY <3>1, QueueGood, Zenon
    <2> QED
      BY <2>1, <2>2, Zenon DEF ListsOK, DevInv, MainOK, KeyboardOK
  <1> QED
    BY <1>1, <1>2, PTL

\* Interrupt implements EventQueue: no interrupt is lost, doubled, early, out of order or late
\* by more than one tick of the kernel, for all times.
THEOREM InterruptsAreInTime == DevSpec => InterruptsInTime
  <1>1. DevInit => DevInv /\ Queue!EQInit
    BY DevInvInit, Zenon
  <1>2. DevInv /\ [DevNext]_devVars => DevInv' /\ [Queue!EQNext]_(Queue!eqVars)
    BY DevInvStep, Zenon
  <1> QED
    BY <1>1, <1>2, PTL DEF DevSpec, InterruptsInTime, Queue!EQSpec

-----------------------------------------------------------------------------
(***************************************************************************)
(* The sectors under the head                                              *)
(***************************************************************************)

\* The buffer started to load at a sector boundary.
DiskOK == bufferInit \in Nat /\ bufferInit % RotationTime = 0 /\ SectorPassed

LEMMA DiskRequestSector ==
  ASSUME DevInv, DiskOK, NEW n \in 0..(NumSectors - 1), NEW writing \in BOOLEAN,
         DiskRequest(n, writing)
  PROVE  DiskOK'
  <1> DEFINE buffered == ~writing /\ InTrackBuffer(n)
  <1>1. n \in Nat
    BY DeviceAssumption DEF NumSectors
  <1>2. LatencyFacts(n, writing)
    BY <1>1, LatencyWorks, Zenon DEF DevInv, TimesOK, DevicesOK, DiskOK
  <1>3. /\ bufferInit' = BufferInit(n)
        /\ request' = [sector |-> n, due |-> now + ComputeLatency(n, writing), buffered |-> buffered]
    BY Zenon DEF DiskRequest
  <1>4. request'.sector = n /\ request'.due = now + ComputeLatency(n, writing)
        /\ (request'.buffered <=> buffered)
    <2> HIDE DEF buffered
    <2>1. request'.buffered = buffered
      BY <1>3
    <2>2. request'.sector = n /\ request'.due = now + ComputeLatency(n, writing)
      BY <1>3
    <2> QED
      BY <2>1, <2>2, Zenon
  <1>5. SectorPassed'
    BY <1>2, <1>3, <1>4, Zenon DEF SectorPassed, LatencyFacts
  <1> QED
    BY <1>2, <1>3, <1>5, Zenon DEF DiskOK, LatencyFacts

LEMMA DiskOKStep == DevInv /\ DiskOK /\ [DevNext]_devVars => DiskOK'
  <1> SUFFICES ASSUME DevInv, DiskOK, [DevNext]_devVars PROVE DiskOK'
    BY Zenon
  <1>1. CASE \E s \in 0..(NumSectors - 1), writing \in BOOLEAN : DiskRequest(s, writing)
    BY <1>1, DiskRequestSector, Zenon
  <1>2. CASE UNCHANGED <<bufferInit, request>>
    BY <1>2, Zenon DEF DiskOK, SectorPassed
  <1>3. ASSUME ~\E s \in 0..(NumSectors - 1), writing \in BOOLEAN : DiskRequest(s, writing)
        PROVE  UNCHANGED <<bufferInit, request>>
    BY <1>3, Zenon
       DEF DevNext, Enable, ClockStep, TimerExpired, StartConsole, WaitChar, Echo, WaitWritten,
           QuitHalts, CheckCharAvail, CheckCharNone, WriteDone, DiskDone, WaitDisk, ToUser,
           UserInstruction, RaiseException, ProgramExits, Horizon, Halted, devVars, diskVars
  <1> QED
    BY <1>1, <1>2, <1>3, Zenon

\* The data of a sector is delivered only when the sector has passed under the head, for all
\* sizes of the disk, all seek and rotation times and all times of a request: a request that
\* goes to the surface ends with its sector, and the track buffer serves what it has loaded.
THEOREM SectorsPassUnderTheHead == DevSpec => []SectorPassed
  <1>1. DevInit => DevInv /\ DiskOK
    <2>1. DevInit => DiskOK
      <3> HAVE DevInit
      <3>1. bufferInit = 0 /\ request = NoRequest
        BY Zenon DEF DevInit
      <3>2. ~NoRequest.buffered
        BY DEF NoRequest
      <3>3. bufferInit \in Nat /\ bufferInit % RotationTime = 0
        BY <3>1, DeviceAssumption
      <3> QED
        BY <3>1, <3>2, <3>3, Zenon DEF DiskOK, SectorPassed
    <2> QED
      BY <2>1, DevInvInit, Zenon
  <1>2. DevInv /\ [DevNext]_devVars => DevInv'
    BY DevInvStep, Zenon
  <1>3. DiskOK => SectorPassed
    BY Zenon DEF DiskOK
  <1> QED
    BY <1>1, <1>2, <1>3, DiskOKStep, PTL DEF DevSpec
=============================================================================
