----------------------------- MODULE MailProofs -----------------------------
(***************************************************************************)
(* Proofs about MailTest, for any machines, mailboxes, threads and sizes:  *)
(* a packet in the device is announced exactly once, every thread in Send  *)
(* has its SendDone, and the ASSERTs on what another machine has written   *)
(* hold; hence the post office implements MailService, and a MailTest that *)
(* ends well was received.                                                 *)
(***************************************************************************)
EXTENDS MailRefinement, FiniteSetTheorems, TLAPS

OfficeType ==
  /\ state \in [Machines -> {"down", "up"} \cup Endings]
  /\ socket \in [Machines -> Seq(Sendable)]
  /\ inHdr \in [Machines -> Sendable \cup {NoPacket}]
  /\ sendDone \in [Machines -> Nat]
  /\ messageSent \in [Machines -> Nat]
  /\ messageAvailable \in [Machines -> Nat]
  /\ sent \in [Machines -> Nat]
  /\ boxes \in [Machines -> [Boxes -> Seq(Sendable)]]
  /\ worker \in [Machines -> {"waiting", "got"}]
  /\ waiting \in [Machines -> SUBSET Clients]

\* What is in a socket or a device is addressed to its machine.
Addressed ==
  \A m \in Machines :
    /\ \A k \in DOMAIN socket[m] : socket[m][k].to = m
    /\ inHdr[m] # NoPacket => inHdr[m].to = m

OfficeInv == OfficeType /\ Addressed /\ Announced /\ SendsAccounted /\ AssertsHold

\* A machine that has not started has no mail and no thread in Send.
Cold ==
  \A m \in Machines : state[m] = "down" =>
    /\ inHdr[m] = NoPacket /\ sendDone[m] = 0
    /\ messageSent[m] = 0 /\ messageAvailable[m] = 0
    /\ worker[m] = "waiting" /\ waiting[m] = {}

\* MailTest answers a message it has received.
TestInv ==
  /\ step \in [Machines -> {"send", "receive", "ack", "wait", "halt"}]
  /\ inMail \in [Machines -> Sendable \cup {NoPacket}]
  /\ \A m \in Machines :
       /\ Up(m) /\ step[m] = "ack" => inMail[m] \in Sendable
       /\ state[m] = "down" => step[m] = "send"

MailInv == OfficeInv /\ Cold /\ TestInv

-----------------------------------------------------------------------------

\* A packet that Send makes is never taken for "no packet", which is a length of 0,
\* and has the lengths and the box that PostalDelivery asserts.
LEMMA PacketFacts ==
  /\ NoPacket.length = 0
  /\ NoPacket \notin Sendable
  /\ \A p \in Sendable : /\ p.length \in Nat /\ p.length # 0 /\ p.length <= MaxPacketSize
                         /\ p.mailHdr.to \in Boxes /\ p.mailHdr.length <= MaxMailSize
                         /\ p.mailHdr.length \in Nat
  <1>1. NoPacket.length = 0
    BY Zenon DEF NoPacket
  <1>2. MaxPacketSize \in Nat /\ MaxMailSize \in Nat
    BY PostOfficeAssumption DEF MaxMailSize
  <1>3. \A p \in Sendable : /\ p.length \in Nat /\ p.length # 0 /\ p.length <= MaxPacketSize
                            /\ p.mailHdr.to \in Boxes /\ p.mailHdr.length <= MaxMailSize
                            /\ p.mailHdr.length \in Nat
    BY <1>2 DEF Sendable, MailHdrs
  <1> QED
    BY <1>1, <1>3, Zenon

\* A process that ends keeps the invariant, unless it ends in a failed ASSERT.
LEMMA StopKeepsInv ==
  ASSUME OfficeInv, NEW m \in Machines, NEW how \in Endings \ {"assert"},
         Stop(m, how), Gone(m)
  PROVE  OfficeInv' /\ ~Up(m)'
  <1> USE DEF OfficeInv, OfficeType
  <1>1. OfficeType'
    <2>1. state' \in [Machines -> {"down", "up"} \cup Endings]
      BY Zenon DEF Stop
    <2>2. socket' \in [Machines -> Seq(Sendable)]
      BY DEF Stop
    <2>3. boxes' \in [Machines -> [Boxes -> Seq(Sendable)]]
      BY DEF Gone
    <2>4. /\ inHdr' \in [Machines -> Sendable \cup {NoPacket}]
          /\ sendDone' \in [Machines -> Nat]
      BY Zenon DEF Stop
    <2>5. /\ messageSent' \in [Machines -> Nat]
          /\ messageAvailable' \in [Machines -> Nat]
          /\ sent' \in [Machines -> Nat]
          /\ worker' \in [Machines -> {"waiting", "got"}]
          /\ waiting' \in [Machines -> SUBSET Clients]
      BY Zenon DEF Gone
    <2> QED
      BY <2>1, <2>2, <2>3, <2>4, <2>5, Zenon
  <1>2. Addressed'
    BY DEF OfficeInv, OfficeType, Addressed, Stop, NoPacket
  <1>3. ~Up(m)' /\ \A n \in Machines \ {m} : Up(n)' <=> Up(n)
    BY Zenon DEF OfficeInv, OfficeType, Stop, Up, Endings
  <1>4. Announced'
    BY <1>3, Zenon DEF OfficeInv, OfficeType, Announced, Stop, Gone
  <1>5. SendsAccounted'
    BY <1>3, Zenon DEF OfficeInv, OfficeType, SendsAccounted, Stop, Gone
  <1>6. AssertsHold'
    BY Zenon DEF OfficeInv, OfficeType, AssertsHold, Stop, Endings
  <1> QED
    BY <1>1, <1>2, <1>3, <1>4, <1>5, <1>6, Zenon DEF OfficeInv

\* Append and Tail on a socket keep its packets addressed to its machine.
LEMMA SocketFacts ==
  ASSUME NEW m \in Machines, NEW q \in Seq(Sendable), \A k \in DOMAIN q : q[k].to = m
  PROVE  /\ \A pkt \in Sendable : pkt.to = m =>
              /\ Append(q, pkt) \in Seq(Sendable)
              /\ \A k \in DOMAIN Append(q, pkt) : Append(q, pkt)[k].to = m
         /\ q # <<>> =>
              /\ Head(q) \in Sendable /\ Head(q).to = m
              /\ Tail(q) \in Seq(Sendable)
              /\ \A k \in DOMAIN Tail(q) : Tail(q)[k].to = m
  <1>1. DOMAIN q = 1..Len(q) /\ Len(q) \in Nat
    OBVIOUS
  <1>2. ASSUME NEW pkt \in Sendable, pkt.to = m
        PROVE  /\ Append(q, pkt) \in Seq(Sendable)
               /\ \A k \in DOMAIN Append(q, pkt) : Append(q, pkt)[k].to = m
    <2>1. /\ Append(q, pkt) \in Seq(Sendable)
          /\ DOMAIN Append(q, pkt) = 1..(Len(q) + 1)
          /\ \A i \in 1..Len(q) : Append(q, pkt)[i] = q[i]
          /\ Append(q, pkt)[Len(q) + 1] = pkt
      OBVIOUS
    <2> QED
      BY <1>1, <1>2, <2>1
  <1>3. ASSUME q # <<>>
        PROVE  /\ Head(q) \in Sendable /\ Head(q).to = m
               /\ Tail(q) \in Seq(Sendable)
               /\ \A k \in DOMAIN Tail(q) : Tail(q)[k].to = m
    <2>1. /\ Head(q) \in Sendable /\ Tail(q) \in Seq(Sendable)
          /\ Len(q) >= 1 /\ Head(q) = q[1]
          /\ DOMAIN Tail(q) = 1..(Len(q) - 1)
          /\ \A i \in 1..(Len(q) - 1) : Tail(q)[i] = q[i + 1]
      BY <1>3
    <2> QED
      BY <1>1, <2>1
  <1> QED
    BY <1>2, <1>3, Zenon

\* A thread that enters or leaves Send changes their number by one.
LEMMA WaitingFacts ==
  ASSUME NEW W \in SUBSET Clients, NEW c \in Clients
  PROVE  /\ Cardinality(W) \in Nat
         /\ c \notin W => Cardinality(W \cup {c}) = Cardinality(W) + 1
         /\ c \in W => Cardinality(W \ {c}) = Cardinality(W) - 1
  <1>1. IsFiniteSet(W)
    BY MailTestAssumption, FS_Subset, Zenon
  <1> QED
    BY <1>1, FS_CardinalityType, FS_AddElement, FS_RemoveElement, Zenon

-----------------------------------------------------------------------------
(***************************************************************************)
(* What the steps do, given the invariant                                  *)
(***************************************************************************)

\* The packet that Send makes of a message.
PacketOf(m, to, hdr) ==
  [to |-> to, from |-> m, length |-> PacketLength(hdr.length),
   mailHdr |-> hdr, data |-> <<m, sent[m] + 1>>]

\* The process ends because nobody has the socket open, or the packet is lost, or it
\* is in the socket and the thread waits for its SendDone.
SendEffect(m, c, to, hdr) ==
  \/ Stop(m, "noPeer") /\ Gone(m) /\ ~Up(m)'
  \/ /\ state' = state /\ inHdr' = inHdr /\ reliable' = reliable
     /\ sendDone' = [sendDone EXCEPT ![m] = @ + 1]
     /\ \/ ~reliable /\ socket' = socket
        \/ Up(to) /\ socket' = [socket EXCEPT ![to] = Append(@, PacketOf(m, to, hdr))]
     /\ waiting' = [waiting EXCEPT ![m] = @ \cup {c}]
     /\ sent' = [sent EXCEPT ![m] = @ + 1]
     /\ boxes' = boxes /\ messageAvailable' = messageAvailable
     /\ messageSent' = messageSent /\ worker' = worker

\* PostOffice::Send and Network::Send: a message with a header of MailHdrs passes
\* their ASSERTs.
LEMMA SendDoes ==
  ASSUME OfficeType, NEW m \in Machines, NEW c, NEW to \in Machines,
         NEW hdr \in MailHdrs, Send(m, c, to, hdr)
  PROVE  /\ Up(m) /\ c \notin waiting[m]
         /\ PacketOf(m, to, hdr) \in Sendable /\ PacketOf(m, to, hdr).to = to
         /\ SendEffect(m, c, to, hdr)
  <1> DEFINE pkt == PacketOf(m, to, hdr)
  <1>1. pkt \in Sendable /\ pkt.to = to /\ pkt.length \in 1..MaxPacketSize
    <2>1. hdr.length \in 0..MaxMailSize
      BY Zenon DEF MailHdrs
    <2>2. PacketLength(hdr.length) \in 1..MaxPacketSize
      BY <2>1, PostOfficeAssumption DEF PacketLength, MaxMailSize
    <2>3. <<m, sent[m] + 1>> \in Machines \X Nat
      BY DEF OfficeType
    <2> QED
      BY <2>2, <2>3, Zenon DEF Sendable, PacketOf
  <1>0. hdr.length \in 0..MaxMailSize /\ hdr.to \in Boxes
    BY Zenon DEF MailHdrs
  <1>0a. ~(hdr.length > MaxMailSize)
    BY <1>0, PostOfficeAssumption DEF MaxMailSize
  <1>2. /\ Up(m) /\ c \notin waiting[m]
        /\ Sending(m, pkt, 1)
        /\ IF ~Up(m)' THEN Gone(m)
           ELSE /\ waiting' = [waiting EXCEPT ![m] = @ \cup {c}]
                /\ sent' = [sent EXCEPT ![m] = @ + 1]
                /\ UNCHANGED <<boxes, messageAvailable, messageSent, worker, buffer>>
    BY <1>0, <1>0a, Zenon DEF Send, NetworkSend, PacketOf
  <1> HIDE DEF pkt
  <1>3. CASE Stop(m, "noPeer")
    <2>1. ~Up(m)'
      BY <1>3, Zenon DEF Stop, Up, OfficeType
    <2> QED
      BY <1>1, <1>2, <1>3, <2>1, Zenon DEF pkt, SendEffect
  <1>4. CASE /\ state' = state /\ inHdr' = inHdr /\ reliable' = reliable
             /\ sendDone' = [sendDone EXCEPT ![m] = @ + 1]
             /\ \/ ~reliable /\ socket' = socket
                \/ Up(to) /\ socket' = [socket EXCEPT ![to] = Append(@, pkt)]
    <2>1. Up(m)'
      BY <1>2, <1>4, Zenon DEF Up
    <2> QED
      BY <1>1, <1>2, <1>4, <2>1, Zenon DEF pkt, SendEffect
  <1> QED
    BY <1>1, <1>2, <1>3, <1>4, Zenon DEF Sending

\* CheckPktAvail reads a packet only into an empty buffer, and its ASSERT holds.
LEMMA IncomingDoes ==
  ASSUME OfficeType, Addressed, NEW m \in Machines, IncomingPacket(m)
  PROVE  /\ Up(m) /\ inHdr[m].length = 0 /\ socket[m] # <<>>
         /\ Head(socket[m]) \in Sendable /\ Head(socket[m]).to = m
         /\ inHdr' = [inHdr EXCEPT ![m] = Head(socket[m])]
         /\ socket' = [socket EXCEPT ![m] = Tail(@)]
         /\ state' = state /\ reliable' = reliable /\ sendDone' = sendDone
         /\ messageAvailable' = [messageAvailable EXCEPT ![m] = @ + 1]
         /\ boxes' = boxes /\ messageSent' = messageSent /\ worker' = worker
         /\ waiting' = waiting /\ sent' = sent
  <1>1. Up(m) /\ inHdr[m].length = 0 /\ socket[m] # <<>>
    BY Zenon DEF IncomingPacket, CheckPktAvail, ReadsPacket
  <1>2. Head(socket[m]) \in Sendable /\ Head(socket[m]).to = m
    BY <1>1, SocketFacts, Zenon DEF OfficeType, Addressed
  <1>3. Head(socket[m]).length \in Nat /\ Head(socket[m]).length <= MaxPacketSize
    BY <1>2, PacketFacts, Zenon
  <1>4. ~(Head(socket[m]).to # m \/ Head(socket[m]).length > MaxPacketSize)
    BY <1>2, <1>3, PostOfficeAssumption
  <1>5. /\ inHdr' = [inHdr EXCEPT ![m] = Head(socket[m])]
        /\ socket' = [socket EXCEPT ![m] = Tail(@)]
        /\ state' = state /\ reliable' = reliable /\ sendDone' = sendDone
    BY <1>4, Zenon DEF IncomingPacket, CheckPktAvail, ReadsPacket
  <1>6. /\ messageAvailable' = [messageAvailable EXCEPT ![m] = @ + 1]
        /\ boxes' = boxes /\ messageSent' = messageSent /\ worker' = worker
        /\ waiting' = waiting /\ sent' = sent
    BY <1>1, <1>5, Zenon DEF IncomingPacket, Up
  <1> QED
    BY <1>1, <1>2, <1>5, <1>6, Zenon

\* PostalDelivery takes the packet the device has, never its old buffer, and its
\* two ASSERTs hold.
LEMMA DeliveryDoes ==
  ASSUME OfficeType, Announced, NEW m \in Machines, PostalDelivery(m)
  PROVE  /\ Up(m) /\ messageAvailable[m] = 0 /\ inHdr[m].length # 0
         /\ inHdr[m] \in Sendable /\ inHdr[m].mailHdr.to \in Boxes
         /\ inHdr' = [inHdr EXCEPT ![m] = NoPacket]
         /\ boxes' = [boxes EXCEPT ![m][inHdr[m].mailHdr.to] = Append(@, inHdr[m])]
         /\ worker' = [worker EXCEPT ![m] = "waiting"]
         /\ state' = state /\ reliable' = reliable /\ socket' = socket /\ sendDone' = sendDone
         /\ messageAvailable' = messageAvailable /\ messageSent' = messageSent
         /\ waiting' = waiting /\ sent' = sent
  <1> DEFINE pkt == IF inHdr[m].length = 0 THEN buffer[m] ELSE inHdr[m]
  <1>1. Up(m) /\ worker[m] = "got"
    BY Zenon DEF PostalDelivery
  <1>2. messageAvailable[m] = 0 /\ inHdr[m].length # 0
    BY <1>1 DEF Announced, OfficeType
  <1>3. inHdr[m] \in Sendable /\ pkt = inHdr[m]
    BY <1>2, PacketFacts, Zenon DEF OfficeType
  <1>4. ~(inHdr[m].mailHdr.to \notin Boxes \/ inHdr[m].mailHdr.length > MaxMailSize)
    BY <1>3, PacketFacts, PostOfficeAssumption DEF MaxMailSize
  <1>5. IF pkt.mailHdr.to \notin Boxes \/ pkt.mailHdr.length > MaxMailSize
        THEN Stop(m, "assert") /\ Gone(m)
        ELSE /\ NetworkReceive(m)
             /\ Put(m, pkt)
             /\ worker' = [worker EXCEPT ![m] = "waiting"]
             /\ UNCHANGED <<messageAvailable, messageSent, waiting, sent>>
    BY Zenon DEF PostalDelivery
  <1> HIDE DEF pkt
  <1>6. /\ NetworkReceive(m)
        /\ Put(m, inHdr[m])
        /\ worker' = [worker EXCEPT ![m] = "waiting"]
        /\ UNCHANGED <<messageAvailable, messageSent, waiting, sent>>
    BY <1>3, <1>4, <1>5, Zenon
  <1> QED
    BY <1>1, <1>2, <1>3, <1>4, <1>6, Zenon DEF NetworkReceive, Put, SynchListAppend

\* Send keeps the invariant, whether the packet is lost, arrives or has no peer.
LEMMA SendKeepsInv ==
  ASSUME OfficeInv, NEW m \in Machines, NEW c \in Clients, NEW to \in Machines,
         NEW hdr \in MailHdrs, Send(m, c, to, hdr)
  PROVE  OfficeInv'
  <1> DEFINE pkt == PacketOf(m, to, hdr)
  <1>0. OfficeType
    BY Zenon DEF OfficeInv
  <1>1. pkt \in Sendable /\ pkt.to = to /\ Up(m) /\ c \notin waiting[m]
    BY <1>0, SendDoes, Zenon
  <1>2a. SendEffect(m, c, to, hdr)
    BY <1>0, SendDoes, Zenon
  <1>2. \/ Stop(m, "noPeer") /\ Gone(m)
        \/ /\ state' = state /\ inHdr' = inHdr
           /\ sendDone' = [sendDone EXCEPT ![m] = @ + 1]
           /\ socket' \in {socket, [socket EXCEPT ![to] = Append(@, pkt)]}
           /\ waiting' = [waiting EXCEPT ![m] = @ \cup {c}]
           /\ sent' = [sent EXCEPT ![m] = @ + 1]
           /\ boxes' = boxes /\ messageAvailable' = messageAvailable
           /\ messageSent' = messageSent /\ worker' = worker
    BY <1>2a, Zenon DEF SendEffect
  <1> HIDE DEF pkt
  <1>3. CASE Stop(m, "noPeer") /\ Gone(m)
    BY <1>3, StopKeepsInv, Zenon DEF Endings
  <1>4. CASE /\ state' = state /\ inHdr' = inHdr
             /\ sendDone' = [sendDone EXCEPT ![m] = @ + 1]
             /\ socket' \in {socket, [socket EXCEPT ![to] = Append(@, pkt)]}
             /\ waiting' = [waiting EXCEPT ![m] = @ \cup {c}]
             /\ sent' = [sent EXCEPT ![m] = @ + 1]
             /\ boxes' = boxes /\ messageAvailable' = messageAvailable
             /\ messageSent' = messageSent /\ worker' = worker
    <2> USE DEF OfficeInv
    <2>2. /\ Append(socket[to], pkt) \in Seq(Sendable)
          /\ \A k \in DOMAIN Append(socket[to], pkt) : Append(socket[to], pkt)[k].to = to
      BY <1>1, SocketFacts DEF OfficeType, Addressed
    <2>3. socket' \in [Machines -> Seq(Sendable)]
      BY <1>4, <2>2, Zenon DEF OfficeType
    <2>4. OfficeType'
      <3>1. waiting' \in [Machines -> SUBSET Clients]
        BY <1>4, Zenon DEF OfficeType
      <3>2. sent[m] \in Nat /\ sendDone[m] \in Nat
        BY Zenon DEF OfficeType
      <3>3. sent[m] + 1 \in Nat /\ sendDone[m] + 1 \in Nat
        BY <3>2
      <3>4. sent' \in [Machines -> Nat] /\ sendDone' \in [Machines -> Nat]
        BY <1>4, <3>3, Zenon DEF OfficeType
      <3> QED
        BY <1>4, <2>3, <3>1, <3>4, Zenon DEF OfficeType
    <2>5. Addressed'
      BY <1>4, <2>2, Zenon DEF OfficeType, Addressed
    <2>6. Announced'
      BY <1>4, Zenon DEF Announced, Up
    <2>7. SendsAccounted'
      <3>1. Cardinality(waiting[m] \cup {c}) = Cardinality(waiting[m]) + 1
        BY <1>1, WaitingFacts, Zenon DEF OfficeType
      <3>2. Cardinality(waiting[m]) = sendDone[m] + messageSent[m]
        BY <1>1, Zenon DEF SendsAccounted
      <3>3. Cardinality(waiting'[m]) = sendDone'[m] + messageSent'[m]
        BY <1>4, <3>1, <3>2 DEF OfficeType
      <3>4. \A n \in Machines \ {m} : /\ waiting'[n] = waiting[n]
                                      /\ sendDone'[n] = sendDone[n]
        BY <1>4, Zenon DEF OfficeType
      <3> QED
        BY <1>4, <3>3, <3>4, Zenon DEF SendsAccounted, Up
    <2>8. AssertsHold'
      BY <1>4, Zenon DEF AssertsHold
    <2> QED
      BY <2>4, <2>5, <2>6, <2>7, <2>8, Zenon
  <1> QED
    BY <1>2, <1>3, <1>4, Zenon

\* The two steps of a SendDone: the interrupt posts it, and a Send takes it.
LEMMA SendDoneKeepsInv ==
  ASSUME OfficeInv, NEW m \in Machines,
         PacketSent(m) \/ \E c \in Clients : SendReturns(m, c)
  PROVE  OfficeInv'
  <1> USE DEF OfficeInv
  <1>1. CASE PacketSent(m)
    <2>1. /\ sendDone[m] > 0 /\ Up(m)
          /\ sendDone' = [sendDone EXCEPT ![m] = @ - 1]
          /\ messageSent' = [messageSent EXCEPT ![m] = @ + 1]
          /\ state' = state /\ socket' = socket /\ inHdr' = inHdr /\ boxes' = boxes
          /\ messageAvailable' = messageAvailable /\ worker' = worker
          /\ waiting' = waiting /\ sent' = sent
      BY <1>1, Zenon DEF PacketSent, SendDoneFires
    <2>2. sendDone' \in [Machines -> Nat] /\ messageSent' \in [Machines -> Nat]
      BY <2>1 DEF OfficeType
    <2>3. SendsAccounted'
      BY <2>1 DEF SendsAccounted, OfficeType, Up
    <2> QED
      BY <2>1, <2>2, <2>3, Zenon DEF OfficeType, Addressed, Announced, AssertsHold, Up
  <1>2. ASSUME NEW c \in Clients, SendReturns(m, c) PROVE OfficeInv'
    <2>1. /\ messageSent[m] > 0 /\ Up(m) /\ c \in waiting[m]
          /\ messageSent' = [messageSent EXCEPT ![m] = @ - 1]
          /\ waiting' = [waiting EXCEPT ![m] = @ \ {c}]
          /\ state' = state /\ socket' = socket /\ inHdr' = inHdr /\ boxes' = boxes
          /\ messageAvailable' = messageAvailable /\ worker' = worker
          /\ sendDone' = sendDone /\ sent' = sent
      BY <1>2, Zenon DEF SendReturns, netVars
    <2>2. messageSent' \in [Machines -> Nat]
      BY <2>1 DEF OfficeType
    <2>3. waiting' \in [Machines -> SUBSET Clients]
      BY <2>1, Zenon DEF OfficeType
    <2>4. SendsAccounted'
      <3>0. waiting[m] \in SUBSET Clients /\ c \in waiting[m]
        BY <2>1, Zenon DEF OfficeType
      <3>1. Cardinality(waiting[m] \ {c}) = Cardinality(waiting[m]) - 1
        BY ONLY <3>0, c \in Clients, WaitingFacts, Zenon
      <3>2. Cardinality(waiting[m]) = sendDone[m] + messageSent[m]
        BY <2>1, Zenon DEF SendsAccounted
      <3>3. Cardinality(waiting'[m]) = sendDone'[m] + messageSent'[m]
        BY <2>1, <3>1, <3>2 DEF OfficeType
      <3>4. \A n \in Machines \ {m} : /\ waiting'[n] = waiting[n]
                                      /\ messageSent'[n] = messageSent[n]
        BY <2>1, Zenon DEF OfficeType
      <3> QED
        BY <2>1, <3>3, <3>4, Zenon DEF SendsAccounted, Up
    <2> QED
      BY <2>1, <2>2, <2>3, <2>4, Zenon DEF OfficeType, Addressed, Announced, AssertsHold, Up
  <1> QED
    BY <1>1, <1>2, Zenon

\* The device reads a packet and announces it: its ASSERT holds.
LEMMA IncomingKeepsInv ==
  ASSUME OfficeInv, NEW m \in Machines, IncomingPacket(m)
  PROVE  OfficeInv'
  <1> USE DEF OfficeInv
  <1> DEFINE hdr == Head(socket[m])
  <1>1. /\ Up(m) /\ inHdr[m].length = 0 /\ socket[m] # <<>>
        /\ hdr \in Sendable
        /\ inHdr' = [inHdr EXCEPT ![m] = hdr]
        /\ socket' = [socket EXCEPT ![m] = Tail(@)]
        /\ state' = state /\ sendDone' = sendDone
        /\ messageAvailable' = [messageAvailable EXCEPT ![m] = @ + 1]
        /\ boxes' = boxes /\ messageSent' = messageSent /\ worker' = worker
        /\ waiting' = waiting /\ sent' = sent
    BY IncomingDoes, Zenon
  <1>2. /\ hdr.to = m /\ Tail(socket[m]) \in Seq(Sendable)
        /\ \A k \in DOMAIN Tail(socket[m]) : Tail(socket[m])[k].to = m
    BY <1>1, SocketFacts, Zenon DEF OfficeType, Addressed
  <1>3. hdr.length # 0
    BY <1>1, PacketFacts, Zenon
  <1> HIDE DEF hdr
  <1>7. OfficeType'
    <2>1. socket' \in [Machines -> Seq(Sendable)]
      BY <1>1, <1>2, Zenon DEF OfficeType
    <2>2. inHdr' \in [Machines -> Sendable \cup {NoPacket}]
      BY <1>1, <1>2, Zenon DEF OfficeType
    <2>3. messageAvailable' \in [Machines -> Nat]
      BY <1>1 DEF OfficeType
    <2> QED
      BY <1>1, <2>1, <2>2, <2>3, Zenon DEF OfficeType
  <1>8. Addressed'
    BY <1>1, <1>2 DEF Addressed, OfficeType
  <1>9. Announced'
    <2>1. messageAvailable[m] = 0 /\ worker[m] # "got"
      BY <1>1 DEF Announced, OfficeType
    <2>2. inHdr'[m].length # 0 /\ messageAvailable'[m] = 1
      BY <1>1, <1>3, <2>1 DEF OfficeType
    <2>3. \A n \in Machines \ {m} : /\ inHdr'[n] = inHdr[n]
                                    /\ messageAvailable'[n] = messageAvailable[n]
      BY <1>1, Zenon DEF OfficeType
    <2> QED
      BY <1>1, <2>1, <2>2, <2>3 DEF Announced, Up
  <1> QED
    BY <1>1, <1>7, <1>8, <1>9, Zenon DEF SendsAccounted, AssertsHold, Up

\* The postal worker takes the packet the device has, never its old buffer, and
\* its two ASSERTs hold.
LEMMA WorkerKeepsInv ==
  ASSUME OfficeInv, NEW m \in Machines, WorkerWakes(m) \/ PostalDelivery(m)
  PROVE  OfficeInv'
  <1> USE DEF OfficeInv
  <1>1. CASE WorkerWakes(m)
    <2>1. /\ worker[m] = "waiting" /\ messageAvailable[m] > 0
          /\ messageAvailable' = [messageAvailable EXCEPT ![m] = @ - 1]
          /\ worker' = [worker EXCEPT ![m] = "got"]
          /\ state' = state /\ socket' = socket /\ inHdr' = inHdr /\ boxes' = boxes
          /\ messageSent' = messageSent /\ sendDone' = sendDone
          /\ waiting' = waiting /\ sent' = sent
      BY <1>1, Zenon DEF WorkerWakes, netVars
    <2>2. messageAvailable' \in [Machines -> Nat] /\ worker' \in [Machines -> {"waiting", "got"}]
      BY <2>1 DEF OfficeType
    <2>3. Announced'
      <3> SUFFICES ASSUME NEW n \in Machines, Up(n)'
                   PROVE  messageAvailable'[n] + (IF worker'[n] = "got" THEN 1 ELSE 0)
                            = IF inHdr'[n].length = 0 THEN 0 ELSE 1
        BY Zenon DEF Announced
      <3>1. /\ messageAvailable[n] + (IF worker[n] = "got" THEN 1 ELSE 0)
               = IF inHdr[n].length = 0 THEN 0 ELSE 1
            /\ messageAvailable[n] \in Nat
        BY <2>1, Zenon DEF Announced, OfficeType, Up
      <3>2. CASE n = m
        <4>1. messageAvailable'[n] = messageAvailable[n] - 1 /\ worker'[n] = "got"
          BY <2>1, <3>2, Zenon DEF OfficeType
        <4> QED
          BY <2>1, <3>1, <3>2, <4>1
      <3>3. CASE n # m
        BY <2>1, <3>1, <3>3, Zenon DEF OfficeType
      <3> QED
        BY <3>2, <3>3, Zenon
    <2> QED
      BY <2>1, <2>2, <2>3, Zenon DEF OfficeType, Addressed, SendsAccounted, AssertsHold, Up
  <1>2. CASE PostalDelivery(m)
    <2>1. /\ inHdr[m] \in Sendable /\ inHdr[m].mailHdr.to \in Boxes /\ messageAvailable[m] = 0
          /\ inHdr' = [inHdr EXCEPT ![m] = NoPacket]
          /\ boxes' = [boxes EXCEPT ![m][inHdr[m].mailHdr.to] = Append(@, inHdr[m])]
          /\ worker' = [worker EXCEPT ![m] = "waiting"]
          /\ state' = state /\ socket' = socket /\ sendDone' = sendDone
          /\ messageAvailable' = messageAvailable /\ messageSent' = messageSent
          /\ waiting' = waiting /\ sent' = sent
      BY <1>2, DeliveryDoes, Zenon
    <2>6. boxes' \in [Machines -> [Boxes -> Seq(Sendable)]]
      <3> DEFINE b == inHdr[m].mailHdr.to
      <3>1. b \in Boxes
        BY <2>1, Zenon
      <3> HIDE DEF b
      <3>2. boxes[m] \in [Boxes -> Seq(Sendable)]
        BY Zenon DEF OfficeType
      <3>3. Append(boxes[m][b], inHdr[m]) \in Seq(Sendable)
        BY <2>1, <3>1, <3>2
      <3>4. [boxes[m] EXCEPT ![b] = Append(@, inHdr[m])] \in [Boxes -> Seq(Sendable)]
        BY <3>1, <3>2, <3>3, Zenon
      <3>5. boxes' = [boxes EXCEPT ![m] = [boxes[m] EXCEPT ![b] = Append(@, inHdr[m])]]
        BY <2>1, Zenon DEF b
      <3> QED
        BY <3>4, <3>5, Zenon DEF OfficeType
    <2>7. OfficeType'
      BY <2>1, <2>6, Zenon DEF OfficeType
    <2>8. Addressed'
      BY <2>1, Zenon DEF Addressed, OfficeType
    <2>9. Announced'
      <3>1. NoPacket.length = 0
        BY PacketFacts, Zenon
      <3>3. /\ inHdr'[m].length = 0 /\ worker'[m] # "got"
            /\ messageAvailable'[m] = 0
        BY <2>1, <3>1, Zenon DEF OfficeType
      <3>4. \A n \in Machines \ {m} : /\ inHdr'[n] = inHdr[n] /\ worker'[n] = worker[n]
                                      /\ messageAvailable'[n] = messageAvailable[n]
        BY <2>1, Zenon DEF OfficeType
      <3>5. Announced
        BY Zenon
      <3> HIDE DEF OfficeInv
      <3> SUFFICES ASSUME NEW n \in Machines, state'[n] = "up"
                   PROVE  messageAvailable'[n] + (IF worker'[n] = "got" THEN 1 ELSE 0)
                            = IF inHdr'[n].length = 0 THEN 0 ELSE 1
        BY Zenon DEF Announced, Up
      <3>6. CASE n = m
        BY <3>3, <3>6, SMTT(30)
      <3>7. CASE n # m
        BY <2>1, <3>4, <3>5, <3>7, Zenon DEF Announced, Up
      <3> QED
        BY <3>6, <3>7, Zenon
    <2> QED
      BY <2>1, <2>7, <2>8, <2>9, Zenon DEF SendsAccounted, AssertsHold, Up
  <1> QED
    BY <1>1, <1>2, Zenon

\* Receive takes a message out of a box, or ends in Condition::Wait.
LEMMA ReceiveKeepsInv ==
  ASSUME OfficeInv, NEW m \in Machines, NEW c \in Clients, NEW b \in Boxes, Receive(m, c, b)
  PROVE  /\ OfficeInv'
         /\ IF boxes[m][b] = <<>> THEN ~Up(m)'
            ELSE Up(m) /\ state' = state /\ Head(boxes[m][b]) \in Sendable
  <1>1. CASE boxes[m][b] = <<>>
    <2>1. Stop(m, "noMail") /\ Gone(m)
      BY <1>1, Zenon DEF Receive
    <2>2. OfficeInv' /\ ~Up(m)'
      BY <2>1, StopKeepsInv, SMTT(30) DEF Endings
    <2> QED
      BY <1>1, <2>2, Zenon
  <1>2. CASE boxes[m][b] # <<>>
    <2> USE DEF OfficeInv
    <2>1. /\ boxes' = [boxes EXCEPT ![m][b] = Tail(@)]
          /\ state' = state /\ socket' = socket /\ inHdr' = inHdr /\ sendDone' = sendDone
          /\ messageAvailable' = messageAvailable /\ messageSent' = messageSent
          /\ worker' = worker /\ waiting' = waiting /\ sent' = sent /\ Up(m)
      BY <1>2, Zenon DEF Receive, SynchListRemove, netVars
    <2>2. boxes[m] \in [Boxes -> Seq(Sendable)]
      BY Zenon DEF OfficeType
    <2>3. Tail(boxes[m][b]) \in Seq(Sendable) /\ Head(boxes[m][b]) \in Sendable
      BY <1>2, <2>2
    <2>4. [boxes[m] EXCEPT ![b] = Tail(@)] \in [Boxes -> Seq(Sendable)]
      BY <2>2, <2>3, Zenon
    <2>5. boxes' \in [Machines -> [Boxes -> Seq(Sendable)]]
      BY <2>1, <2>4, Zenon DEF OfficeType
    <2> QED
      BY <1>2, <2>1, <2>3, <2>5, Zenon
         DEF OfficeType, Addressed, Announced, SendsAccounted, AssertsHold, Up
  <1> QED
    BY <1>1, <1>2, Zenon

\* A machine starts with everything empty, as it was left when it was down.
LEMMA BootKeepsInv ==
  ASSUME OfficeInv, Cold, NEW m \in Machines, Boot(m), UNCHANGED officeVars
  PROVE  OfficeInv' /\ Cold'
  <1> USE DEF OfficeInv
  <1>1. /\ state[m] = "down" /\ state' = [state EXCEPT ![m] = "up"]
        /\ socket' = socket /\ inHdr' = inHdr /\ sendDone' = sendDone
        /\ boxes' = boxes /\ messageAvailable' = messageAvailable
        /\ messageSent' = messageSent /\ worker' = worker /\ waiting' = waiting
        /\ sent' = sent
    BY Zenon DEF Boot, officeVars
  <1>2. OfficeType'
    BY <1>1, Zenon DEF OfficeType
  <1>2a. Addressed' /\ AssertsHold'
    BY <1>1, Zenon DEF OfficeType, Addressed, AssertsHold
  <1>3. Announced'
    BY <1>1, PacketFacts DEF Announced, Cold, OfficeType, Up
  <1>4. SendsAccounted'
    <2>1. waiting[m] = {} /\ sendDone[m] = 0 /\ messageSent[m] = 0
      BY <1>1, Zenon DEF Cold
    <2>2. Cardinality(waiting[m]) = sendDone[m] + messageSent[m]
      BY <2>1, FS_EmptySet
    <2>3. \A n \in Machines \ {m} : Up(n)' => Up(n)
      BY <1>1, Zenon DEF OfficeType, Up
    <2> QED
      BY <1>1, <2>2, <2>3, Zenon DEF SendsAccounted
  <1>5. Cold'
    BY <1>1, Zenon DEF Cold, OfficeType
  <1> QED
    BY <1>2, <1>2a, <1>3, <1>4, <1>5, Zenon

\* A step of machine m other than Boot.  Of another machine it changes at most
\* the socket.
StepOf(m) ==
  /\ Up(m) /\ state'[m] # "down"
  /\ \A n \in Machines \ {m} :
       /\ state'[n] = state[n] /\ inHdr'[n] = inHdr[n] /\ sendDone'[n] = sendDone[n]
       /\ messageSent'[n] = messageSent[n] /\ messageAvailable'[n] = messageAvailable[n]
       /\ worker'[n] = worker[n] /\ waiting'[n] = waiting[n]

\* A process that ends leaves the other machines alone.
LEMMA StopIsStepOf ==
  ASSUME OfficeType, NEW m \in Machines, Up(m), NEW how \in Endings, Stop(m, how), Gone(m)
  PROVE  StepOf(m)
  BY Zenon DEF OfficeType, Up, Endings, Stop, Gone, StepOf

\* PostOffice::Send touches another machine only through its socket.
LEMMA SendIsStepOf ==
  ASSUME OfficeType, NEW m \in Machines, NEW c, NEW to, NEW hdr, Send(m, c, to, hdr)
  PROVE  StepOf(m)
  <1> DEFINE pkt == [to |-> to, from |-> m, length |-> PacketLength(hdr.length),
                     mailHdr |-> hdr, data |-> <<m, sent[m] + 1>>]
  <1>1. /\ Up(m)
        /\ Sending(m, pkt, 1) \/ Stop(m, "assert")
        /\ IF ~Up(m)' THEN Gone(m)
           ELSE /\ waiting' = [waiting EXCEPT ![m] = @ \cup {c}]
                /\ UNCHANGED <<messageAvailable, messageSent, worker>>
    BY Zenon DEF Send, NetworkSend
  <1> HIDE DEF pkt
  <1>2. ASSUME NEW how \in {"assert", "noPeer"}, Stop(m, how) PROVE StepOf(m)
    <2>1. ~Up(m)'
      BY <1>2, Zenon DEF Stop, Up, OfficeType
    <2> QED
      BY <1>1, <1>2, <2>1, StopIsStepOf, Zenon DEF Endings
  <1>3. CASE /\ state' = state /\ inHdr' = inHdr
             /\ sendDone' = [sendDone EXCEPT ![m] = @ + 1]
    BY <1>1, <1>3, Zenon DEF StepOf, OfficeType, Up
  <1> QED
    BY <1>1, <1>2, <1>3, Zenon DEF Sending

\* PostOffice::Receive touches no other machine.
LEMMA ReceiveIsStepOf ==
  ASSUME OfficeType, NEW m \in Machines, NEW c, NEW b, Receive(m, c, b)
  PROVE  StepOf(m)
  <1>1. Up(m)
    BY Zenon DEF Receive
  <1>2. CASE Stop(m, "noMail") /\ Gone(m)
    BY <1>1, <1>2, StopIsStepOf, Zenon DEF Endings
  <1>3. CASE UNCHANGED <<netVars, messageAvailable, messageSent, worker, waiting>>
    BY <1>1, <1>3, Zenon DEF StepOf, Up, netVars
  <1> QED
    BY <1>2, <1>3, Zenon DEF Receive

\* Neither do the interrupt handlers and the postal worker.
LEMMA OfficeIsStepOf ==
  ASSUME OfficeType, NEW m \in Machines, Office(m)
  PROVE  StepOf(m)
  <1>1. CASE PacketSent(m)
    BY <1>1, Zenon DEF PacketSent, SendDoneFires, StepOf, OfficeType, Up
  <1>2. ASSUME NEW c \in Clients, SendReturns(m, c) PROVE StepOf(m)
    BY <1>2, Zenon DEF SendReturns, netVars, StepOf, OfficeType, Up
  <1>3. CASE WorkerWakes(m)
    BY <1>3, Zenon DEF WorkerWakes, netVars, StepOf, OfficeType, Up
  <1>4. CASE IncomingPacket(m)
    <2>1. Up(m)
      BY <1>4, Zenon DEF IncomingPacket, CheckPktAvail, ReadsPacket
    <2>2. CASE Stop(m, "assert")
      <3>1. ~Up(m)'
        BY <2>2, Zenon DEF Stop, Up, OfficeType
      <3> QED
        BY <1>4, <2>1, <2>2, <3>1, StopIsStepOf, Zenon DEF IncomingPacket, Endings
    <2>3. CASE /\ inHdr' = [inHdr EXCEPT ![m] = Head(socket[m])]
               /\ state' = state /\ sendDone' = sendDone
      BY <1>4, <2>1, <2>3, Zenon DEF IncomingPacket, StepOf, OfficeType, Up
    <2> QED
      BY <1>4, <2>2, <2>3, Zenon DEF IncomingPacket, CheckPktAvail, ReadsPacket
  <1>5. CASE PostalDelivery(m)
    <2>1. Up(m)
      BY <1>5, Zenon DEF PostalDelivery
    <2>2. CASE Stop(m, "assert") /\ Gone(m)
      BY <2>1, <2>2, StopIsStepOf, Zenon DEF Endings
    <2>3. CASE /\ NetworkReceive(m)
               /\ worker' = [worker EXCEPT ![m] = "waiting"]
               /\ UNCHANGED <<messageAvailable, messageSent, waiting>>
      BY <2>1, <2>3, Zenon DEF NetworkReceive, StepOf, OfficeType, Up
    <2> QED
      BY <1>5, <2>2, <2>3, Zenon DEF PostalDelivery
  <1> QED
    BY <1>1, <1>2, <1>3, <1>4, <1>5, Zenon DEF Office

-----------------------------------------------------------------------------
(***************************************************************************)
(* MailInv is inductive                                                    *)
(***************************************************************************)

\* All machines are down at the start, and hold nothing.
LEMMA InitMailInv == TestInit => MailInv
  <1> SUFFICES ASSUME TestInit PROVE MailInv
    BY Zenon
  <1> USE DEF TestInit, NetInit, OfficeInit
  <1>1. socket \in [Machines -> Seq(Sendable)] /\ boxes \in [Machines -> [Boxes -> Seq(Sendable)]]
    OBVIOUS
  <1>2. OfficeType
    BY <1>1, Zenon DEF OfficeType
  <1>3. Addressed /\ Announced /\ AssertsHold
    BY DEF Addressed, Announced, AssertsHold, Up
  <1>4. SendsAccounted
    BY Zenon DEF SendsAccounted, Up
  <1>5. Cold /\ TestInv
    BY Zenon DEF Cold, TestInv, Up
  <1> QED
    BY <1>2, <1>3, <1>4, <1>5, Zenon DEF MailInv, OfficeInv

\* A machine that is down is as cold after the step of another one.
LEMMA ColdKept ==
  ASSUME Cold, NEW m \in Machines, StepOf(m)
  PROVE  Cold'
  BY SMTT(30) DEF Cold, StepOf

\* A step that leaves MailTest alone keeps TestInv: no machine comes up during it
\* that is about to acknowledge.
LEMMA TestKept ==
  ASSUME TestInv, NEW m \in Machines, StepOf(m), UNCHANGED <<step, inMail>>
  PROVE  TestInv'
  BY Zenon DEF TestInv, StepOf, Up

\* Each statement of MailTest keeps the invariant.
LEMMA ProgramKeepsInv ==
  ASSUME MailInv, NEW m \in Machines, Program(m)
  PROVE  MailInv'
  <1> USE DEF MailInv
  <1>0. OfficeType
    BY Zenon DEF OfficeInv
  <1>1. Far(m) \in Machines
    BY MailTestAssumption, Zenon DEF Far
  <1>2. Hello \in MailHdrs
    BY MailTestAssumption, PostOfficeAssumption DEF Hello, MailHdrs, MaxMailSize
  <1>3. Main \in Clients /\ 0 \in Boxes /\ 1 \in Boxes
    BY MailTestAssumption, Zenon
  <1>4. CASE SendHello(m)
    <2>1. Send(m, Main, Far(m), Hello)
      BY <1>4, Zenon DEF SendHello
    <2>2. OfficeInv' /\ StepOf(m)
      BY <1>0, <1>1, <1>2, <1>3, <2>1, SendKeepsInv, SendIsStepOf, Zenon
    <2>3. step' = [step EXCEPT ![m] = "receive"] /\ inMail' = inMail
      BY <1>4, Zenon DEF SendHello, Goes
    <2>4. TestInv'
      BY <2>2, <2>3, Zenon DEF TestInv, StepOf, Up
    <2> QED
      BY <2>2, <2>4, ColdKept, Zenon
  <1>5. CASE SendAck(m)
    <2> DEFINE hdr == [Hello EXCEPT !.to = inMail[m].mailHdr.from]
    <2>1. Send(m, Main, inMail[m].from, hdr) /\ step[m] = "ack" /\ Up(m)
      BY <1>5, Zenon DEF SendAck, Goes, Send
    <2>2. inMail[m] \in Sendable
      BY <2>1, Zenon DEF TestInv
    <2>3. inMail[m].from \in Machines /\ inMail[m].mailHdr.from \in Boxes
      BY <2>2, Zenon DEF Sendable, MailHdrs
    <2>4. hdr \in MailHdrs
      BY <1>2, <2>3, Zenon DEF Hello, MailHdrs
    <2> HIDE DEF hdr
    <2>5. OfficeInv' /\ StepOf(m)
      BY <1>0, <1>3, <2>1, <2>3, <2>4, SendKeepsInv, SendIsStepOf, Zenon
    <2>6. step' = [step EXCEPT ![m] = "wait"] /\ inMail' = inMail
      BY <1>5, Zenon DEF SendAck, Goes
    <2>7. TestInv'
      BY <2>5, <2>6, Zenon DEF TestInv, StepOf, Up
    <2> QED
      BY <2>5, <2>7, ColdKept
  <1>6. ASSUME NEW b \in Boxes, NEW to \in {"ack", "halt"}, Receive(m, Main, b), Got(m, b),
               step' = [step EXCEPT ![m] = to]
        PROVE  MailInv'
    <2>1. /\ OfficeInv' /\ StepOf(m)
          /\ IF boxes[m][b] = <<>> THEN ~Up(m)'
             ELSE Up(m) /\ state' = state /\ Head(boxes[m][b]) \in Sendable
      BY <1>0, <1>3, <1>6, ReceiveKeepsInv, ReceiveIsStepOf, Zenon
    <2>2. CASE boxes[m][b] = <<>>
      <3>1. inMail' = inMail /\ ~Up(m)'
        BY <1>6, <2>1, <2>2, Zenon DEF Got
      <3> QED
        BY <1>6, <2>1, <3>1, ColdKept, Zenon DEF TestInv, StepOf, Up
    <2>3. CASE boxes[m][b] # <<>>
      <3>1. inMail' = [inMail EXCEPT ![m] = Head(boxes[m][b])] /\ Head(boxes[m][b]) \in Sendable
        BY <1>6, <2>1, <2>3, Zenon DEF Got
      <3> QED
        BY <1>6, <2>1, <3>1, ColdKept, Zenon DEF TestInv, StepOf, Up
    <2> QED
      BY <2>2, <2>3, Zenon
  <1>7. CASE ReceiveHello(m)
    BY <1>3, <1>6, <1>7, Zenon DEF ReceiveHello, Goes
  <1>8. CASE ReceiveAck(m)
    BY <1>3, <1>6, <1>8, Zenon DEF ReceiveAck, Goes
  <1>9. CASE Halt(m)
    <2>1. /\ Up(m) /\ Stop(m, "halted") /\ Gone(m)
          /\ step' = [step EXCEPT ![m] = "halt"] /\ inMail' = inMail
      BY <1>9, Zenon DEF Halt, Goes
    <2>2. OfficeInv' /\ StepOf(m)
      BY <1>0, <2>1, StopKeepsInv, StopIsStepOf, Zenon DEF Endings
    <2>3. TestInv'
      BY <2>1, <2>2 DEF TestInv, StepOf, Up
    <2> QED
      BY <2>2, <2>3, ColdKept
  <1> QED
    BY <1>4, <1>5, <1>7, <1>8, <1>9, Zenon DEF Program

\* MailInv is inductive.
LEMMA NextMailInv == MailInv /\ [TestNext]_mailVars => MailInv'
  <1> SUFFICES ASSUME MailInv, [TestNext]_mailVars PROVE MailInv'
    BY Zenon
  <1> USE DEF MailInv
  <1>0. OfficeType
    BY Zenon DEF OfficeInv
  <1>1. CASE UNCHANGED mailVars
    BY <1>1, Zenon DEF mailVars, netVars, officeVars, testVars, OfficeInv, OfficeType, Addressed,
                Announced, SendsAccounted, AssertsHold, Cold, TestInv, Up
  <1>2. ASSUME NEW m \in Machines, Boot(m), UNCHANGED <<officeVars, testVars>> PROVE MailInv'
    <2>1. OfficeInv' /\ Cold'
      BY <1>2, BootKeepsInv, Zenon
    <2>2. /\ state' = [state EXCEPT ![m] = "up"] /\ state[m] = "down"
          /\ step' = step /\ inMail' = inMail
      BY <1>2, Zenon DEF Boot, testVars
    <2>3. TestInv'
      BY <1>0, <2>2, Zenon DEF TestInv, OfficeType, Up, Cold
    <2> QED
      BY <2>1, <2>3, Zenon
  <1>3. ASSUME NEW m \in Machines, PollsInVain(m), UNCHANGED <<officeVars, testVars>>
        PROVE  MailInv'
    BY <1>1, <1>3, Zenon DEF PollsInVain, mailVars
  <1>4. ASSUME NEW m \in Machines, Office(m), UNCHANGED testVars PROVE MailInv'
    <2>1. OfficeInv' /\ StepOf(m)
      BY <1>0, <1>4, SendDoneKeepsInv, IncomingKeepsInv, WorkerKeepsInv, OfficeIsStepOf
         DEF Office
    <2> QED
      BY <1>4, <2>1, ColdKept, TestKept, Zenon DEF testVars
  <1>5. ASSUME NEW m \in Machines, Program(m) PROVE MailInv'
    BY <1>5, ProgramKeepsInv, Zenon
  <1>6. ASSUME NEW m \in Machines, NEW c \in Clients, AnySend(m, c) PROVE MailInv'
    <2>1. PICK to \in Machines, hdr \in Messages : Send(m, c, to, hdr)
      BY <1>6, Zenon DEF AnySend
    <2>2. hdr \in MailHdrs
      BY MailTestAssumption, Zenon DEF MailHdrs
    <2>3. OfficeInv' /\ StepOf(m)
      BY <1>0, <2>1, <2>2, SendKeepsInv, SendIsStepOf, Zenon
    <2> QED
      BY <1>6, <2>3, ColdKept, TestKept, Zenon DEF AnySend, testVars
  <1>7. ASSUME NEW m \in Machines, NEW c \in Clients, AnyReceive(m, c) PROVE MailInv'
    <2>1. PICK b \in Boxes : Receive(m, c, b)
      BY <1>7, Zenon DEF AnyReceive
    <2>2. OfficeInv' /\ StepOf(m)
      BY <1>0, <2>1, ReceiveKeepsInv, ReceiveIsStepOf, Zenon
    <2> QED
      BY <1>7, <2>2, ColdKept, TestKept, Zenon DEF AnyReceive, testVars
  <1>8. CASE AllStopped
    BY <1>1, <1>8, Zenon DEF AllStopped
  <1> QED
    BY <1>1, <1>2, <1>3, <1>4, <1>5, <1>6, <1>7, <1>8, Zenon DEF TestNext

\* In every behaviour, whatever is lost and whoever stops: a packet in the device
\* is announced once (Network::CheckPktAvail and PostOffice::PostalDelivery), every
\* thread in PostOffice::Send has its own SendDone, and the ASSERTs on headers that
\* came over the network hold.
THEOREM MailCorrect == TestSpec => [](Announced /\ SendsAccounted /\ AssertsHold)
  <1>1. MailInv => Announced /\ SendsAccounted /\ AssertsHold
    BY Zenon DEF MailInv, OfficeInv
  <1>2. TestSpec => TestInit /\ [][TestNext]_mailVars
    BY PTL DEF TestSpec
  <1> QED
    BY <1>1, <1>2, InitMailInv, NextMailInv, PTL

-----------------------------------------------------------------------------
(***************************************************************************)
(* The mail service is implemented                                         *)
(***************************************************************************)

\* What the mail service sees of the machines and of the mail on its way.
Alive == {m \in Machines : Up(m)}
Dead == {m \in Machines : state[m] \in Endings}
Transit == [m \in Machines |-> InTransit(m)]

\* The packet of the device goes before those of the socket.
LEMMA DeviceFirst ==
  ASSUME NEW S, NEW x \in S, NEW s \in Seq(S), NEW p \in S
  PROVE  /\ <<>> \o s = s /\ <<x>> \o s # <<>>
         /\ Head(<<x>> \o s) = x /\ Tail(<<x>> \o s) = s
         /\ <<x>> \o Append(s, p) = Append(<<x>> \o s, p)
         /\ s # <<>> => <<Head(s)>> \o Tail(s) = s
  <1>1. <<>> \o s = s /\ <<x>> \o s # <<>>
    OBVIOUS
  <1>2. Head(<<x>> \o s) = x /\ Tail(<<x>> \o s) = s
    OBVIOUS
  <1>3. <<x>> \o Append(s, p) = Append(<<x>> \o s, p)
    OBVIOUS
  <1>4. s # <<>> => <<Head(s)>> \o Tail(s) = s
    OBVIOUS
  <1> QED
    BY <1>1, <1>2, <1>3, <1>4, Zenon

\* A process that ends is a machine that dies.
LEMMA StopDies ==
  ASSUME OfficeType, NEW m \in Machines, Up(m), NEW how \in Endings, Stop(m, how), Gone(m)
  PROVE  Service!Die(m)
  <1>1. /\ state' = [state EXCEPT ![m] = how] /\ how # "up"
        /\ socket' = [socket EXCEPT ![m] = <<>>]
        /\ inHdr' = [inHdr EXCEPT ![m] = NoPacket]
        /\ reliable' = reliable /\ sent' = sent
        /\ boxes' = [boxes EXCEPT ![m] = [b \in Boxes |-> <<>>]]
    BY Zenon DEF Stop, Gone, Endings
  <1>2. Alive' = Alive \ {m}
    BY <1>1, Zenon DEF Alive, Up, OfficeType
  <1>3. Dead' = Dead \cup {m}
    BY <1>1, Zenon DEF Dead, OfficeType
  <1>4. InTransit(m)' = <<>>
    <2>1. inHdr'[m] = NoPacket /\ socket'[m] = <<>>
      BY <1>1, Zenon DEF OfficeType
    <2> QED
      BY <2>1, PacketFacts DEF InTransit
  <1>5. \A n \in Machines \ {m} : InTransit(n)' = InTransit(n)
    BY <1>1, Zenon DEF InTransit, OfficeType
  <1>6. Transit' = [Transit EXCEPT ![m] = <<>>]
    BY <1>4, <1>5, Zenon DEF Transit
  <1>7. m \in Alive
    BY Zenon DEF Alive
  <1> QED
    BY <1>1, <1>2, <1>3, <1>6, <1>7, Zenon DEF Service!Die, Alive, Dead, Transit

\* What the service does not see.
LEMMA UnseenStutters ==
  ASSUME state' = state, reliable' = reliable, socket' = socket, inHdr' = inHdr,
         boxes' = boxes, sent' = sent
  PROVE  UNCHANGED Service!mailVars
  <1>1. Alive' = Alive /\ Dead' = Dead /\ Transit' = Transit
    BY Zenon DEF Alive, Dead, Transit, InTransit, Up
  <1> QED
    BY <1>1, Zenon DEF Service!mailVars, Alive, Dead, Transit

\* A machine that starts.
LEMMA BootStarts ==
  ASSUME OfficeType, NEW m \in Machines, Boot(m), UNCHANGED <<boxes, sent>>
  PROVE  Service!Start(m)
  <1>1. /\ state[m] = "down" /\ state' = [state EXCEPT ![m] = "up"]
        /\ reliable' = reliable /\ socket' = socket /\ inHdr' = inHdr
    BY Zenon DEF Boot
  <1>2. m \notin Alive \cup Dead
    BY <1>1 DEF Alive, Dead, Up, Endings
  <1>3. Alive' = Alive \cup {m} /\ Dead' = Dead
    <2>1. \A n \in Machines : Up(n)' <=> Up(n) \/ n = m
      BY <1>1, Zenon DEF Up, OfficeType
    <2>2. \A n \in Machines : (state[n] \in Endings)' <=> state[n] \in Endings
      BY <1>1 DEF OfficeType, Endings
    <2> QED
      BY <2>1, <2>2, Zenon DEF Alive, Dead
  <1>4. Transit' = Transit
    BY <1>1, Zenon DEF Transit, InTransit
  <1> QED
    BY <1>1, <1>2, <1>3, <1>4, Zenon DEF Service!Start, Alive, Dead, Transit

\* PostOffice::Send sends, loses the mail or ends the process.
LEMMA SendServes ==
  ASSUME OfficeType, NEW m \in Machines, NEW c, NEW to \in Machines,
         NEW hdr \in MailHdrs, Send(m, c, to, hdr)
  PROVE  Service!Die(m) \/ Service!LoseMail(m) \/ Service!SendMail(m, to)
  <1> DEFINE pkt == PacketOf(m, to, hdr)
  <1>1. Up(m) /\ pkt \in Sendable /\ pkt.to = to /\ SendEffect(m, c, to, hdr)
    BY SendDoes, Zenon
  <1>2. pkt.from = m
    BY Zenon DEF PacketOf
  <1> HIDE DEF pkt
  <1>3. CASE Stop(m, "noPeer") /\ Gone(m)
    BY <1>1, <1>3, StopDies, Zenon DEF Endings
  <1>4. CASE /\ state' = state /\ inHdr' = inHdr /\ reliable' = reliable
             /\ ~reliable /\ socket' = socket
             /\ sent' = [sent EXCEPT ![m] = @ + 1] /\ boxes' = boxes
    <2>1. Alive' = Alive /\ Dead' = Dead /\ Transit' = Transit /\ m \in Alive
      BY <1>1, <1>4, Zenon DEF Alive, Dead, Transit, InTransit, Up
    <2> QED
      BY <1>4, <2>1, Zenon DEF Service!LoseMail, Alive, Dead, Transit
  <1>5. CASE /\ state' = state /\ inHdr' = inHdr /\ reliable' = reliable
             /\ Up(to) /\ socket' = [socket EXCEPT ![to] = Append(@, pkt)]
             /\ sent' = [sent EXCEPT ![m] = @ + 1] /\ boxes' = boxes
    <2>1. Alive' = Alive /\ Dead' = Dead /\ m \in Alive /\ to \in Alive
      BY <1>1, <1>5, Zenon DEF Alive, Dead, Up
    <2>2. /\ socket'[to] = Append(socket[to], pkt)
          /\ \A n \in Machines \ {to} : socket'[n] = socket[n]
      BY <1>5, Zenon DEF OfficeType
    <2>3. InTransit(to)' = Append(InTransit(to), pkt)
      <3>1. socket[to] \in Seq(Sendable)
        BY Zenon DEF OfficeType
      <3>2. CASE inHdr[to].length = 0
        <4>1. <<>> \o socket[to] = socket[to] /\ <<>> \o socket'[to] = socket'[to]
          BY <1>1, <2>2, <3>1
        <4> QED
          BY <1>5, <2>2, <3>2, <4>1, Zenon DEF InTransit
      <3>3. CASE inHdr[to].length # 0
        <4>1. inHdr[to] \in Sendable
          BY <3>3, PacketFacts, Zenon DEF OfficeType
        <4>2. <<inHdr[to]>> \o Append(socket[to], pkt) = Append(<<inHdr[to]>> \o socket[to], pkt)
          BY <1>1, <3>1, <4>1
        <4> QED
          BY <1>5, <2>2, <3>3, <4>2, Zenon DEF InTransit
      <3> QED
        BY <3>2, <3>3, Zenon
    <2>4. \A n \in Machines \ {to} : InTransit(n)' = InTransit(n)
      BY <1>5, <2>2, Zenon DEF InTransit
    <2>5. Transit' = [Transit EXCEPT ![to] = Append(@, pkt)] /\ Transit'[to] = Append(InTransit(to), pkt)
      BY <2>3, <2>4, Zenon DEF Transit
    <2>6. InTransit(to) \in Seq(Sendable)
      BY PacketFacts DEF InTransit, OfficeType
    <2>7. Transit'[to] # <<>> /\ Transit'[to][Len(Transit'[to])] = pkt
      BY <1>1, <2>5, <2>6
    <2>8. Service!SendMail(m, to)
      BY <1>1, <1>2, <1>5, <2>1, <2>5, <2>7, Zenon DEF Service!SendMail, Alive, Dead, Transit
    <2> QED
      BY <2>8, Zenon
  <1> QED
    BY <1>1, <1>3, <1>4, <1>5, Zenon DEF SendEffect, pkt

\* CheckPktAvail moves a packet from the socket to the device: it stays on its way.
LEMMA IncomingServes ==
  ASSUME OfficeType, Addressed, NEW m \in Machines, IncomingPacket(m)
  PROVE  UNCHANGED Service!mailVars
  <1>1. /\ inHdr[m].length = 0 /\ socket[m] # <<>> /\ Head(socket[m]) \in Sendable
        /\ inHdr' = [inHdr EXCEPT ![m] = Head(socket[m])]
        /\ socket' = [socket EXCEPT ![m] = Tail(@)]
        /\ state' = state /\ reliable' = reliable /\ boxes' = boxes /\ sent' = sent
    BY IncomingDoes, Zenon
  <1>2. socket[m] \in Seq(Sendable) /\ Head(socket[m]).length # 0
    BY <1>1, PacketFacts, Zenon DEF OfficeType
  <1>3. inHdr'[m] = Head(socket[m]) /\ socket'[m] = Tail(socket[m])
    BY <1>1, Zenon DEF OfficeType
  <1>4. InTransit(m)' = InTransit(m)
    <2>1. InTransit(m) = socket[m]
      BY <1>1, <1>2 DEF InTransit
    <2>2. InTransit(m)' = <<Head(socket[m])>> \o Tail(socket[m])
      BY <1>2, <1>3, Zenon DEF InTransit
    <2> QED
      BY <1>1, <1>2, <2>1, <2>2, DeviceFirst, Zenon
  <1>5. \A n \in Machines \ {m} : InTransit(n)' = InTransit(n)
    BY <1>1, Zenon DEF InTransit, OfficeType
  <1>6. Transit' = Transit /\ Alive' = Alive /\ Dead' = Dead
    BY <1>1, <1>4, <1>5, Zenon DEF Transit, Alive, Dead, Up
  <1> QED
    BY <1>1, <1>6, Zenon DEF Service!mailVars, Alive, Dead, Transit

\* PostalDelivery delivers the first packet on its way.
LEMMA DeliveryServes ==
  ASSUME OfficeType, Announced, NEW m \in Machines, PostalDelivery(m)
  PROVE  Service!DeliverMail(m)
  <1>1. /\ Up(m) /\ inHdr[m].length # 0 /\ inHdr[m] \in Sendable
        /\ inHdr' = [inHdr EXCEPT ![m] = NoPacket]
        /\ boxes' = [boxes EXCEPT ![m][inHdr[m].mailHdr.to] = Append(@, inHdr[m])]
        /\ state' = state /\ reliable' = reliable /\ socket' = socket /\ sent' = sent
    BY DeliveryDoes, Zenon
  <1>2. socket[m] \in Seq(Sendable) /\ inHdr'[m] = NoPacket
    BY <1>1, Zenon DEF OfficeType
  <1>3. InTransit(m) = <<inHdr[m]>> \o socket[m] /\ InTransit(m)' = socket[m]
    <2>1. InTransit(m) = <<inHdr[m]>> \o socket[m]
      BY <1>1, Zenon DEF InTransit
    <2>2. InTransit(m)' = <<>> \o socket[m]
      BY <1>1, <1>2, PacketFacts, Zenon DEF InTransit
    <2>3. <<>> \o socket[m] = socket[m]
      BY <1>2
    <2> QED
      BY <2>1, <2>2, <2>3, Zenon
  <1>4. /\ InTransit(m) # <<>> /\ Head(InTransit(m)) = inHdr[m]
        /\ InTransit(m)' = Tail(InTransit(m))
    <2>1. /\ <<inHdr[m]>> \o socket[m] # <<>>
          /\ Head(<<inHdr[m]>> \o socket[m]) = inHdr[m]
          /\ Tail(<<inHdr[m]>> \o socket[m]) = socket[m]
      BY <1>1, <1>2
    <2> QED
      BY <1>3, <2>1, Zenon
  <1>5. \A n \in Machines \ {m} : InTransit(n)' = InTransit(n)
    BY <1>1, Zenon DEF InTransit, OfficeType
  <1>6. /\ Transit' = [Transit EXCEPT ![m] = Tail(@)]
        /\ Transit[m] # <<>> /\ Head(Transit[m]) = inHdr[m]
    BY <1>4, <1>5, Zenon DEF Transit
  <1>7. m \in Alive /\ Alive' = Alive /\ Dead' = Dead
    BY <1>1, Zenon DEF Alive, Dead, Up
  <1> QED
    BY <1>1, <1>6, <1>7, Zenon DEF Service!DeliverMail, Alive, Dead, Transit

\* PostOffice::Receive takes mail, or ends in Condition::Wait.
LEMMA ReceiveServes ==
  ASSUME OfficeType, NEW m \in Machines, NEW c, NEW b \in Boxes, Receive(m, c, b)
  PROVE  Service!Die(m) \/ Service!TakeMail(m, b)
  <1>1. CASE boxes[m][b] = <<>>
    <2>1. Up(m) /\ Stop(m, "noMail") /\ Gone(m)
      BY <1>1, Zenon DEF Receive
    <2> QED
      BY <2>1, StopDies, Zenon DEF Endings
  <1>2. CASE boxes[m][b] # <<>>
    <2>1. /\ Up(m) /\ boxes' = [boxes EXCEPT ![m][b] = Tail(@)]
          /\ state' = state /\ reliable' = reliable /\ socket' = socket
          /\ inHdr' = inHdr /\ sent' = sent
      BY <1>2, Zenon DEF Receive, SynchListRemove, netVars
    <2>2. m \in Alive /\ Alive' = Alive /\ Dead' = Dead /\ Transit' = Transit
      BY <2>1, Zenon DEF Alive, Dead, Transit, InTransit, Up
    <2>3. Service!TakeMail(m, b)
      BY <1>2, <2>1, <2>2, Zenon DEF Service!TakeMail, Alive, Dead, Transit
    <2> QED
      BY <2>3, Zenon
  <1> QED
    BY <1>1, <1>2, Zenon

LEMMA InitServes ==
  ASSUME TestInit
  PROVE  Service!MailInit
  <1>1. /\ state = [m \in Machines |-> "down"] /\ reliable \in BOOLEAN
        /\ socket = [m \in Machines |-> <<>>] /\ inHdr = [m \in Machines |-> NoPacket]
        /\ boxes = [m \in Machines |-> [b \in Boxes |-> <<>>]]
        /\ sent = [m \in Machines |-> 0]
    BY Zenon DEF TestInit, NetInit, OfficeInit
  <1>2. Alive = {} /\ Dead = {}
    BY <1>1 DEF Alive, Dead, Up, Endings
  <1>3. \A m \in Machines : InTransit(m) = <<>>
    <2>1. \A m \in Machines : InTransit(m) = <<>> \o <<>>
      BY <1>1, PacketFacts, Zenon DEF InTransit
    <2>2. <<>> \o <<>> = <<>>
      OBVIOUS
    <2> QED
      BY <2>1, <2>2, Zenon
  <1>4. Transit = [m \in Machines |-> <<>>] /\ (~reliable) \in BOOLEAN
    BY <1>1, <1>3, Zenon DEF Transit
  <1> QED
    BY <1>1, <1>2, <1>4, Zenon DEF Service!MailInit, Alive, Dead, Transit

\* MailTest, and the threads that send and receive as they like.
LEMMA ProgramServes ==
  ASSUME MailInv, NEW m \in Machines, Program(m)
  PROVE  Service!MailNext
  <1>1. OfficeType
    BY Zenon DEF MailInv, OfficeInv
  <1>2. ASSUME NEW to \in Machines, NEW hdr \in MailHdrs, Send(m, Main, to, hdr)
        PROVE  Service!MailNext
    <2>1. Service!Die(m) \/ Service!LoseMail(m) \/ Service!SendMail(m, to)
      BY <1>1, <1>2, SendServes, Zenon
    <2> QED
      BY <2>1, Zenon DEF Service!MailNext
  <1>3. ASSUME NEW b \in Boxes, Receive(m, Main, b)
        PROVE  Service!MailNext
    <2>1. Service!Die(m) \/ Service!TakeMail(m, b)
      BY <1>1, <1>3, ReceiveServes, Zenon
    <2> QED
      BY <2>1, Zenon DEF Service!MailNext
  <1>4. CASE SendHello(m)
    <2>1. Far(m) \in Machines /\ Send(m, Main, Far(m), Hello)
      BY <1>4, MailTestAssumption, Zenon DEF Far, SendHello
    <2>2. Hello \in MailHdrs
      BY MailTestAssumption, PostOfficeAssumption DEF Hello, MailHdrs, MaxMailSize
    <2> QED
      BY <1>2, <2>1, <2>2, Zenon
  <1>5. CASE SendAck(m)
    <2> DEFINE hdr == [Hello EXCEPT !.to = inMail[m].mailHdr.from]
    <2>1. Send(m, Main, inMail[m].from, hdr) /\ step[m] = "ack" /\ Up(m)
      BY <1>5, Zenon DEF SendAck, Goes, Send
    <2>2. inMail[m] \in Sendable
      BY <2>1, Zenon DEF MailInv, TestInv
    <2>3. inMail[m].from \in Machines /\ inMail[m].mailHdr.from \in Boxes
      BY <2>2, Zenon DEF Sendable, MailHdrs
    <2>4. Hello \in MailHdrs
      BY MailTestAssumption, PostOfficeAssumption DEF Hello, MailHdrs, MaxMailSize
    <2>5. hdr \in MailHdrs
      BY <2>3, <2>4, Zenon DEF Hello, MailHdrs
    <2> HIDE DEF hdr
    <2> QED
      BY <1>2, <2>1, <2>3, <2>5, Zenon
  <1>6. CASE ReceiveHello(m)
    BY <1>3, <1>6, MailTestAssumption, Zenon DEF ReceiveHello
  <1>7. CASE ReceiveAck(m)
    BY <1>3, <1>7, MailTestAssumption, Zenon DEF ReceiveAck
  <1>8. CASE Halt(m)
    <2>1. Up(m) /\ Stop(m, "halted") /\ Gone(m)
      BY <1>8, Zenon DEF Halt
    <2>2. Service!Die(m)
      BY <1>1, <2>1, StopDies, Zenon DEF Endings
    <2> QED
      BY <2>2, Zenon DEF Service!MailNext
  <1> QED
    BY <1>4, <1>5, <1>6, <1>7, <1>8, Zenon DEF Program

\* The device and the post office between the calls.
LEMMA OfficeServes ==
  ASSUME MailInv, NEW m \in Machines, Office(m)
  PROVE  Service!MailNext \/ UNCHANGED Service!mailVars
  <1>1. OfficeType /\ Addressed /\ Announced
    BY Zenon DEF MailInv, OfficeInv
  <1>2. CASE PacketSent(m)
    BY <1>2, UnseenStutters, Zenon DEF PacketSent, SendDoneFires
  <1>3. CASE IncomingPacket(m)
    BY <1>1, <1>3, IncomingServes, Zenon
  <1>4. CASE WorkerWakes(m)
    BY <1>4, UnseenStutters, Zenon DEF WorkerWakes, netVars
  <1>5. CASE PostalDelivery(m)
    <2>1. Service!DeliverMail(m)
      BY <1>1, <1>5, DeliveryServes, Zenon
    <2> QED
      BY <2>1, Zenon DEF Service!MailNext
  <1>6. ASSUME NEW c \in Clients, SendReturns(m, c)
        PROVE  UNCHANGED Service!mailVars
    BY <1>6, UnseenStutters, Zenon DEF SendReturns, netVars
  <1> QED
    BY <1>2, <1>3, <1>4, <1>5, <1>6, Zenon DEF Office

\* Every step is a step of the service, or one that it does not see.
LEMMA NextServes == MailInv /\ [TestNext]_mailVars => [Service!MailNext]_(Service!mailVars)
  <1> SUFFICES ASSUME MailInv, [TestNext]_mailVars
               PROVE  Service!MailNext \/ UNCHANGED Service!mailVars
    BY Zenon
  <1>0. OfficeType
    BY Zenon DEF MailInv, OfficeInv
  <1>1. CASE UNCHANGED mailVars
    BY <1>1, UnseenStutters, Zenon DEF mailVars, netVars, officeVars
  <1>2. ASSUME NEW m \in Machines, Boot(m), UNCHANGED <<officeVars, testVars>>
        PROVE  Service!MailNext
    <2>1. Service!Start(m)
      BY <1>0, <1>2, BootStarts, Zenon DEF officeVars
    <2> QED
      BY <2>1, Zenon DEF Service!MailNext
  <1>3. ASSUME NEW m \in Machines, PollsInVain(m), UNCHANGED <<officeVars, testVars>>
        PROVE  UNCHANGED Service!mailVars
    BY <1>1, <1>3, UnseenStutters, Zenon DEF PollsInVain, netVars, officeVars
  <1>4. ASSUME NEW m \in Machines, NEW c \in Clients, AnySend(m, c)
        PROVE  Service!MailNext
    <2>1. PICK to \in Machines, hdr \in Messages : Send(m, c, to, hdr)
      BY <1>4, Zenon DEF AnySend
    <2>2. hdr \in MailHdrs
      BY MailTestAssumption, Zenon DEF MailHdrs
    <2>3. Service!Die(m) \/ Service!LoseMail(m) \/ Service!SendMail(m, to)
      BY <1>0, <2>1, <2>2, SendServes, Zenon
    <2> QED
      BY <2>3, Zenon DEF Service!MailNext
  <1>5. ASSUME NEW m \in Machines, NEW c \in Clients, AnyReceive(m, c)
        PROVE  Service!MailNext
    <2>1. PICK b \in Boxes : Receive(m, c, b)
      BY <1>5, Zenon DEF AnyReceive
    <2>2. Service!Die(m) \/ Service!TakeMail(m, b)
      BY <1>0, <2>1, ReceiveServes, Zenon
    <2> QED
      BY <2>2, Zenon DEF Service!MailNext
  <1>6. CASE AllStopped
    BY <1>6, <1>1, Zenon DEF AllStopped
  <1> QED
    BY <1>1, <1>2, <1>3, <1>4, <1>5, <1>6, ProgramServes, OfficeServes, Zenon DEF TestNext

\* Network and PostOffice implement the mail service: whatever the socket, the one
\* packet of the device, polling and the postal worker do in between, mail is not
\* delivered twice, not out of the order it was sent in, and lost only where the
\* network loses it or its machine stops.
THEOREM ServiceImplemented == TestSpec => ImplementsService
  <1>1. TestSpec => TestInit /\ [][TestNext]_mailVars
    BY PTL DEF TestSpec
  <1>2. TestInit => Service!MailInit
    BY InitServes, Zenon
  <1> QED
    BY <1>1, <1>2, InitMailInv, NextMailInv, NextServes, PTL DEF ImplementsService, Service!MailSpec

-----------------------------------------------------------------------------
(***************************************************************************)
(* An acknowledgement means that the message was received                  *)
(***************************************************************************)

Items(list) == {list[k] : k \in DOMAIN list}

\* The packets on their way to a machine.
Coming(m) == Items(socket[m]) \cup ({inHdr[m]} \ {NoPacket})

\* The machine that m writes to has received the message of m and is through with
\* sending: what it sends last is the acknowledgement.
Answered(m) ==
  /\ <<m, 1>> \in got[Far(m)]
  /\ step[Far(m)] \in {"wait", "halt"}
  /\ state[Far(m)] # "noPeer"

\* The two messages of MailTest.  They differ in the mailbox they go to.
IsHello(p) == p.mailHdr = Hello /\ p.to = Far(p.from) /\ p.data = <<p.from, 1>>
IsAck(p) == p.mailHdr = [Hello EXCEPT !.to = 1] /\ Answered(p.to)
FromTest(p) == IsHello(p) \/ IsAck(p)

\* Where MailTest is on machine m, what it knows.
Knows(m) ==
  /\ step[m] = "send" => sent[m] = 0
  /\ Up(m) /\ step[m] = "ack" =>
       IsHello(inMail[m]) /\ inMail[m].to = m /\ <<inMail[m].from, 1>> \in got[m]
  /\ (Up(m) /\ step[m] = "halt") \/ state[m] = "halted" => Answered(m)

\* There is no mail but that of MailTest, and it is in the mailbox it was sent to.
TestMail(m) ==
  /\ \A p \in Coming(m) : FromTest(p)
  /\ \A b \in Boxes : \A p \in Items(boxes[m][b]) :
       FromTest(p) /\ p.to = m /\ p.mailHdr.to = b

AckInv ==
  /\ got \in [Machines -> SUBSET (Machines \X Nat)]
  /\ IF workload = "test"
     THEN \A m \in Machines : Knows(m) /\ TestMail(m)
     ELSE \A m \in Machines : state[m] # "halted"

\* A step that makes no packet: it takes mail away, or a mailbox gets what came.
NoNewMail ==
  \A m \in Machines :
    /\ Coming(m)' \subseteq Coming(m)
    /\ \A b \in Boxes :
         Items(boxes[m][b])' \subseteq Items(boxes[m][b]) \cup {p \in Coming(m) : p.mailHdr.to = b}

\* What one machine has been told stays true.
GoesOn ==
  \A m \in Machines :
    /\ got[m] \subseteq got'[m]
    /\ step[m] \in {"wait", "halt"} =>
         step'[m] \in {"wait", "halt"} /\ (state'[m] = "noPeer" => state[m] = "noPeer")

LEMMA ItemFacts ==
  ASSUME NEW S, NEW list \in Seq(S), NEW x \in S
  PROVE  /\ Items(<<>>) = {}
         /\ Items(Append(list, x)) = Items(list) \cup {x}
         /\ list # <<>> => Head(list) \in Items(list) /\ Items(Tail(list)) \subseteq Items(list)
         /\ Items(list) \subseteq S
  <1>1. Items(<<>>) = {}
    BY DEF Items
  <1>2. Items(Append(list, x)) = Items(list) \cup {x}
    <2>1. /\ Len(list) \in Nat /\ DOMAIN list = 1..Len(list)
          /\ DOMAIN Append(list, x) = 1..(Len(list) + 1)
          /\ Append(list, x)[Len(list) + 1] = x
          /\ \A k \in 1..Len(list) : Append(list, x)[k] = list[k]
      OBVIOUS
    <2>2. /\ Len(list) + 1 \in 1..(Len(list) + 1)
          /\ \A k \in 1..Len(list) : k \in 1..(Len(list) + 1)
          /\ \A k \in 1..(Len(list) + 1) : k \in 1..Len(list) \/ k = Len(list) + 1
      BY <2>1
    <2>3. \A p \in Items(Append(list, x)) : p \in Items(list) \/ p = x
      BY <2>1, <2>2, Zenon DEF Items
    <2>4. \A p \in Items(list) : p \in Items(Append(list, x))
      BY <2>1, <2>2, Zenon DEF Items
    <2>5. x \in Items(Append(list, x))
      BY <2>1, <2>2, Zenon DEF Items
    <2> QED
      BY <2>3, <2>4, <2>5, Zenon
  <1>3. list # <<>> => Head(list) \in Items(list) /\ Items(Tail(list)) \subseteq Items(list)
    <2> HAVE list # <<>>
    <2>1. 1 \in DOMAIN list /\ Head(list) = list[1]
      OBVIOUS
    <2>2. \A k \in DOMAIN Tail(list) : k + 1 \in DOMAIN list /\ Tail(list)[k] = list[k + 1]
      OBVIOUS
    <2>3. Head(list) \in Items(list)
      BY <2>1, Zenon DEF Items
    <2>4. \A p \in Items(Tail(list)) : p \in Items(list)
      BY <2>2, Zenon DEF Items
    <2> QED
      BY <2>3, <2>4, Zenon
  <1>4. Items(list) \subseteq S
    BY DEF Items
  <1> QED
    BY <1>1, <1>2, <1>3, <1>4, Zenon

\* A process that ends takes its mail with it.
LEMMA StopNoMail ==
  ASSUME OfficeType, NEW m \in Machines, NEW how, Stop(m, how), Gone(m)
  PROVE  NoNewMail
  <1>1. /\ socket'[m] = <<>> /\ inHdr'[m] = NoPacket /\ boxes'[m] = [b \in Boxes |-> <<>>]
        /\ \A n \in Machines \ {m} : /\ socket'[n] = socket[n] /\ inHdr'[n] = inHdr[n]
                                     /\ boxes'[n] = boxes[n]
    BY Zenon DEF OfficeType, Stop, Gone
  <1>2. Items(<<>>) = {}
    BY DEF Items
  <1>3. Coming(m)' = {}
    BY <1>1, <1>2, Zenon DEF Coming
  <1>4. \A b \in Boxes : Items(boxes[m][b])' = {}
    BY <1>1, <1>2, Zenon
  <1>5. ASSUME NEW n \in Machines \ {m}
        PROVE  Coming(n)' = Coming(n) /\ \A b \in Boxes : Items(boxes[n][b])' = Items(boxes[n][b])
    BY <1>1, Zenon DEF Coming
  <1> QED
    BY <1>3, <1>4, <1>5, Zenon DEF NoNewMail

\* CheckPktAvail takes from the socket what it puts into the device.
LEMMA IncomingNoMail ==
  ASSUME OfficeType, Addressed, NEW m \in Machines, IncomingPacket(m)
  PROVE  NoNewMail
  <1>1. /\ socket[m] # <<>> /\ inHdr' = [inHdr EXCEPT ![m] = Head(socket[m])]
        /\ socket' = [socket EXCEPT ![m] = Tail(@)] /\ boxes' = boxes
    BY IncomingDoes, Zenon
  <1>2. socket[m] \in Seq(Sendable) /\ Head(socket[m]) \in Sendable
    BY IncomingDoes, Zenon DEF OfficeType
  <1>3. Head(socket[m]) \in Items(socket[m]) /\ Items(Tail(socket[m])) \subseteq Items(socket[m])
    BY <1>1, <1>2, ItemFacts, Zenon
  <1>4. inHdr'[m] = Head(socket[m]) /\ socket'[m] = Tail(socket[m])
    BY <1>1, Zenon DEF OfficeType
  <1>5. Coming(m)' \subseteq Coming(m)
    BY <1>3, <1>4, Zenon DEF Coming
  <1>6. \A n \in Machines \ {m} : Coming(n)' = Coming(n)
    BY <1>1, Zenon DEF Coming, OfficeType
  <1> QED
    BY <1>1, <1>5, <1>6, Zenon DEF NoNewMail

\* PostalDelivery puts into the mailbox what the device had.
LEMMA DeliveryNoMail ==
  ASSUME OfficeType, Announced, NEW m \in Machines, PostalDelivery(m)
  PROVE  NoNewMail
  <1> DEFINE pkt == inHdr[m]
  <1>1. /\ pkt \in Sendable /\ pkt.mailHdr.to \in Boxes /\ socket' = socket
        /\ inHdr' = [inHdr EXCEPT ![m] = NoPacket]
        /\ boxes' = [boxes EXCEPT ![m][pkt.mailHdr.to] = Append(@, pkt)]
    BY DeliveryDoes, Zenon
  <1>2. pkt \in Coming(m)
    BY <1>1, PacketFacts, Zenon DEF Coming
  <1>3. inHdr'[m] = NoPacket /\ \A n \in Machines \ {m} : inHdr'[n] = inHdr[n]
    BY <1>1, Zenon DEF OfficeType
  <1>4. \A n \in Machines : Coming(n)' \subseteq Coming(n)
    BY <1>1, <1>3, Zenon DEF Coming
  <1>5. \A n \in Machines, b \in Boxes : \/ boxes'[n][b] = boxes[n][b]
                                         \/ /\ n = m /\ b = pkt.mailHdr.to
                                            /\ boxes'[n][b] = Append(boxes[n][b], pkt)
    BY <1>1, Zenon DEF OfficeType
  <1> HIDE DEF pkt
  <1>6. \A n \in Machines, b \in Boxes : boxes[n][b] \in Seq(Sendable)
    BY Zenon DEF OfficeType
  <1>7. ASSUME NEW n \in Machines, NEW b \in Boxes
        PROVE  Items(boxes[n][b])' \subseteq Items(boxes[n][b]) \cup {p \in Coming(n) : p.mailHdr.to = b}
    <2>1. CASE boxes'[n][b] = boxes[n][b]
      BY <2>1, Zenon
    <2>2. CASE n = m /\ b = pkt.mailHdr.to /\ boxes'[n][b] = Append(boxes[n][b], pkt)
      <3>1. Items(Append(boxes[n][b], pkt)) = Items(boxes[n][b]) \cup {pkt}
        BY <1>1, <1>6, ItemFacts, Zenon
      <3>2. Items(boxes[n][b])' = Items(boxes[n][b]) \cup {pkt}
        BY <2>2, <3>1, Zenon
      <3> QED
        BY <1>2, <2>2, <3>2, Zenon
    <2> QED
      BY <1>5, <2>1, <2>2, Zenon
  <1> QED
    BY <1>4, <1>7, Zenon DEF NoNewMail

\* PostOffice::Receive takes mail from a mailbox.
LEMMA ReceiveNoMail ==
  ASSUME OfficeType, NEW m \in Machines, NEW c, NEW b \in Boxes, Receive(m, c, b)
  PROVE  NoNewMail
  <1>1. CASE boxes[m][b] = <<>>
    BY <1>1, StopNoMail, Zenon DEF Receive
  <1>2. CASE boxes[m][b] # <<>>
    <2>1. /\ boxes' = [boxes EXCEPT ![m][b] = Tail(@)]
          /\ socket' = socket /\ inHdr' = inHdr
      BY <1>2, Zenon DEF Receive, SynchListRemove, netVars
    <2>2. boxes[m][b] \in Seq(Sendable)
      BY Zenon DEF OfficeType
    <2>3. Items(Tail(boxes[m][b])) \subseteq Items(boxes[m][b])
      <3>1. Head(boxes[m][b]) \in Sendable
        BY <1>2, <2>2
      <3> QED
        BY <1>2, <2>2, <3>1, ItemFacts, Zenon
    <2>4. \A n \in Machines, d \in Boxes : \/ boxes'[n][d] = boxes[n][d]
                                           \/ n = m /\ d = b /\ boxes'[n][d] = Tail(boxes[m][b])
      BY <2>1, Zenon DEF OfficeType
    <2>5. \A n \in Machines, d \in Boxes : Items(boxes[n][d])' \subseteq Items(boxes[n][d])
      BY <2>3, <2>4, Zenon
    <2>6. \A n \in Machines : Coming(n)' = Coming(n)
      BY <2>1, Zenon DEF Coming
    <2> QED
      BY <2>5, <2>6, Zenon DEF NoNewMail
  <1> QED
    BY <1>1, <1>2, Zenon

\* Nothing about mail changes.
LEMMA SameMail ==
  ASSUME socket' = socket, inHdr' = inHdr, boxes' = boxes
  PROVE  NoNewMail
  BY Zenon DEF NoNewMail, Coming

\* What has been answered stays answered.
LEMMA AnsweredKept ==
  ASSUME GoesOn
  PROVE  \A m \in Machines : Answered(m) => Answered(m)'
  <1>1. \A m \in Machines : Far(m) \in Machines
    BY MailTestAssumption, Zenon DEF Far
  <1> QED
    BY <1>1, Zenon DEF GoesOn, Answered

\* The mail of MailTest stays what it is, in a step that makes no other.
LEMMA MailFromTest ==
  ASSUME AckInv, OfficeType, Addressed, workload = "test", GoesOn,
         NEW News, \A p \in News : FromTest(p)',
         \A m \in Machines : Coming(m)' \subseteq Coming(m) \cup News,
         \A m \in Machines, b \in Boxes :
           Items(boxes[m][b])' \subseteq
             Items(boxes[m][b]) \cup {p \in Coming(m) : p.mailHdr.to = b}
  PROVE  \A m \in Machines : TestMail(m)'
  <1> TAKE m \in Machines
  <1>1. ASSUME NEW p, p.to = m, FromTest(p)
        PROVE  FromTest(p)'
    <2>1. CASE IsHello(p)
      BY <2>1, Zenon DEF FromTest, IsHello
    <2>2. CASE IsAck(p)
      <3>1. Answered(m)'
        BY <1>1, <2>2, AnsweredKept, Zenon DEF IsAck
      <3>2. IsAck(p)'
        BY <1>1, <2>2, <3>1, Zenon DEF IsAck
      <3> QED
        BY <3>2, Zenon DEF FromTest
    <2> QED
      BY <1>1, <2>1, <2>2, Zenon DEF FromTest
  <1>2. \A p \in Coming(m) : p.to = m
    <2>1. \A k \in DOMAIN socket[m] : socket[m][k].to = m
      BY Zenon DEF Addressed
    <2>2. \A p \in Items(socket[m]) : p.to = m
      BY <2>1, SMT DEF Items
    <2> QED
      BY <2>2, Zenon DEF Coming, Addressed
  <1>3. /\ \A p \in Coming(m) : FromTest(p)
        /\ \A b \in Boxes : \A p \in Items(boxes[m][b]) :
             FromTest(p) /\ p.to = m /\ p.mailHdr.to = b
    BY Zenon DEF AckInv, TestMail
  <1>4. \A p \in Coming(m) : FromTest(p)'
    BY <1>1, <1>2, <1>3, Zenon
  <1>5. \A b \in Boxes : \A p \in Items(boxes[m][b]) :
          FromTest(p)' /\ p.to = m /\ p.mailHdr.to = b
    BY <1>1, <1>3, Zenon
  <1>6. \A p \in Coming(m)' : FromTest(p)'
    BY <1>4, Zenon
  <1>7. ASSUME NEW b \in Boxes, NEW p \in Items(boxes[m][b])'
        PROVE  FromTest(p)' /\ p.to = m /\ p.mailHdr.to = b
    <2>1. p \in Items(boxes[m][b]) \/ (p \in Coming(m) /\ p.mailHdr.to = b)
      BY <1>7, Zenon
    <2> QED
      BY <1>2, <1>4, <1>5, <2>1, Zenon
  <1> QED
    BY <1>6, <1>7, Zenon DEF TestMail

\* A machine that the step leaves alone knows what it knew.
LEMMA OthersKnow ==
  ASSUME NEW m \in Machines, Knows(m), GoesOn,
         Up(m)' => Up(m) \/ step[m] = "send",
         state'[m] = "halted" => state[m] = "halted",
         step'[m] = step[m], inMail'[m] = inMail[m], sent'[m] = sent[m]
  PROVE  Knows(m)'
  <1>1. Answered(m) => Answered(m)'
    BY AnsweredKept, Zenon
  <1>2. got[m] \subseteq got'[m]
    BY Zenon DEF GoesOn
  <1>3. Up(m)' /\ step'[m] \in {"ack", "halt"} => Up(m)
    BY Zenon
  <1>4. (step[m] = "send" => sent[m] = 0)'
    BY Zenon DEF Knows
  <1>5. (Up(m) /\ step[m] = "ack" =>
           IsHello(inMail[m]) /\ inMail[m].to = m /\ <<inMail[m].from, 1>> \in got[m])'
    BY <1>2, <1>3, Zenon DEF Knows, IsHello
  <1>6. ((Up(m) /\ step[m] = "halt") \/ state[m] = "halted" => Answered(m))'
    BY <1>1, <1>3, Zenon DEF Knows
  <1> QED
    BY <1>4, <1>5, <1>6, Zenon DEF Knows

\* A step of the devices and the worker, a machine that starts, and everything the
\* threads of the other workload do.
LEMMA QuietKeepsAck ==
  ASSUME AckInv, OfficeType, Addressed, NoNewMail \/ workload # "test",
         UNCHANGED testVars, sent' = sent \/ workload # "test",
         \A m \in Machines : /\ Up(m)' => Up(m) \/ step[m] = "send"
                             /\ state'[m] = "halted" => state[m] = "halted"
                             /\ state'[m] = "noPeer" /\ workload = "test" => state[m] = "noPeer"
  PROVE  AckInv'
  <1>1. workload' = workload /\ step' = step /\ inMail' = inMail /\ got' = got
    BY Zenon DEF testVars
  <1>2. CASE workload # "test"
    BY <1>1, <1>2, Zenon DEF AckInv
  <1>3. CASE workload = "test"
    <2>1. GoesOn
      BY <1>1, <1>3, Zenon DEF GoesOn
    <2>2. \A m \in Machines : Knows(m)'
      BY <1>1, <1>3, <2>1, OthersKnow, Zenon DEF AckInv
    <2> DEFINE News == {}
    <2>3. /\ \A p \in News : FromTest(p)'
          /\ \A m \in Machines : Coming(m)' \subseteq Coming(m) \cup News
          /\ \A m \in Machines, b \in Boxes :
               Items(boxes[m][b])' \subseteq
                 Items(boxes[m][b]) \cup {p \in Coming(m) : p.mailHdr.to = b}
      BY <1>3, Zenon DEF NoNewMail
    <2> HIDE DEF News
    <2>4. \A m \in Machines : TestMail(m)'
      BY <1>3, <2>1, <2>3, MailFromTest, Zenon
    <2> QED
      BY <1>1, <1>3, <2>2, <2>4, Zenon DEF AckInv
  <1> QED
    BY <1>2, <1>3, Zenon

\* What a statement of MailTest has to establish.
LEMMA StatementKeepsAck ==
  ASSUME AckInv, OfficeType, Addressed, NEW m \in Machines, StepOf(m), workload = "test",
         workload' = "test", GoesOn, Knows(m)', got' \in [Machines -> SUBSET (Machines \X Nat)],
         \A n \in Machines \ {m} : step'[n] = step[n] /\ inMail'[n] = inMail[n] /\ sent'[n] = sent[n],
         NEW News, \A p \in News : FromTest(p)',
         \A n \in Machines : Coming(n)' \subseteq Coming(n) \cup News,
         \A n \in Machines, b \in Boxes :
           Items(boxes[n][b])' \subseteq
             Items(boxes[n][b]) \cup {p \in Coming(n) : p.mailHdr.to = b}
  PROVE  AckInv'
  <1>1. \A n \in Machines : TestMail(n)'
    BY MailFromTest, Zenon
  <1>2. ASSUME NEW n \in Machines \ {m} PROVE Knows(n)'
    <2>1. state'[n] = state[n] /\ step'[n] = step[n] /\ inMail'[n] = inMail[n] /\ sent'[n] = sent[n]
      BY Zenon DEF StepOf
    <2>2. Knows(n)
      BY Zenon DEF AckInv
    <2> QED
      BY <2>1, <2>2, OthersKnow, Zenon DEF Up
  <1> QED
    BY <1>1, <1>2, Zenon DEF AckInv

\* A statement of MailTest that makes no packet.
LEMMA QuietStatement ==
  ASSUME AckInv, OfficeType, Addressed, NEW m \in Machines, StepOf(m), workload = "test",
         workload' = "test", GoesOn, Knows(m)', got' \in [Machines -> SUBSET (Machines \X Nat)],
         NoNewMail,
         \A n \in Machines \ {m} : step'[n] = step[n] /\ inMail'[n] = inMail[n] /\ sent'[n] = sent[n]
  PROVE  AckInv'
  <1> DEFINE News == {}
  <1>1. /\ \A p \in News : FromTest(p)'
        /\ \A n \in Machines : Coming(n)' \subseteq Coming(n) \cup News
        /\ \A n \in Machines, b \in Boxes :
             Items(boxes[n][b])' \subseteq
               Items(boxes[n][b]) \cup {p \in Coming(n) : p.mailHdr.to = b}
    BY Zenon DEF NoNewMail
  <1> HIDE DEF News
  <1> QED
    BY <1>1, StatementKeepsAck, Zenon

\* What PostOffice::Send adds to the mail on its way.
LEMMA SendComing ==
  ASSUME OfficeType, NEW m \in Machines, NEW to \in Machines, NEW pkt \in Sendable,
         boxes' = boxes, inHdr' = inHdr,
         socket' = socket \/ socket' = [socket EXCEPT ![to] = Append(@, pkt)]
  PROVE  /\ \A n \in Machines : Coming(n)' \subseteq Coming(n) \cup {pkt}
         /\ \A n \in Machines, b \in Boxes :
              Items(boxes[n][b])' \subseteq
                Items(boxes[n][b]) \cup {p \in Coming(n) : p.mailHdr.to = b}
  <1>1. Items(Append(socket[to], pkt)) = Items(socket[to]) \cup {pkt}
    <2>1. socket[to] \in Seq(Sendable)
      BY Zenon DEF OfficeType
    <2> QED
      BY <2>1, ItemFacts, Zenon
  <1>2. \A n \in Machines : \/ socket'[n] = socket[n]
                            \/ n = to /\ socket'[n] = Append(socket[to], pkt)
    BY Zenon DEF OfficeType
  <1>3. \A n \in Machines : Items(socket[n])' \subseteq Items(socket[n]) \cup {pkt}
    BY <1>1, <1>2, Zenon
  <1>4. \A n \in Machines : Coming(n)' \subseteq Coming(n) \cup {pkt}
    BY <1>3, Zenon DEF Coming
  <1> QED
    BY <1>4, Zenon

\* The two statements of MailTest that send.
LEMMA SendStatement ==
  ASSUME AckInv, MailInv, NEW m \in Machines, NEW to \in Machines, NEW hdr \in MailHdrs,
         Send(m, Main, to, hdr), workload = "test", workload' = workload,
         step[m] \in {"send", "ack"}, NEW next \in {"receive", "wait"},
         step' = [step EXCEPT ![m] = next], inMail' = inMail, got' = got,
         NEW pkt, pkt = PacketOf(m, to, hdr), state' = state => FromTest(pkt)'
  PROVE  AckInv'
  <1> DEFINE News == {pkt}
  <1>1. /\ OfficeType /\ Addressed
        /\ step \in [Machines -> {"send", "receive", "ack", "wait", "halt"}]
        /\ got' \in [Machines -> SUBSET (Machines \X Nat)]
    BY Zenon DEF MailInv, OfficeInv, TestInv, AckInv
  <1>2. Up(m) /\ pkt \in Sendable /\ SendEffect(m, Main, to, hdr) /\ StepOf(m)
    BY <1>1, SendDoes, SendIsStepOf, Zenon
  <1>3. step'[m] = next /\ \A n \in Machines \ {m} : step'[n] = step[n]
    BY <1>1, Zenon
  <1>4. \A n \in Machines \ {m} : state'[n] = state[n] /\ sent'[n] = sent[n]
    BY <1>1, <1>2, Zenon DEF SendEffect, StepOf, Gone, OfficeType
  <1>5. GoesOn
    <2>1. step[m] \notin {"wait", "halt"}
      OBVIOUS
    <2> QED
      BY <1>3, <1>4, <2>1, Zenon DEF GoesOn
  <1>6. state'[m] # "halted"
    BY <1>1, <1>2, Zenon DEF SendEffect, Stop, OfficeType, Up
  <1>7. Knows(m)'
    BY <1>3, <1>6, Zenon DEF Knows
  <1>8. CASE Stop(m, "noPeer") /\ Gone(m)
    BY <1>1, <1>2, <1>3, <1>4, <1>5, <1>7, <1>8, StopNoMail, QuietStatement, Zenon
  <1>9. CASE /\ state' = state /\ boxes' = boxes /\ inHdr' = inHdr
             /\ socket' = socket \/ socket' = [socket EXCEPT ![to] = Append(@, pkt)]
    <2>1. FromTest(pkt)'
      BY <1>9, Zenon
    <2>2. /\ \A p \in News : FromTest(p)'
          /\ \A n \in Machines : Coming(n)' \subseteq Coming(n) \cup News
          /\ \A n \in Machines, b \in Boxes :
               Items(boxes[n][b])' \subseteq
                 Items(boxes[n][b]) \cup {p \in Coming(n) : p.mailHdr.to = b}
      BY <1>1, <1>2, <1>9, <2>1, SendComing, Zenon
    <2> HIDE DEF News
    <2> QED
      BY <1>1, <1>2, <1>3, <1>4, <1>5, <1>7, <2>2, StatementKeepsAck, Zenon
  <1> QED
    BY <1>2, <1>8, <1>9, Zenon DEF SendEffect

\* MailTest sends its message.
LEMMA HelloKeepsAck ==
  ASSUME AckInv, MailInv, NEW m \in Machines, SendHello(m)
  PROVE  AckInv'
  <1>1. /\ Send(m, Main, Far(m), Hello) /\ workload = "test" /\ workload' = workload
        /\ step[m] = "send" /\ step' = [step EXCEPT ![m] = "receive"]
        /\ inMail' = inMail /\ got' = got
    BY Zenon DEF SendHello, Goes
  <1>2. Far(m) \in Machines
    BY MailTestAssumption, Zenon DEF Far
  <1>3. Hello \in MailHdrs
    BY MailTestAssumption, PostOfficeAssumption DEF Hello, MailHdrs, MaxMailSize
  <1>4. PICK pkt : pkt = PacketOf(m, Far(m), Hello)
    BY Zenon
  <1>5. sent[m] = 0
    BY <1>1, Zenon DEF AckInv, Knows
  <1>6. sent[m] + 1 = 1
    BY <1>5
  <1>7. pkt.mailHdr = Hello /\ pkt.to = Far(m) /\ pkt.from = m /\ pkt.data = <<m, 1>>
    BY <1>4, <1>6, Zenon DEF PacketOf
  <1>8. FromTest(pkt)'
    BY <1>7, Zenon DEF FromTest, IsHello
  <1> QED
    BY <1>1, <1>2, <1>3, <1>4, <1>8, SendStatement, Zenon

\* MailTest acknowledges the message it has received.
LEMMA AckKeepsAck ==
  ASSUME AckInv, MailInv, NEW m \in Machines, SendAck(m)
  PROVE  AckInv'
  <1> DEFINE to == inMail[m].from
             hdr == [Hello EXCEPT !.to = inMail[m].mailHdr.from]
  <1>1. /\ Send(m, Main, to, hdr) /\ workload = "test" /\ workload' = workload
        /\ step[m] = "ack" /\ step' = [step EXCEPT ![m] = "wait"]
        /\ inMail' = inMail /\ got' = got
    BY Zenon DEF SendAck, Goes
  <1>2. Up(m)
    BY <1>1, Zenon DEF Send
  <1>3. IsHello(inMail[m]) /\ inMail[m].to = m /\ <<to, 1>> \in got[m]
    BY <1>1, <1>2, Zenon DEF AckInv, Knows
  <1>4. inMail[m] \in Sendable
    BY <1>1, <1>2, Zenon DEF MailInv, TestInv
  <1>5. to \in Machines
    BY <1>4, Zenon DEF Sendable
  <1>6. hdr = [Hello EXCEPT !.to = 1] /\ Far(to) = m
    <2>1. inMail[m].mailHdr.from = 1
      <3>1. inMail[m].mailHdr = Hello
        BY <1>3, Zenon DEF IsHello
      <3>2. Hello.from = 1
        BY Zenon DEF Hello
      <3> QED
        BY <3>1, <3>2, Zenon
    <2> QED
      BY <1>3, <2>1, Zenon DEF IsHello
  <1>7. hdr \in MailHdrs
    <2>1. Hello \in MailHdrs /\ 1 \in Boxes
      BY MailTestAssumption, PostOfficeAssumption DEF Hello, MailHdrs, MaxMailSize
    <2> QED
      BY <1>6, <2>1, Zenon DEF Hello, MailHdrs
  <1>8. PICK pkt : pkt = PacketOf(m, to, hdr)
    BY Zenon
  <1>9. pkt.mailHdr = [Hello EXCEPT !.to = 1] /\ pkt.to = to
    BY <1>6, <1>8, Zenon DEF PacketOf
  <1>10. step'[m] = "wait"
    BY <1>1, Zenon DEF MailInv, TestInv
  <1>11. ASSUME state' = state PROVE FromTest(pkt)'
    <2>1. PICK far : far = to
      BY Zenon
    <2>2. <<far, 1>> \in got'[m] /\ step'[m] \in {"wait", "halt"} /\ state'[m] # "noPeer" /\ Far(far) = m
      BY <1>1, <1>2, <1>3, <1>6, <1>10, <1>11, <2>1, Zenon DEF Up
    <2>3. Answered(far)'
      BY <2>2, Zenon DEF Answered
    <2>4. IsAck(pkt)'
      BY <1>9, <2>1, <2>3, Zenon DEF IsAck
    <2> QED
      BY <2>4, Zenon DEF FromTest
  <1> HIDE DEF to, hdr
  <1> QED
    BY <1>1, <1>5, <1>7, <1>8, <1>11, SendStatement, Zenon

\* MailTest receives: mailbox 0 holds messages only, mailbox 1 acknowledgements.
LEMMA ReceiveKeepsAck ==
  ASSUME AckInv, MailInv, NEW m \in Machines, ReceiveHello(m) \/ ReceiveAck(m)
  PROVE  AckInv'
  <1>1. PICK b \in {0, 1}, next \in {"ack", "halt"} :
          /\ Receive(m, Main, b) /\ Got(m, b) /\ workload = "test" /\ workload' = workload
          /\ step' = [step EXCEPT ![m] = next]
          /\ \/ b = 0 /\ step[m] = "receive" /\ next = "ack"
             \/ b = 1 /\ step[m] = "wait" /\ next = "halt"
    <2>1. CASE ReceiveHello(m)
      BY <2>1, Zenon DEF ReceiveHello, Goes
    <2>2. CASE ReceiveAck(m)
      BY <2>2, Zenon DEF ReceiveAck, Goes
    <2> QED
      BY <2>1, <2>2, Zenon
  <1>2. OfficeInv /\ OfficeType /\ Addressed /\ b \in Boxes /\ Main \in Clients
    BY MailTestAssumption, Zenon DEF MailInv, OfficeInv
  <1>3. /\ step \in [Machines -> {"send", "receive", "ack", "wait", "halt"}]
        /\ got \in [Machines -> SUBSET (Machines \X Nat)]
        /\ inMail \in [Machines -> Sendable \cup {NoPacket}]
    BY Zenon DEF MailInv, TestInv, AckInv
  <1>4. NoNewMail /\ StepOf(m)
    BY <1>1, <1>2, ReceiveNoMail, ReceiveIsStepOf, Zenon
  <1>5. step'[m] = next /\ \A n \in Machines \ {m} : step'[n] = step[n]
    BY <1>1, <1>3, Zenon
  <1>6. CASE boxes[m][b] = <<>>
    <2>1. Stop(m, "noMail") /\ sent' = sent /\ inMail' = inMail /\ got' = got
      BY <1>1, <1>6, Zenon DEF Receive, Gone, Got
    <2>2. state'[m] = "noMail"
      BY <1>2, <2>1, Zenon DEF Stop, OfficeType
    <2>3. GoesOn
      BY <1>1, <1>4, <1>5, <2>1, <2>2, Zenon DEF GoesOn, StepOf
    <2>4. Knows(m)'
      BY <1>5, <2>2, Zenon DEF Knows, Up
    <2> QED
      BY <1>1, <1>2, <1>3, <1>4, <1>5, <2>1, <2>3, <2>4, QuietStatement, Zenon
  <1>7. CASE boxes[m][b] # <<>>
    <2> DEFINE p == Head(boxes[m][b])
    <2>1. /\ state' = state /\ sent' = sent
          /\ inMail' = [inMail EXCEPT ![m] = p] /\ got' = [got EXCEPT ![m] = @ \cup {p.data}]
      BY <1>1, <1>7, Zenon DEF Receive, Got, netVars
    <2>2. boxes[m][b] \in Seq(Sendable)
      BY <1>2, Zenon DEF OfficeType
    <2>3. p \in Sendable
      BY <1>7, <2>2
    <2>4. p \in Items(boxes[m][b])
      BY <1>7, <2>2, <2>3, ItemFacts, Zenon
    <2>5. FromTest(p) /\ p.to = m /\ p.mailHdr.to = b
      <3>1. TestMail(m)
        BY <1>1, Zenon DEF AckInv
      <3> QED
        BY <1>2, <2>4, <3>1, Zenon DEF TestMail
    <2>6. p.data \in Machines \X Nat
      BY <2>3, Zenon DEF Sendable
    <2> HIDE DEF p
    <2>7. /\ inMail'[m] = p /\ got'[m] = got[m] \cup {p.data}
          /\ \A n \in Machines \ {m} : inMail'[n] = inMail[n] /\ got'[n] = got[n]
      BY <1>3, <2>1, Zenon
    <2>8. got' \in [Machines -> SUBSET (Machines \X Nat)]
      <3>1. got[m] \cup {p.data} \in SUBSET (Machines \X Nat)
        BY <1>3, <2>6, Zenon
      <3> QED
        BY <1>3, <2>1, <3>1, Zenon
    <2>9. GoesOn
      BY <1>1, <1>5, <2>1, <2>7, Zenon DEF GoesOn
    <2>10. Up(m)
      BY <1>1, Zenon DEF Receive
    <2>11. Knows(m)'
      <3>1. CASE b = 0 /\ next = "ack"
        <4>1. IsHello(p)
          BY <2>5, <3>1 DEF FromTest, IsHello, IsAck, Hello
        <4>2. <<p.from, 1>> \in got'[m]
          BY <2>7, <4>1, Zenon DEF IsHello
        <4>3. IsHello(inMail[m])' /\ inMail'[m].to = m /\ <<inMail'[m].from, 1>> \in got'[m]
          BY <2>5, <2>7, <4>1, <4>2, Zenon DEF IsHello
        <4>4. step'[m] = "ack" /\ state'[m] = "up"
          BY <1>5, <2>1, <2>10, <3>1, Zenon DEF Up
        <4> QED
          BY <4>3, <4>4, Zenon DEF Knows
      <3>2. CASE b = 1 /\ next = "halt"
        <4>1. IsAck(p)
          BY <2>5, <3>2 DEF FromTest, IsHello, IsAck, Hello
        <4>2. Answered(m)'
          BY <2>5, <2>9, <4>1, AnsweredKept, Zenon DEF IsAck
        <4>3. step'[m] = "halt"
          BY <1>5, <3>2, Zenon
        <4> QED
          BY <4>2, <4>3, Zenon DEF Knows
      <3> QED
        BY <1>1, <3>1, <3>2, Zenon
    <2> QED
      BY <1>1, <1>2, <1>4, <1>5, <2>1, <2>7, <2>8, <2>9, <2>11, QuietStatement, Zenon
  <1> QED
    BY <1>6, <1>7, Zenon

\* Each statement of MailTest keeps AckInv.
LEMMA ProgramKeepsAck ==
  ASSUME AckInv, MailInv, NEW m \in Machines, Program(m)
  PROVE  AckInv'
  <1>1. CASE Halt(m)
    <2>1. /\ Up(m) /\ Stop(m, "halted") /\ Gone(m) /\ workload = "test" /\ workload' = workload
          /\ step[m] = "halt" /\ step' = [step EXCEPT ![m] = "halt"]
          /\ inMail' = inMail /\ got' = got
      BY <1>1, Zenon DEF Halt, Goes
    <2>2. /\ OfficeType /\ Addressed
          /\ step \in [Machines -> {"send", "receive", "ack", "wait", "halt"}]
          /\ got \in [Machines -> SUBSET (Machines \X Nat)]
      BY Zenon DEF MailInv, OfficeInv, TestInv, AckInv
    <2>3. NoNewMail /\ StepOf(m) /\ sent' = sent
      BY <2>1, <2>2, StopNoMail, StopIsStepOf, Zenon DEF Endings, Gone
    <2>4. step' = step /\ state'[m] = "halted"
      BY <2>1, <2>2, Zenon DEF Stop, OfficeType
    <2>5. GoesOn
      BY <2>1, <2>3, <2>4, Zenon DEF GoesOn, StepOf
    <2>6. Answered(m)'
      <3>1. Answered(m)
        BY <2>1, Zenon DEF AckInv, Knows
      <3> QED
        BY <2>5, <3>1, AnsweredKept, Zenon
    <2>7. Knows(m)'
      BY <2>1, <2>4, <2>6, Zenon DEF Knows, Up
    <2> QED
      BY <2>1, <2>2, <2>3, <2>4, <2>5, <2>7, QuietStatement, Zenon
  <1> QED
    BY <1>1, HelloKeepsAck, AckKeepsAck, ReceiveKeepsAck, Zenon DEF Program

\* No step of a device or a worker ends a process.
LEMMA OfficeKeepsAck ==
  ASSUME AckInv, MailInv, NEW m \in Machines, Office(m), UNCHANGED testVars
  PROVE  AckInv'
  <1>1. OfficeType /\ Addressed /\ Announced
    BY Zenon DEF MailInv, OfficeInv
  <1>2. ASSUME NoNewMail, state' = state, sent' = sent PROVE AckInv'
    BY <1>1, <1>2, QuietKeepsAck, Zenon DEF Up
  <1>3. CASE PacketSent(m)
    BY <1>2, <1>3, SameMail, Zenon DEF PacketSent, SendDoneFires
  <1>4. CASE IncomingPacket(m)
    <2>1. state' = state /\ sent' = sent
      BY <1>1, <1>4, IncomingDoes, Zenon
    <2> QED
      BY <1>1, <1>2, <1>4, <2>1, IncomingNoMail, Zenon
  <1>5. CASE WorkerWakes(m)
    BY <1>2, <1>5, SameMail, Zenon DEF WorkerWakes, netVars
  <1>6. CASE PostalDelivery(m)
    <2>1. state' = state /\ sent' = sent
      BY <1>1, <1>6, DeliveryDoes, Zenon
    <2> QED
      BY <1>1, <1>2, <1>6, <2>1, DeliveryNoMail, Zenon
  <1>7. ASSUME NEW c \in Clients, SendReturns(m, c) PROVE AckInv'
    BY <1>2, <1>7, SameMail, Zenon DEF SendReturns, netVars
  <1> QED
    BY <1>3, <1>4, <1>5, <1>6, <1>7, Zenon DEF Office

\* The threads of the other workload never halt a machine.
LEMMA AnyKeepsAck ==
  ASSUME AckInv, MailInv, NEW m \in Machines, NEW c \in Clients,
         AnySend(m, c) \/ AnyReceive(m, c)
  PROVE  AckInv'
  <1>1. OfficeType
    BY Zenon DEF MailInv, OfficeInv
  <1>2. workload = "any" /\ workload' = workload /\ got' = got
    BY Zenon DEF AnySend, AnyReceive, testVars
  <1>3. Stop(m, "noPeer") \/ Stop(m, "noMail") =>
          \A n \in Machines : state[n] # "halted" => state'[n] # "halted"
    BY <1>1, Zenon DEF Stop, OfficeType
  <1>4. state' = state \/ Stop(m, "noPeer") \/ Stop(m, "noMail")
    <2>1. CASE AnySend(m, c)
      <3>1. PICK to \in Machines, hdr \in Messages : Send(m, c, to, hdr)
        BY <2>1, Zenon DEF AnySend
      <3>2. hdr \in MailHdrs
        BY MailTestAssumption, Zenon DEF MailHdrs
      <3>3. SendEffect(m, c, to, hdr)
        BY <1>1, <3>1, <3>2, SendDoes, Zenon
      <3> QED
        BY <3>3, Zenon DEF SendEffect
    <2>2. CASE AnyReceive(m, c)
      BY <2>2, Zenon DEF AnyReceive, Receive, netVars
    <2> QED
      BY <2>1, <2>2, Zenon
  <1>5. \A n \in Machines : state[n] # "halted"
    BY <1>2, Zenon DEF AckInv
  <1>6. \A n \in Machines : state'[n] # "halted"
    BY <1>3, <1>4, <1>5, Zenon
  <1> QED
    BY <1>2, <1>6, Zenon DEF AckInv

\* AckInv is inductive, given MailInv.
LEMMA NextAckInv == AckInv /\ MailInv /\ [TestNext]_mailVars => AckInv'
  <1> SUFFICES ASSUME AckInv, MailInv, [TestNext]_mailVars PROVE AckInv'
    BY Zenon
  <1>0. OfficeType /\ Addressed
    BY Zenon DEF MailInv, OfficeInv
  <1>1. ASSUME UNCHANGED <<state, socket, inHdr, boxes, sent>>, UNCHANGED testVars PROVE AckInv'
    BY <1>0, <1>1, SameMail, QuietKeepsAck, Zenon DEF Up
  <1>2. CASE UNCHANGED mailVars
    BY <1>1, <1>2, Zenon DEF mailVars, netVars, officeVars
  <1>3. ASSUME NEW m \in Machines, Boot(m), UNCHANGED <<officeVars, testVars>> PROVE AckInv'
    <2>1. /\ state' = [state EXCEPT ![m] = "up"] /\ state[m] = "down"
          /\ socket' = socket /\ inHdr' = inHdr /\ boxes' = boxes /\ sent' = sent
      BY <1>3, Zenon DEF Boot, officeVars
    <2>2. step[m] = "send"
      BY <2>1, Zenon DEF MailInv, TestInv
    <2>3. \A n \in Machines : state'[n] = IF n = m THEN "up" ELSE state[n]
      BY <1>0, <2>1, Zenon DEF OfficeType
    <2>4. NoNewMail
      BY <2>1, SameMail, Zenon
    <2>5. \A n \in Machines : /\ Up(n)' => Up(n) \/ step[n] = "send"
                              /\ state'[n] = "halted" => state[n] = "halted"
                              /\ state'[n] = "noPeer" /\ workload = "test" => state[n] = "noPeer"
      BY <2>2, <2>3, Zenon DEF Up
    <2> QED
      BY <1>0, <1>3, <2>1, <2>4, <2>5, QuietKeepsAck, Zenon
  <1>4. ASSUME NEW m \in Machines, PollsInVain(m), UNCHANGED <<officeVars, testVars>>
        PROVE  AckInv'
    BY <1>1, <1>4, Zenon DEF PollsInVain, netVars, officeVars
  <1>5. CASE AllStopped
    BY <1>2, <1>5, Zenon DEF AllStopped
  <1> QED
    BY <1>2, <1>3, <1>4, <1>5, OfficeKeepsAck, ProgramKeepsAck, AnyKeepsAck, Zenon DEF TestNext

LEMMA InitAckInv == TestInit => AckInv
  <1> SUFFICES ASSUME TestInit PROVE AckInv
    BY Zenon
  <1>1. /\ state = [m \in Machines |-> "down"] /\ step = [m \in Machines |-> "send"]
        /\ socket = [m \in Machines |-> <<>>] /\ inHdr = [m \in Machines |-> NoPacket]
        /\ boxes = [m \in Machines |-> [b \in Boxes |-> <<>>]]
        /\ sent = [m \in Machines |-> 0] /\ got = [m \in Machines |-> {}]
    BY Zenon DEF TestInit, NetInit, OfficeInit
  <1>2. Items(<<>>) = {}
    BY DEF Items
  <1>3. \A m \in Machines : Coming(m) = {} /\ \A b \in Boxes : Items(boxes[m][b]) = {}
    BY <1>1, <1>2, Zenon DEF Coming
  <1>4. \A m \in Machines : TestMail(m)
    BY <1>3, Zenon DEF TestMail
  <1>5. \A m \in Machines : state[m] = "down" /\ step[m] = "send" /\ sent[m] = 0
    BY <1>1, Zenon
  <1>6. \A m \in Machines : Knows(m) /\ state[m] # "halted"
    BY <1>5, Zenon DEF Knows, Up
  <1>7. got \in [Machines -> SUBSET (Machines \X Nat)]
    BY <1>1, Zenon
  <1> QED
    BY <1>4, <1>6, <1>7, Zenon DEF AckInv

\* In every behaviour a machine whose MailTest is through has had its message
\* received, by a machine that had somebody to acknowledge it to.
THEOREM AcknowledgedMeansReceived == TestSpec => []AckMeansReceived
  <1>1. AckInv => AckMeansReceived
    BY Zenon DEF AckInv, Knows, Answered, AckMeansReceived
  <1>2. TestSpec => TestInit /\ [][TestNext]_mailVars
    BY PTL DEF TestSpec
  <1> QED
    BY <1>1, <1>2, InitMailInv, NextMailInv, InitAckInv, NextAckInv, PTL
=============================================================================
