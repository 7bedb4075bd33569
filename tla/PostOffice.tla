----------------------------- MODULE PostOffice -----------------------------
(***************************************************************************)
(* The post office of each machine, network/post.cc, over its network      *)
(* device: the mailboxes, the postal worker that moves mail from the       *)
(* device into them, and Send, which waits for the device.                 *)
(*                                                                         *)
(* Threads of a machine are interleaved where P and V let interrupts and   *)
(* time slices in (see ThreadKernel); the code in between is one step.     *)
(* Lock and Condition are the dummies of synch.cc: Acquire, Release and    *)
(* Signal do nothing, Wait is ASSERT(FALSE).  SynchList is therefore a     *)
(* list that aborts Nachos when it is asked for an item it does not have,  *)
(* and sendLock does not keep a second thread out of Send.                 *)
(***************************************************************************)
EXTENDS Network

CONSTANTS
  Boxes,            \* the mailbox addresses, 0 <= b < numBoxes
  Clients,          \* the threads of a machine that use its post office
  MailHeaderSize    \* sizeof(MailHeader)

MaxMailSize == MaxPacketSize - MailHeaderSize

ASSUME PostOfficeAssumption ==
  MailHeaderSize \in Nat \ {0} /\ MaxPacketSize \in Nat /\ MailHeaderSize < MaxPacketSize

VARIABLES
  boxes,              \* the messages of each mailbox
  messageAvailable,   \* the values of the two semaphores
  messageSent,
  worker,             \* "waiting" in messageAvailable->P() or "got" through it
  buffer,             \* what the postal worker received last
  waiting,            \* the threads in messageSent->P()
  sent                \* how many messages were sent, to tell them apart

officeVars == <<boxes, messageAvailable, messageSent, worker, buffer, waiting, sent>>

OfficeInit ==
  /\ boxes = [m \in Machines |-> [b \in Boxes |-> <<>>]]
  /\ messageAvailable = [m \in Machines |-> 0]
  /\ messageSent = [m \in Machines |-> 0]
  /\ worker = [m \in Machines |-> "waiting"]
  /\ buffer = [m \in Machines |-> NoPacket]
  /\ waiting = [m \in Machines |-> {}]
  /\ sent = [m \in Machines |-> 0]

\* The memory of a process that ends.
Gone(m) ==
  /\ boxes' = [boxes EXCEPT ![m] = [b \in Boxes |-> <<>>]]
  /\ messageAvailable' = [messageAvailable EXCEPT ![m] = 0]
  /\ messageSent' = [messageSent EXCEPT ![m] = 0]
  /\ worker' = [worker EXCEPT ![m] = "waiting"]
  /\ buffer' = [buffer EXCEPT ![m] = NoPacket]
  /\ waiting' = [waiting EXCEPT ![m] = {}]
  /\ UNCHANGED sent

\* What Send puts into pktHdr.length: never 0, even for an empty message.
PacketLength(length) == length + MailHeaderSize

\* PostOffice::Send, up to messageSent->P().  A message carries its sender and
\* number as data.
Send(m, c, to, mailHdr) ==
  /\ Up(m) /\ c \notin waiting[m]
  /\ IF mailHdr.length > MaxMailSize \/ mailHdr.to \notin Boxes
     THEN Stop(m, "assert")
     ELSE NetworkSend(m, [to |-> to, from |-> m, length |-> PacketLength(mailHdr.length),
                          mailHdr |-> mailHdr, data |-> <<m, sent[m] + 1>>])
  /\ IF ~Up(m)' THEN Gone(m)
     ELSE /\ waiting' = [waiting EXCEPT ![m] = @ \cup {c}]
          /\ sent' = [sent EXCEPT ![m] = @ + 1]
          /\ UNCHANGED <<boxes, messageAvailable, messageSent, worker, buffer>>

\* messageSent->P() returns and Send with it.
SendReturns(m, c) ==
  /\ Up(m) /\ c \in waiting[m] /\ messageSent[m] > 0
  /\ messageSent' = [messageSent EXCEPT ![m] = @ - 1]
  /\ waiting' = [waiting EXCEPT ![m] = @ \ {c}]
  /\ UNCHANGED <<netVars, boxes, messageAvailable, worker, buffer, sent>>

\* The interrupt handler PacketSent.
PacketSent(m) ==
  /\ SendDoneFires(m)
  /\ messageSent' = [messageSent EXCEPT ![m] = @ + 1]
  /\ UNCHANGED <<boxes, messageAvailable, worker, buffer, waiting, sent>>

\* The interrupt handler IncomingPacket.
IncomingPacket(m) ==
  /\ CheckPktAvail(m)
  /\ IF ~Up(m)' THEN Gone(m)
     ELSE /\ messageAvailable' = [messageAvailable EXCEPT ![m] = @ + 1]
          /\ UNCHANGED <<boxes, messageSent, worker, buffer, waiting, sent>>

\* PostalDelivery is through messageAvailable->P().
WorkerWakes(m) ==
  /\ Up(m) /\ worker[m] = "waiting" /\ messageAvailable[m] > 0
  /\ messageAvailable' = [messageAvailable EXCEPT ![m] = @ - 1]
  /\ worker' = [worker EXCEPT ![m] = "got"]
  /\ UNCHANGED <<netVars, boxes, messageSent, buffer, waiting, sent>>

\* SynchList::Append and, of a list that is not empty, SynchList::Remove.
SynchListAppend(list, item) == Append(list, item)
SynchListRemove(list) == Tail(list)

\* Mutant: Put with Prepend.
PutFirst(m, mail) == boxes' = [boxes EXCEPT ![m][mail.mailHdr.to] = <<mail>> \o @]

\* MailBox::Put.  A Mail has both headers and the data.
Put(m, mail) == boxes' = [boxes EXCEPT ![m][mail.mailHdr.to] = SynchListAppend(@, mail)]

\* The rest of the loop of PostalDelivery.  Receive leaves the buffer of the
\* worker as it was when the device has no packet.
PostalDelivery(m) ==
  LET pkt == IF inHdr[m].length = 0 THEN buffer[m] ELSE inHdr[m]
  IN  /\ Up(m) /\ worker[m] = "got"
      /\ IF pkt.mailHdr.to \notin Boxes \/ pkt.mailHdr.length > MaxMailSize
         THEN Stop(m, "assert") /\ Gone(m)
         ELSE /\ NetworkReceive(m)
              /\ Put(m, pkt)
              /\ buffer' = [buffer EXCEPT ![m] = pkt]
              /\ worker' = [worker EXCEPT ![m] = "waiting"]
              /\ UNCHANGED <<messageAvailable, messageSent, waiting, sent>>

\* PostOffice::Receive and MailBox::Get.  On an empty list Remove calls Wait.
Receive(m, c, b) ==
  /\ Up(m) /\ c \notin waiting[m]
  /\ IF boxes[m][b] = <<>>
     THEN Stop(m, "noMail") /\ Gone(m)
     ELSE /\ boxes' = [boxes EXCEPT ![m][b] = SynchListRemove(@)]
          /\ UNCHANGED <<netVars, messageAvailable, messageSent, worker, buffer, waiting, sent>>
=============================================================================
