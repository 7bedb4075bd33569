------------------------------ MODULE MailTest ------------------------------
(***************************************************************************)
(* Machines on a network: each runs MailTest of network/nettest.cc, or     *)
(* threads that send and receive mail in any order.                        *)
(***************************************************************************)
EXTENDS PostOffice, FiniteSetsExt

CONSTANTS
  Main,           \* the thread that runs MailTest
  Messages,       \* the mail headers of the messages threads send
  MaxSends        \* bound: the messages the threads send

ASSUME MailTestAssumption ==
  /\ \A m \in Machines : \E n \in Machines : n # m
  /\ IsFiniteSet(Clients) /\ Main \in Clients
  /\ {0, 1} \subseteq Boxes
  /\ Messages \subseteq [to : Boxes, from : Boxes, length : 0..MaxMailSize]

VARIABLES
  workload,       \* "test" or "any", what the machines run
  step,           \* how far MailTest is
  inMail,         \* the last message MailTest received
  got             \* the messages MailTest received

testVars == <<workload, step, inMail, got>>
mailVars == <<netVars, officeVars, testVars>>

TestInit ==
  /\ NetInit /\ OfficeInit
  /\ workload \in {"test", "any"}
  /\ step = [m \in Machines |-> "send"]
  /\ inMail = [m \in Machines |-> NoPacket]
  /\ got = [m \in Machines |-> {}]

\* The farAddr of each machine's -o.
Far(m) == CHOOSE n \in Machines : n # m

\* Records the first message of box b as received by m, if Receive returns.
Got(m, b) ==
  IF boxes[m][b] = <<>>
  THEN UNCHANGED <<inMail, got>>
  ELSE /\ inMail' = [inMail EXCEPT ![m] = Head(boxes[m][b])]
       /\ got' = [got EXCEPT ![m] = @ \cup {Head(boxes[m][b]).data}]

\* MailTest goes on from one statement to the next.
Goes(m, from, to) ==
  /\ workload = "test"
  /\ step[m] = from
  /\ step' = [step EXCEPT ![m] = to]
  /\ UNCHANGED workload

Hello == [to |-> 0, from |-> 1, length |-> 1]

SendHello(m) ==
  /\ Goes(m, "send", "receive")
  /\ Send(m, Main, Far(m), Hello)
  /\ UNCHANGED <<inMail, got>>

\* Mutant: the acknowledgement is sent before the message it acknowledges came.
ReceiveHelloLater(m) ==
  /\ Goes(m, "receive", "ack")
  /\ Up(m) /\ Main \notin waiting[m]
  /\ inMail' = [inMail EXCEPT ![m] = [from |-> Far(m), mailHdr |-> Hello]]
  /\ UNCHANGED <<netVars, officeVars, got>>

ReceiveHello(m) ==
  /\ Goes(m, "receive", "ack")
  /\ Receive(m, Main, 0)
  /\ Got(m, 0)

\* The mailbox is the "reply to" of the message; outMailHdr.from is still 1.
SendAck(m) ==
  /\ Goes(m, "ack", "wait")
  /\ Send(m, Main, inMail[m].from, [Hello EXCEPT !.to = inMail[m].mailHdr.from])
  /\ UNCHANGED <<inMail, got>>

ReceiveAck(m) ==
  /\ Goes(m, "wait", "halt")
  /\ Receive(m, Main, 1)
  /\ Got(m, 1)

Halt(m) ==
  /\ Goes(m, "halt", "halt")
  /\ Up(m)
  /\ Stop(m, "halted") /\ Gone(m)
  /\ UNCHANGED <<inMail, got>>

Program(m) ==
  SendHello(m) \/ ReceiveHello(m) \/ SendAck(m) \/ ReceiveAck(m) \/ Halt(m)

\* Any thread sends, also to its own machine, or receives.
AnySend(m, c) ==
  /\ workload = "any" /\ MapThenSumSet(LAMBDA n : sent[n], Machines) < MaxSends
  /\ \E to \in Machines, mailHdr \in Messages :
       Len(socket[to]) < MaxSocket /\ Send(m, c, to, mailHdr)
  /\ UNCHANGED testVars

AnyReceive(m, c) ==
  /\ workload = "any"
  /\ \E b \in Boxes : Receive(m, c, b)
  /\ UNCHANGED testVars

Office(m) ==
  \/ PacketSent(m) \/ IncomingPacket(m) \/ WorkerWakes(m) \/ PostalDelivery(m)
  \/ \E c \in Clients : SendReturns(m, c)

AllStopped == (\A m \in Machines : state[m] \in Endings) /\ UNCHANGED mailVars

TestNext ==
  \/ \E m \in Machines :
       \/ Boot(m) /\ UNCHANGED <<officeVars, testVars>>
       \/ PollsInVain(m) /\ UNCHANGED <<officeVars, testVars>>
       \/ Office(m) /\ UNCHANGED testVars
       \/ Program(m)
       \/ \E c \in Clients : AnySend(m, c) \/ AnyReceive(m, c)
  \/ AllStopped

\* A scheduled interrupt fires and the device polls again and again, threads that
\* can run get the processor, and MailTest runs to its end.
TestSpec ==
  /\ TestInit /\ [][TestNext]_mailVars
  /\ \A m \in Machines :
       /\ WF_mailVars(PacketSent(m) /\ UNCHANGED testVars)
       /\ WF_mailVars(IncomingPacket(m) /\ UNCHANGED testVars)
       /\ WF_mailVars((WorkerWakes(m) \/ PostalDelivery(m)) /\ UNCHANGED testVars)
       /\ \A c \in Clients : WF_mailVars(SendReturns(m, c) /\ UNCHANGED testVars)
       /\ WF_mailVars(Program(m))

-----------------------------------------------------------------------------
(***************************************************************************)
(* Properties                                                              *)
(***************************************************************************)

Ids == Machines \X (1..(IF MaxSends > 2 THEN MaxSends ELSE 2))
MailHdrs == [to : Boxes, from : Boxes, length : 0..MaxMailSize]

\* The packets that Send makes.
Sendable == [to : Machines, from : Machines, length : 1..MaxPacketSize,
             mailHdr : MailHdrs, data : Machines \X Nat]

\* The device has a packet exactly when IncomingPacket has announced one that the
\* postal worker has not taken.  Otherwise Receive would find nothing and the
\* worker deliver its old buffer once more, or a packet would never be taken and
\* the device, which reads nothing while it has one, be deaf for ever.
Announced ==
  \A m \in Machines : Up(m) =>
    messageAvailable[m] + (IF worker[m] = "got" THEN 1 ELSE 0)
      = IF inHdr[m].length = 0 THEN 0 ELSE 1

\* Every thread inside Send has its own SendDone, scheduled or posted, though
\* sendLock lets several in, the handler does not know whose packet it is for,
\* and a lost packet has one as well.
SendsAccounted ==
  \A m \in Machines : Up(m) => Cardinality(waiting[m]) = sendDone[m] + messageSent[m]

\* No ASSERT on a header fails: not in Send, and not in CheckPktAvail and
\* PostalDelivery, which read what another machine has written.
AssertsHold == \A m \in Machines : state[m] # "assert"

\* A machine whose MailTest is through knows: its message was received, and the
\* other one had nobody missing to send to.  Lost mail, a machine that starts late
\* and one that aborts can stop the test, never make it succeed wrongly.
AckMeansReceived ==
  \A m \in Machines : state[m] = "halted" =>
    <<m, 1>> \in got[Far(m)] /\ state[Far(m)] # "noPeer"

\* The packets on their way to a machine, the oldest first.
InTransit(m) == (IF inHdr[m].length = 0 THEN <<>> ELSE <<inHdr[m]>>) \o socket[m]

OnItsWay(id) ==
  \E m \in Machines : \E k \in DOMAIN InTransit(m) : InTransit(m)[k].data = id

\* A message the network takes gets to its mailbox, or the machine stops.
MailArrives == \A id \in Ids : OnItsWay(id) ~> ~OnItsWay(id)

\* MailTest ends, well or not: nothing it waits for can stay away for ever.
TestEnds == workload = "test" => \A m \in Machines : Up(m) ~> ~Up(m)
=============================================================================
