------------------------------- MODULE Network -------------------------------
(***************************************************************************)
(* The network device of each machine, machine/network.cc.  A machine is a *)
(* Nachos process, the wire into it a UNIX datagram socket that keeps      *)
(* packets in order.  A device buffers one packet, inHdr; length 0 in it   *)
(* says that there is none.                                                *)
(***************************************************************************)
EXTENDS Naturals, Sequences, FiniteSets

CONSTANTS
  Machines,         \* the network addresses
  MaxPacketSize,    \* the data of the largest packet
  MaxSocket         \* bound: no Send to a machine with this many in its socket

VARIABLES
  state,            \* of each process: "down", "up", or how it ended
  reliable,         \* whether -l leaves the reliability at 1
  socket,           \* the packets in the socket of each machine
  inHdr,            \* the packet each device has buffered
  sendDone          \* the NetworkSendDone interrupts each device has scheduled

netVars == <<state, reliable, socket, inHdr, sendDone>>

\* A process ends in Halt, in the ASSERT of Condition::Wait ("noMail"), in that of
\* SendToSocket ("noPeer"), or in another one ("assert").
Endings == {"halted", "noMail", "noPeer", "assert"}

Up(m) == state[m] = "up"

NoPacket == [length |-> 0]

NetInit ==
  /\ state = [m \in Machines |-> "down"]
  /\ reliable \in BOOLEAN
  /\ socket = [m \in Machines |-> <<>>]
  /\ inHdr = [m \in Machines |-> NoPacket]
  /\ sendDone = [m \in Machines |-> 0]

\* The constructor binds the socket.
Boot(m) ==
  /\ state[m] = "down"
  /\ state' = [state EXCEPT ![m] = "up"]
  /\ UNCHANGED <<reliable, socket, inHdr, sendDone>>

\* The process ends: its memory is gone and its socket closed, by Cleanup or UNIX.
Stop(m, how) ==
  /\ state' = [state EXCEPT ![m] = how]
  /\ socket' = [socket EXCEPT ![m] = <<>>]
  /\ inHdr' = [inHdr EXCEPT ![m] = NoPacket]
  /\ sendDone' = [sendDone EXCEPT ![m] = 0]
  /\ UNCHANGED reliable

\* Network::Send, which schedules NetworkSendDone.  The packet is lost, or it is in
\* the socket of its destination; UNIX refuses it when nobody has that open.
\* sendBusy is never TRUE.
Sending(m, hdr, onLoss) ==
  IF hdr.length \notin 1..MaxPacketSize THEN Stop(m, "assert")
  ELSE \/ /\ ~reliable
          /\ sendDone' = [sendDone EXCEPT ![m] = @ + onLoss]
          /\ UNCHANGED <<state, reliable, socket, inHdr>>
       \/ /\ Up(hdr.to)
          /\ sendDone' = [sendDone EXCEPT ![m] = @ + 1]
          /\ socket' = [socket EXCEPT ![hdr.to] = Append(@, hdr)]
          /\ UNCHANGED <<state, reliable, inHdr>>
       \/ /\ ~Up(hdr.to)
          /\ Stop(m, "noPeer")

\* Mutant: a lost packet returns before the interrupt is scheduled.
NetworkSendLosesBoth(m, hdr) == Sending(m, hdr, 0)

NetworkSend(m, hdr) == Sending(m, hdr, 1)

\* Network::SendDone.
SendDoneFires(m) ==
  /\ Up(m) /\ sendDone[m] > 0
  /\ sendDone' = [sendDone EXCEPT ![m] = @ - 1]
  /\ UNCHANGED <<state, reliable, socket, inHdr>>

\* Network::CheckPktAvail when it does nothing but poll again later.
PollsInVain(m) ==
  /\ Up(m)
  /\ inHdr[m].length # 0 \/ socket[m] = <<>>
  /\ UNCHANGED netVars

\* Network::CheckPktAvail when it reads a packet, the guard as a parameter.
ReadsPacket(m, mayRead) ==
  LET hdr == Head(socket[m])
  IN  /\ Up(m) /\ mayRead /\ socket[m] # <<>>
      /\ IF hdr.to # m \/ hdr.length > MaxPacketSize
         THEN Stop(m, "assert")
         ELSE /\ inHdr' = [inHdr EXCEPT ![m] = hdr]
              /\ socket' = [socket EXCEPT ![m] = Tail(@)]
              /\ UNCHANGED <<state, reliable, sendDone>>

\* Mutant: the packet in the buffer is overwritten.
CheckPktAvailAlways(m) == ReadsPacket(m, TRUE)

CheckPktAvail(m) == ReadsPacket(m, inHdr[m].length = 0)

\* Mutant: the buffer is not emptied.
NetworkReceiveKeeps(m) == UNCHANGED netVars

\* Network::Receive empties the buffer.
NetworkReceive(m) ==
  /\ inHdr' = [inHdr EXCEPT ![m] = NoPacket]
  /\ UNCHANGED <<state, reliable, socket, sendDone>>
=============================================================================
