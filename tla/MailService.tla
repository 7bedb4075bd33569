----------------------------- MODULE MailService -----------------------------
(***************************************************************************)
(* What the network and the post offices promise together, the "in order   *)
(* but unreliably" of network.h and the post.h mailboxes: mail arrives     *)
(* once and in the order it was sent or, unless the network is reliable,   *)
(* not at all; a mailbox gives mail out in the order it came.              *)
(***************************************************************************)
EXTENDS Naturals, Sequences

CONSTANTS Machines, Boxes, Mails

VARIABLES
  alive,      \* the machines that run
  dead,       \* the machines that no longer do
  lossy,      \* whether mail may get lost
  transit,    \* the mail on its way to each machine
  boxes,      \* the mail in each mailbox of each machine
  sent        \* how much mail each machine has sent

mailVars == <<alive, dead, lossy, transit, boxes, sent>>

MailInit ==
  /\ alive = {} /\ dead = {}
  /\ lossy \in BOOLEAN
  /\ transit = [m \in Machines |-> <<>>]
  /\ boxes = [m \in Machines |-> [b \in Boxes |-> <<>>]]
  /\ sent = [m \in Machines |-> 0]

Start(m) ==
  /\ m \notin alive \cup dead
  /\ alive' = alive \cup {m}
  /\ UNCHANGED <<dead, lossy, transit, boxes, sent>>

\* Mail to a dead machine is gone.
Die(m) ==
  /\ m \in alive
  /\ alive' = alive \ {m} /\ dead' = dead \cup {m}
  /\ transit' = [transit EXCEPT ![m] = <<>>]
  /\ boxes' = [boxes EXCEPT ![m] = [b \in Boxes |-> <<>>]]
  /\ UNCHANGED <<lossy, sent>>

\* The last thing on its way to a machine that gets mail is that mail.
SendMail(m, to) ==
  /\ m \in alive /\ to \in alive
  /\ sent' = [sent EXCEPT ![m] = @ + 1]
  /\ transit'[to] # <<>>
  /\ LET mail == transit'[to][Len(transit'[to])]
     IN  /\ mail \in Mails /\ mail.from = m /\ mail.to = to
         /\ transit' = [transit EXCEPT ![to] = Append(@, mail)]
  /\ UNCHANGED <<alive, dead, lossy, boxes>>

LoseMail(m) ==
  /\ m \in alive /\ lossy
  /\ sent' = [sent EXCEPT ![m] = @ + 1]
  /\ UNCHANGED <<alive, dead, lossy, transit, boxes>>

DeliverMail(m) ==
  /\ m \in alive /\ transit[m] # <<>>
  /\ transit' = [transit EXCEPT ![m] = Tail(@)]
  /\ LET mail == Head(transit[m])
     IN  boxes' = [boxes EXCEPT ![m][mail.mailHdr.to] = Append(@, mail)]
  /\ UNCHANGED <<alive, dead, lossy, sent>>

TakeMail(m, b) ==
  /\ m \in alive /\ boxes[m][b] # <<>>
  /\ boxes' = [boxes EXCEPT ![m][b] = Tail(@)]
  /\ UNCHANGED <<alive, dead, lossy, transit, sent>>

MailNext ==
  \E m \in Machines :
    \/ Start(m) \/ Die(m) \/ LoseMail(m) \/ DeliverMail(m)
    \/ \E to \in Machines : SendMail(m, to)
    \/ \E b \in Boxes : TakeMail(m, b)

MailSpec == MailInit /\ [][MailNext]_mailVars
=============================================================================
