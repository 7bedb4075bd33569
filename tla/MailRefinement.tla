--------------------------- MODULE MailRefinement ---------------------------
(***************************************************************************)
(* Network, PostOffice and the programs that use them, as the mail service *)
(* they implement: the service sees a packet from the moment it is in the  *)
(* socket of its addressee until the postal worker takes it.               *)
(***************************************************************************)
EXTENDS MailTest

Service == INSTANCE MailService WITH
  Mails <- Sendable,
  alive <- {m \in Machines : Up(m)},
  dead <- {m \in Machines : state[m] \in Endings},
  lossy <- ~reliable,
  transit <- [m \in Machines |-> InTransit(m)]

\* Network and PostOffice implement the mail service: one buffered packet, polling
\* and the worker in between lose nothing, deliver nothing twice, and keep order.
ImplementsService == Service!MailSpec
=============================================================================
