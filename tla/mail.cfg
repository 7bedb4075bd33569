SPECIFICATION TestSpec
CONSTANTS
  Machines = {m1, m2}
  MaxPacketSize = 2
  MaxSocket = 2
  Boxes <- MCBoxes
  Clients = {c1, c2}
  MailHeaderSize = 1
  Main = c1
  Messages <- MCMessages
  MaxSends = 2
INVARIANTS Announced SendsAccounted AckMeansReceived
PROPERTIES ImplementsService MailArrives TestEnds
