CONSTANTS
  Mailbox = {m1}
  NoMailbox = NoMailbox
  Address = {a1, a2}
  Count <- NewOrOld
  MaxMailboxes = 1
  MaxQueue = 1
  MaxEvents = 1
  Delays = {"start", "worker", "logout", "sum"}
SPECIFICATION Spec
SYMMETRY Interchangeable
INVARIANTS
  TypeOK
  WorkersHaveServers
  TrayAgrees
