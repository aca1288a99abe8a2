CONSTANTS
  Mailbox = {m1, m2}
  NoMailbox = NoMailbox
  Address = {a1}
  Count <- NewOrNone
  MaxMailboxes = 1
  MaxQueue = 1
  MaxEvents = 2
  Delays = {}
SPECIFICATION FairSpec
PROPERTIES Converges WaitsEnd PolledAgain
