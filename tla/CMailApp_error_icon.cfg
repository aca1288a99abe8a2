CONSTANTS
  Mailbox = {m1}
  NoMailbox = NoMailbox
  Address = {a1}
  Count <- NewOrOld
  MaxMailboxes = 1
  MaxQueue = 1
  MaxEvents = 1
  Delays = {}
SPECIFICATION FairSpec
PROPERTY Notifies
