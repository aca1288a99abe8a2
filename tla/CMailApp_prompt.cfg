CONSTANTS
  Mailbox = {m1, m2}
  NoMailbox = NoMailbox
  Address = {a1, a2}
  Count <- NewOrOld
  MaxMailboxes = 2
  MaxQueue = 1
  MaxEvents = 1
  Delays = {}
SPECIFICATION Spec
SYMMETRY Interchangeable
INVARIANT SoundUntilReload
PROPERTY ImplementsGenerations
