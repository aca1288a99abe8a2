SPECIFICATION Spec
CONSTANTS
  a = a
  b = b
  Mailbox = {a, b}
  NoMailbox = NoMailbox
  Version = {1}
  Initially <- None
  MaxJobs = 4
  Restarts = FALSE
  Denies = FALSE
CHECK_DEADLOCK FALSE
INVARIANT Stored
