SPECIFICATION Spec
CONSTANTS
  a = a
  b = b
  Mailbox = {a, b}
  NoMailbox = NoMailbox
  Version = {1}
  Initially <- AnyOf
  MaxJobs = 3
  Restarts = FALSE
  Denies = FALSE
CHECK_DEADLOCK FALSE
INVARIANT OwnPassword
