SPECIFICATION ServedSpec
CONSTANTS
  a = a
  b = b
  Mailbox = {a, b}
  NoMailbox = NoMailbox
  Version = {1}
  Initially <- AnyOf
  MaxJobs = 2
  Restarts = TRUE
  Denies = FALSE
SYMMETRY Mailboxes
CHECK_DEADLOCK FALSE
INVARIANT TypeOK ListShowsConfig InUseIsSaved ServedAsConfigured
PROPERTY DeletedIsGone
