CONSTANTS
  MaxQueue = 1
  MaxEvents = 1
  Cuts = FALSE
  Mails = {0, 12}
  Features <- Servers
  Passwords <- Lengths
  BlockSize = 4
  DigestSize = 2
SPECIFICATION FairSpec
INVARIANTS TypeOK ResultIsStat NoSessionLeft ResponseIsHmac
PROPERTIES ImplementsWorker PollsEnd Recovers
