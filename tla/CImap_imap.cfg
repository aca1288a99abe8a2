CONSTANTS
  MaxQueue = 1
  MaxEvents = 1
  Cuts = TRUE
  Mails <- FewMails
  Garbage = {7}
  MaxSeq = 2
SPECIFICATION FairSpec
INVARIANTS TypeOK UnreadIffUnseen ClosedWhenIdle
PROPERTIES ImplementsWorker PollsEnd Recovers
