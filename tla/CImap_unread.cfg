CONSTANTS
  MaxQueue = 1
  MaxEvents = 1
  Cuts = FALSE
  Mails <- FewMails
  Garbage = {7}
  MaxSeq = 2
SPECIFICATION Spec
INVARIANT UnreadIsUnseen
