----------------------------- MODULE MCCMailApp -----------------------------
(* Small instances of CMailApp for TLC. *)
EXTENDS CMailApp, TLC

\* A poll tells of a new mail, or of an old one.
NewOrOld == {[unread |-> 1, read |-> 0], [unread |-> 0, read |-> 1]}

\* A poll tells of a new mail, or of none.
NewOrNone == {[unread |-> 1, read |-> 0], [unread |-> 0, read |-> 0]}

\* Addresses and mailboxes are interchangeable; used for safety only.
Interchangeable == Permutations(Address) \cup Permutations(Mailbox)
=============================================================================
