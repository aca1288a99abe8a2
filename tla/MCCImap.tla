------------------------------ MODULE MCCImap ------------------------------
(* Small instances of CImap for TLC. *)
EXTENDS CImap

\* A mail that was read, alone; a new one behind it; two new ones.
FewMails ==
  {[total |-> 1, unseen |-> {}], [total |-> 2, unseen |-> {2}],
   [total |-> 2, unseen |-> {1, 2}]}
=============================================================================
