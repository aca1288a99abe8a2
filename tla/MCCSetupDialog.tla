--------------------------- MODULE MCCSetupDialog ---------------------------
(* CSetupDialog with the values that TLC uses.                             *)
EXTENDS CSetupDialog

CONSTANTS a, b

None == {<<>>}
Both == {<<a, b>>}
Mailboxes == Permutations({a, b})

AnyOf == {<<>>, <<a>>, <<b>>, <<a, b>>, <<b, a>>}
=============================================================================
