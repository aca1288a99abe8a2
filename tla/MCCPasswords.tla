---------------------------- MODULE MCCPasswords ----------------------------
(* CPasswords with the values that TLC uses for CSetupDialog.              *)
EXTENDS CPasswords, MCCSetupDialog
=============================================================================
