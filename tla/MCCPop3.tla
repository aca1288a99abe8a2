------------------------------ MODULE MCCPop3 ------------------------------
(* Small instances of CPop3 for TLC. *)
EXTENDS CPop3

\* A server with all, one with another SASL mechanism only, and one with none of
\* it, whose answer to CAPA leaves the flags of an earlier connection alone.
Servers == {{"STLS", "CRAM-MD5", "APOP"}, {"SASL"}, {}}

\* A password shorter than a block, one of just a block, one that is longer.
Lengths == {[i \in 1..n |-> Byte(i)] : n \in 1..BlockSize + 1}
=============================================================================
