----------------------------- MODULE Generations -----------------------------
(***************************************************************************)
(* What reloadConfig and aboutToQuit promise about the server objects,     *)
(* without threads, queues and addresses that are used again: the objects  *)
(* come in generations.  A generation is assembled, works, and is          *)
(* dismissed; only when the last of its members is gone does the next one  *)
(* begin, or the program end.                                              *)
(***************************************************************************)
CONSTANT Server

VARIABLES
  phase,  \* what the program does with the present generation
  crew    \* the server objects there are

vars == <<phase, crew>>

Init ==
  /\ phase = "assembling"
  /\ crew = {}

\* A server object joins, in the assembly only.
Assemble(a) ==
  /\ phase = "assembling"
  /\ a \notin crew
  /\ crew' = crew \cup {a}
  /\ UNCHANGED phase

Begin ==
  /\ phase = "assembling"
  /\ phase' = "working"
  /\ UNCHANGED crew

Stop ==
  /\ phase = "working"
  /\ phase' = "dismissing"
  /\ UNCHANGED crew

\* A server object leaves, in the dismissal only.
Dismiss(a) ==
  /\ phase = "dismissing"
  /\ a \in crew
  /\ crew' = crew \ {a}
  /\ UNCHANGED phase

\* The next generation, or the end, once nobody is left of this one.
Close ==
  /\ phase = "dismissing"
  /\ crew = {}
  /\ phase' \in {"assembling", "over"}
  /\ UNCHANGED crew

Next ==
  \/ \E a \in Server : Assemble(a) \/ Dismiss(a)
  \/ Begin
  \/ Stop
  \/ Close

Spec == Init /\ [][Next]_vars
=============================================================================
