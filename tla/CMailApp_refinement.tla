------------------------- MODULE CMailApp_refinement -------------------------
(***************************************************************************)
(* Proof that CMailApp implements Generations, for any number of addresses *)
(* and mailboxes, when the only delay is that of the worker threads.       *)
(***************************************************************************)
EXTENDS CMailApp_proofs

\* Where the monitor thread is while the GUI thread is at its places.
InStep ==
  /\ gui = "loading" => mon = "idle"
  /\ gui = "loop" =>
       /\ mon \in {"starting", "check", "emit", "sleep"}
       /\ mon # "starting" => m_Running
  /\ gui \in {"waitReload", "waitQuit"} => ~m_Running /\ mon # "starting"
  /\ gui = "exited" => mon = "idle"
  /\ mon = "idle" /\ gui # "loading" => m_Data = <<>>
  /\ mon = "clear" => reap > Len(m_Data)

\* The entry whose server object is the first that still exists.
First == IF LoggingOut \/ mon \in {"reap", "clear"} THEN reap ELSE 1

\* Every server object is in the list, not before First.
Listed ==
  \A a \in Address : Alive(a) =>
    \E i \in 1..Len(m_Data) : i >= First /\ m_Data[i].m_Server = a

\* No delay but that of the worker threads.
Steady == Delays \subseteq {"worker"}

RInv == IInv /\ InStep /\ Listed

AbstractStep == [Abstract!Next]_Abstract!vars

\* The conclusion for each kind of step.
Keeps == InStep' /\ Listed' /\ AbstractStep

LEMMA PhaseOf ==
  ASSUME AppTypeOK
  PROVE  /\ gui = "loading" => Phase = "assembling"
         /\ gui = "loop" => Phase = "working"
         /\ gui \in {"waitReload", "waitQuit"} => Phase = "dismissing"
         /\ gui = "exited" => Phase = "over"
  BY DEF Phase

LEMMA InitRInv == Init => InStep /\ Listed /\ Abstract!Init
  BY DEF Init, ProtocolInit, MonitorInit, InStep, Listed, Alive, Abstract!Init,
     Phase, Crew

\* A step that leaves these alone is a stuttering step of Generations.
LEMMA StutterKeeps ==
  ASSUME InStep, Listed,
         UNCHANGED <<polls, m_Data, mon, reap, m_Running, gui>>
  PROVE  Keeps
  <1>1. InStep' /\ Listed'
        BY DEF InStep, Listed, First, LoggingOut, Alive
  <1>2. UNCHANGED Abstract!vars
        BY DEF Abstract!vars, Phase, Crew, Alive
  <1>3. QED
        BY <1>1, <1>2 DEF Keeps, AbstractStep

LEMMA WorkerKeeps ==
  ASSUME InStep, Listed, NEW a \in Address, Worker(a)
  PROVE  Keeps
  BY StutterKeeps
  DEF Worker, WorkerStep, WorkerBegin, WorkerResult, WorkerError, WorkerEnd,
      WorkerAbandon, WorkerDies, WorkerExit, appVars

\* The deleting loop passes on from the entry at reap, whose object is gone.
LEMMA ReapKeeps ==
  ASSUME RInv, LoggingOut \/ mon = "reap", reap <= Len(m_Data),
         polls' = [polls EXCEPT ![Victim] = NoMailbox],
         mon' = "reap", reap' = reap + 1,
         UNCHANGED <<m_Data, m_Running, gui>>
  PROVE  Keeps
  <1> USE DEF RInv, IInv, TypeOK, MonitorTypeOK, ProtocolTypeOK
  <1>1. reap \in 1..Len(m_Data) /\ Victim \in Address
        BY VictimType
  <1>2. gui \in {"waitReload", "waitQuit"}
        BY DEF InStep, AppTypeOK, LoggingOut
  <1>3. InStep'
        BY <1>2 DEF InStep
  <1>4. Listed'
    <2>1. SUFFICES ASSUME NEW a \in Address, Alive(a)'
                   PROVE  \E i \in 1..Len(m_Data) :
                            i >= reap + 1 /\ m_Data[i].m_Server = a
          BY DEF Listed, First, LoggingOut
    <2>2. Alive(a) /\ a # Victim
          BY <1>1, <2>1 DEF Alive
    <2>3. PICK i \in 1..Len(m_Data) : i >= reap /\ m_Data[i].m_Server = a
          BY <2>2 DEF Listed, First, LoggingOut
    <2>4. i # reap
          BY <2>2, <2>3 DEF Victim
    <2>5. QED
          BY <2>3, <2>4
  <1>5. AbstractStep
    <2>1. Phase = "dismissing" /\ Phase' = Phase
          BY <1>2 DEF Phase
    <2>2. Crew' = Crew \ {Victim}
          BY <1>1 DEF Crew, Alive
    <2>3. CASE Victim \in Crew
      <3>1. Abstract!Dismiss(Victim)
            BY <2>1, <2>2, <2>3 DEF Abstract!Dismiss
      <3>2. QED
            BY <1>1, <3>1 DEF AbstractStep, Abstract!Next
    <2>4. CASE Victim \notin Crew
      <3>1. Crew' = Crew
            BY <2>2, <2>4
      <3>2. QED
            BY <2>1, <3>1 DEF AbstractStep, Abstract!vars
    <2>5. QED
          BY <2>3, <2>4
  <1>6. QED
        BY <1>3, <1>4, <1>5 DEF Keeps

\* The monitor thread moves without deleting anything.
LEMMA MoveKeeps ==
  ASSUME RInv, UNCHANGED <<polls, m_Data, gui>>, InStep', First' = First
  PROVE  Keeps
  <1>1. Listed'
        BY DEF RInv, Listed, Alive
  <1>2. UNCHANGED Abstract!vars
        BY DEF Abstract!vars, Phase, Crew, Alive
  <1>3. QED
        BY <1>1, <1>2 DEF Keeps, AbstractStep

LEMMA MonitorKeeps ==
  ASSUME RInv, Monitor
  PROVE  Keeps
  <1> USE DEF RInv, IInv, TypeOK, MonitorTypeOK, Monitor, appVars
  <1>1. CASE RunBegin \/ RunCheck \/ RunEmit \/ RunSleep
    <2>1. InStep'
          BY <1>1 DEF RunBegin, RunCheck, RunEmit, RunSleep, InStep, AppTypeOK
    <2>2. First' = First /\ UNCHANGED <<polls, m_Data, gui>>
          BY <1>1 DEF RunBegin, RunCheck, RunEmit, RunSleep, First, LoggingOut,
             protocolVars
    <2>3. QED
          BY <2>1, <2>2, MoveKeeps
  <1>2. CASE RunQuit
    <2>1. InStep'
          BY <1>2 DEF RunQuit, InStep, AppTypeOK
    <2>2. First' = First /\ UNCHANGED <<polls, m_Data, gui>>
          BY <1>2 DEF RunQuit, First, LoggingOut
    <2>3. QED
          BY <2>1, <2>2, MoveKeeps
  <1>3. CASE RunReapConnected
    <2>1. InStep'
          BY <1>3 DEF RunReapConnected, InStep, AppTypeOK
    <2>2. First' = First /\ UNCHANGED <<polls, m_Data, gui>>
          BY <1>3 DEF RunReapConnected, First, LoggingOut
    <2>3. QED
          BY <2>1, <2>2, MoveKeeps
  <1>4. CASE RunReap
        BY <1>4, ReapKeeps DEF RunReap, Destroyed
  <1>5. CASE RunLogout
        BY <1>5, ReapKeeps DEF RunLogout, Destroyed, Owned
  <1>6. CASE RunReapNull \/ RunReapExpired
        BY <1>6, StutterKeeps DEF RunReapNull, RunReapExpired, protocolVars
  <1>7. CASE RunLogoutFails \/ RunReaped
    <2>1. InStep'
          BY <1>7 DEF RunLogoutFails, RunReaped, InStep, LoggingOut, AppTypeOK
    <2>2. First' = First /\ UNCHANGED <<polls, m_Data, gui>>
          BY <1>7 DEF RunLogoutFails, RunReaped, First, LoggingOut, protocolVars
    <2>3. QED
          BY <2>1, <2>2, MoveKeeps
  <1>8. CASE RunEnd
    <2>1. \A a \in Address : ~Alive(a)
          BY <1>8 DEF RunEnd, InStep, Listed, First
    <2>2. InStep'
          BY <1>8 DEF RunEnd, InStep, AppTypeOK
    <2>3. Listed' /\ UNCHANGED Abstract!vars
          BY <1>8, <2>1 DEF RunEnd, protocolVars, Listed, Alive, Abstract!vars,
             Phase, Crew
    <2>4. QED
          BY <2>2, <2>3 DEF Keeps, AbstractStep
  <1>9. QED
        BY <1>1, <1>2, <1>3, <1>4, <1>5, <1>6, <1>7, <1>8 DEF MonitorStep

-----------------------------------------------------------------------------
(* The GUI thread.                                                         *)

LEMMA LoadServerKeeps ==
  ASSUME RInv, NEW a \in Address, LoadServer(a)
  PROVE  Keeps
  <1> USE DEF RInv, IInv, TypeOK, MonitorTypeOK, ProtocolTypeOK, AppTypeOK
  <1> DEFINE e == [m_Server |-> a, m_MailboxName |-> Head(todo),
                   count |-> Unknown]
  <1>1. Head(todo) \in Mailbox
        BY HeadTailProperties DEF LoadServer
  <1>2. e \in Entry
        BY <1>1 DEF Entry
  <1>3. m_Data' = Append(m_Data, e)
        BY DEF LoadServer, AddServer
  <1>4. /\ Len(m_Data') = Len(m_Data) + 1
        /\ \A i \in 1..Len(m_Data) : m_Data'[i] = m_Data[i]
        /\ m_Data'[Len(m_Data) + 1] = e
        BY <1>2, <1>3, AppendProperties
  <1>5. /\ gui = "loading" /\ gui' = gui
        /\ mon = "idle" /\ mon' = mon
        /\ m_Running' = m_Running
        BY DEF LoadServer, AddServer, InStep
  <1>6. InStep'
        BY <1>5 DEF InStep
  <1>7. polls' = [polls EXCEPT ![a] = Head(todo)] /\ ~Alive(a)
        BY DEF LoadServer, AddServer, Create
  <1>8. Listed'
    <2> Len(m_Data) \in Nat /\ First' = 1
        BY <1>5, LenProperties DEF First, LoggingOut
    <2>1. SUFFICES ASSUME NEW x \in Address, Alive(x)'
                   PROVE  \E i \in 1..Len(m_Data') : m_Data'[i].m_Server = x
          BY <1>4 DEF Listed
    <2>2. CASE x = a
      <3>1. Len(m_Data) + 1 \in 1..Len(m_Data')
            BY <1>4
      <3>2. m_Data'[Len(m_Data) + 1].m_Server = a
            BY <1>4
      <3>3. QED
            BY <2>2, <3>1, <3>2
    <2>3. CASE x # a
      <3>1. Alive(x)
            BY <1>7, <2>1, <2>3 DEF Alive
      <3>2. PICK i \in 1..Len(m_Data) : m_Data[i].m_Server = x
            BY <3>1 DEF Listed
      <3>3. i \in 1..Len(m_Data') /\ m_Data'[i].m_Server = x
            BY <1>4, <3>2
      <3>4. QED
            BY <3>3
    <2>4. QED
          BY <2>2, <2>3
  <1>9. AbstractStep
    <2>1. Phase = "assembling" /\ Phase' = Phase
          BY <1>5 DEF Phase
    <2>2. a \notin Crew /\ Crew' = Crew \cup {a}
          BY <1>1, <1>7, ProtocolAssumption DEF Crew, Alive
    <2>3. Abstract!Assemble(a)
          BY <2>1, <2>2 DEF Abstract!Assemble
    <2>4. QED
          BY <2>3 DEF AbstractStep, Abstract!Next
  <1>10. QED
         BY <1>6, <1>8, <1>9 DEF Keeps

LEMMA HandleStepKeeps ==
  ASSUME RInv, Handle
  PROVE  Keeps
  <1> USE DEF RInv, IInv
  <1>1. /\ gui = "loop"
        /\ UNCHANGED <<polls, mon, reap, m_Running, gui>>
        BY DEF Handle, HandleResultReady, HandleResultReadyFails,
           HandleMailError, HandleMailErrorFails, Take
  <1>2. /\ Len(m_Data') = Len(m_Data)
        /\ \A j \in 1..Len(m_Data) : m_Data'[j].m_Server = m_Data[j].m_Server
        BY HandleKeeps
  <1>3. InStep'
        BY <1>1 DEF InStep
  <1>4. Listed'
        BY <1>1, <1>2 DEF InStep, Listed, First, LoggingOut, Alive
  <1>5. UNCHANGED Abstract!vars
        BY <1>1 DEF Abstract!vars, Phase, Crew, Alive
  <1>6. QED
        BY <1>3, <1>4, <1>5 DEF Keeps, AbstractStep

\* A step that only takes the GUI thread from one place to another.
LEMMA PhaseKeeps ==
  ASSUME RInv, UNCHANGED <<polls, m_Data, reap>>, First' = First, InStep',
         \/ Phase = "assembling" /\ Phase' = "working"
         \/ Phase = "working" /\ Phase' = "dismissing"
         \/ /\ Phase = "dismissing" /\ Phase' \in {"assembling", "over"}
            /\ m_Data = <<>>
  PROVE  Keeps
  <1>1. Listed'
        BY DEF RInv, Listed, Alive
  <1>2. Crew' = Crew
        BY DEF Crew, Alive
  <1>3. m_Data = <<>> => Crew = {}
        BY DEF RInv, Listed, Crew
  <1>4. Abstract!Next
        BY <1>2, <1>3
        DEF Abstract!Next, Abstract!Begin, Abstract!Stop, Abstract!Close
  <1>5. QED
        BY <1>1, <1>4 DEF Keeps, AbstractStep

LEMMA GuiKeeps ==
  ASSUME Steady, RInv, GuiStep
  PROVE  Keeps
  <1> USE DEF RInv, IInv, TypeOK, AppTypeOK
  <1>1. CASE \E a \in Address : LoadServer(a)
        BY <1>1, LoadServerKeeps
  <1>2. CASE Handle
        BY <1>2, HandleStepKeeps
  <1>3. CASE LoadServerRaces \/ QuitExpired
        BY <1>3, StutterKeeps
        DEF LoadServerRaces, QuitExpired, protocolVars, appVars
  <1>4. CASE LoadDone
    <2>1. /\ gui = "loading" /\ gui' = "loop"
          /\ mon = "idle" /\ mon' = "starting"
          /\ UNCHANGED <<polls, m_Data, reap>>
          BY <1>4 DEF LoadDone, Start, InStep, protocolVars
    <2>2. First' = First /\ InStep'
          BY <2>1 DEF First, InStep, LoggingOut
    <2>3. Phase = "assembling" /\ Phase' = "working"
          BY <2>1 DEF Phase
    <2>4. QED
          BY <2>1, <2>2, <2>3, PhaseKeeps
  <1>5. CASE Reload \/ Quit
    <2>1. /\ gui = "loop" /\ gui' \in {"waitReload", "waitQuit"}
          /\ mon \in {"check", "emit", "sleep"}
          /\ ~m_Running'
          /\ UNCHANGED <<polls, m_Data, reap, mon>>
          BY <1>5 DEF Steady, Reload, Quit, Halt, Settled, InStep, protocolVars
    <2>2. First' = First /\ InStep'
          BY <2>1 DEF First, InStep, LoggingOut
    <2>3. Phase = "working" /\ Phase' = "dismissing"
          BY <2>1 DEF Phase
    <2>4. QED
          BY <2>1, <2>2, <2>3, PhaseKeeps
  <1>6. CASE ReloadWaited \/ QuitWaited
    <2>1. /\ gui \in {"waitReload", "waitQuit"}
          /\ gui' \in {"loading", "exited"}
          /\ mon = "idle"
          /\ UNCHANGED <<polls, m_Data, reap, mon>>
          BY <1>6 DEF Steady, ReloadWaited, QuitWaited, MonitorOverdue, InStep,
             LoggingOut, protocolVars, monitorVars
    <2>2. m_Data = <<>>
          BY <2>1 DEF InStep
    <2>3. First' = First /\ InStep'
          BY <2>1, <2>2 DEF First, InStep, LoggingOut
    <2>4. Phase = "dismissing" /\ Phase' \in {"assembling", "over"}
          BY <2>1 DEF Phase
    <2>5. QED
          BY <2>1, <2>2, <2>3, <2>4, PhaseKeeps
  <1>7. QED
        BY <1>1, <1>2, <1>3, <1>4, <1>5, <1>6 DEF GuiStep, Load, Waited

-----------------------------------------------------------------------------
(* The theorem.                                                            *)

LEMMA NextKeeps ==
  ASSUME Steady, RInv, [Next]_vars
  PROVE  Keeps
  <1>1. CASE UNCHANGED vars
        BY <1>1, StutterKeeps DEF RInv, vars, protocolVars, monitorVars, appVars
  <1>2. CASE Environment
        BY <1>2, StutterKeeps
        DEF RInv, Environment, FoundChanges, monitorVars, appVars
  <1>3. QED
        BY <1>1, <1>2, GuiKeeps, MonitorKeeps, WorkerKeeps
        DEF RInv, Next, Terminated

\* Server objects come in generations that never overlap, for any number of
\* mailboxes and however long their doWork() takes, as long as no halt is lost
\* and the waits for the monitor thread do not expire.
THEOREM Implementation ==
  ASSUME Steady
  PROVE  Spec => ImplementsGenerations
  <1>1. Init => RInv /\ Abstract!Init
        BY InitIInv, InitRInv DEF RInv
  <1>2. RInv /\ [Next]_vars => RInv' /\ AbstractStep
    <2>1. SUFFICES ASSUME RInv, [Next]_vars
                   PROVE  RInv' /\ AbstractStep
          OBVIOUS
    <2>2. Keeps
          BY <2>1, NextKeeps
    <2>3. IInv'
          BY <2>1, NextIInv DEF RInv
    <2>4. QED
          BY <2>2, <2>3 DEF Keeps, RInv
  <1>3. QED
        BY <1>1, <1>2, PTL
        DEF Spec, ImplementsGenerations, Abstract!Spec, AbstractStep
=============================================================================
