-------------------------- MODULE CMailApp_soundness --------------------------
(***************************************************************************)
(* Proof that with prompt threads only doWork itself, where it reads       *)
(* beyond an answer, can end the process before the first reload, and      *)
(* afterwards late signals too; for any number of mailboxes, addresses and *)
(* queued signals.                                                         *)
(***************************************************************************)
EXTENDS CMailApp_refinement

Prompt == Delays = {}

\* What the fault could be: doWork reading beyond an answer, or a signal that
\* outlives its object.
Harmless == fault \in {"none", "short", "range", "freed"}

\* A destructor meets a socket that was created and a thread that was told to
\* quit; a thread that is no object's is not there.
Awake ==
  /\ gui \in {"waitReload", "waitQuit"} =>
       \A a \in Address : Alive(a) => m_Socket[a] # "null"
  /\ LoggingOut \/ mon \in {"reap", "clear"} =>
       \A a \in Address : Alive(a) => thread[a] # "running"
  /\ \A a \in Address : ~Alive(a) => thread[a] = "none"
  /\ LoggingOut => thread[Victim] = "none"

\* The index of a server object is that of its mailbox's entry.
Indexed ==
  \A a \in Address : Alive(a) =>
    /\ m_ConfigurationIdx[a] \in 1..Len(m_Data)
    /\ m_Data[m_ConfigurationIdx[a]].m_MailboxName = polls[a]

\* A signal is about an entry of its own mailbox, or from an object that is there.
Sound(e) ==
  /\ e.kind = "resultReady" =>
       /\ e.idx \in 1..Len(m_Data)
       /\ m_Data[e.idx].m_MailboxName = e.from
  /\ e.kind = "mailError" => Alive(e.server)

\* Until the first reload, while the GUI thread takes signals.
FirstTime ==
  ~reloaded =>
    /\ fault \in {"none", "short"}
    /\ gui # "waitReload"
    /\ gui \in {"loading", "loop"} =>
         Indexed /\ \A k \in 1..Len(events) : Sound(events[k])

SInv == RInv /\ Harmless /\ Awake /\ FirstTime

-----------------------------------------------------------------------------
(* The invariant of the refinement.                                        *)

\* Generations stay apart, from which the rest follows.
LEMMA RInvKept ==
  ASSUME Steady, RInv, [Next]_vars
  PROVE  RInv'
  BY NextKeeps, NextIInv DEF RInv, Keeps

\* Deaths and births are the GUI thread's and the monitor's.
LEMMA WorkerLeaves ==
  ASSUME NEW a \in Address, WorkerStep(a)
  PROVE  UNCHANGED <<polls, m_ConfigurationIdx, found>>
  BY DEF WorkerStep, WorkerBegin, WorkerResult, WorkerError, WorkerEnd,
     WorkerAbandon, WorkerDies, WorkerExit

-----------------------------------------------------------------------------
(* Sockets and threads.                                                    *)

\* A worker thread creates its socket and leaves after quit().
LEMMA WorkerAwake ==
  ASSUME SInv, NEW a \in Address, Worker(a)
  PROVE  Awake'
  <1> USE DEF SInv, RInv, IInv, TypeOK, ProtocolTypeOK
  <1>1. \A x \in Address : Alive(x)' <=> Alive(x)
        BY WorkerLeaves DEF Worker, Alive
  <1>2. \A x \in Address : m_Socket[x] # "null" => m_Socket'[x] # "null"
        BY DEF Worker, WorkerStep, WorkerBegin, WorkerResult, WorkerError,
           WorkerEnd, WorkerAbandon, WorkerDies, WorkerExit
  <1>3. \A x \in Address :
          \/ thread'[x] = thread[x]
          \/ x = a /\ thread[x] = "quit" /\ thread'[x] = "finished"
        BY DEF Worker, WorkerStep, WorkerBegin, WorkerResult, WorkerError,
           WorkerEnd, WorkerAbandon, WorkerDies, WorkerExit
  <1>4. UNCHANGED <<gui, mon, m_Data, reap>>
        BY DEF Worker, appVars
  <1>5. LoggingOut => Victim \in Address /\ Victim' = Victim
        BY <1>4, VictimType DEF Owned, Victim
  <1>6. QED
        BY <1>1, <1>2, <1>3, <1>4, <1>5 DEF Awake, LoggingOut

\* quit() reaches every thread before the first deletion.
LEMMA MonitorAwake ==
  ASSUME SInv, Monitor
  PROVE  Awake'
  <1> USE DEF SInv, RInv, IInv, TypeOK, ProtocolTypeOK
  <1>1. gui' = gui
        BY DEF Monitor, appVars
  <1>2. CASE RunBegin \/ RunCheck \/ RunSleep
        BY <1>1, <1>2 DEF RunBegin, RunCheck, RunSleep, protocolVars, Awake,
           Alive, LoggingOut, LoggingOut
  <1>3. CASE RunEmit
        BY <1>1, <1>3 DEF RunEmit, Awake, Alive, LoggingOut, LoggingOut
  <1>4. CASE RunQuit
    <2>1. \A a \in Address : Alive(a) =>
            \E i \in 1..Len(m_Data) : m_Data[i].m_Server = a
          BY DEF Listed
    <2>2. UNCHANGED <<polls, m_Socket>>
          BY <1>4 DEF RunQuit
    <2>3. \A a \in Address :
            thread'[a] = IF /\ thread[a] = "running"
                            /\ \E i \in 1..Len(m_Data) : m_Data[i].m_Server = a
                         THEN "quit" ELSE thread[a]
          BY <1>4 DEF RunQuit
    <2>4. \A a \in Address : Alive(a) => thread'[a] # "running"
          BY <2>1, <2>3
    <2>5. \A a \in Address : ~Alive(a) => thread'[a] = "none"
          BY <2>3 DEF Awake
    <2>6. mon' = "reap"
          BY <1>4 DEF RunQuit
    <2>7. QED
          BY <1>1, <2>2, <2>4, <2>5, <2>6 DEF Awake, Alive, LoggingOut, LoggingOut
  <1>5. CASE RunReap
    <2>1. Victim \in Address
          BY <1>5, VictimType DEF RunReap
    <2>2. QED
          BY <1>1, <1>5, <2>1 DEF RunReap, Destroyed, Awake, Alive, LoggingOut, LoggingOut
  <1>6. CASE RunReapConnected
    <2>1. Victim \in Address /\ Victim' = Victim
          BY <1>6, VictimType DEF RunReapConnected, Victim
    <2>2. QED
          BY <1>1, <1>6, <2>1 DEF RunReapConnected, Awake, Alive, LoggingOut, LoggingOut
  <1>7. CASE RunLogout
    <2>1. Victim \in Address
          BY <1>7, VictimType DEF RunLogout, Owned
    <2>2. QED
          BY <1>1, <1>7, <2>1 DEF RunLogout, Destroyed, Awake, Alive, LoggingOut, LoggingOut
  <1>8. CASE RunLogoutFails \/ RunReapNull \/ RunReapExpired \/ RunReaped
               \/ RunEnd
        BY <1>1, <1>8 DEF RunLogoutFails, RunReapNull, RunReapExpired,
           RunReaped, RunEnd, protocolVars,
           Awake, Alive, LoggingOut, Victim
  <1>9. QED
        BY <1>2, <1>3, <1>4, <1>5, <1>6, <1>7, <1>8 DEF Monitor, MonitorStep

\* When the user stops the monitor every object has had its first doWork.
LEMMA GuiAwake ==
  ASSUME Prompt, SInv, GuiStep
  PROVE  Awake'
  <1> USE DEF SInv, RInv, IInv, TypeOK, ProtocolTypeOK
  <1>1. CASE \E a \in Address : LoadServer(a)
    <2>1. PICK a \in Address : LoadServer(a)
          BY <1>1
    <2>2. gui = "loading" /\ mon = "idle" /\ UNCHANGED <<gui, mon>>
          BY <2>1 DEF LoadServer, AddServer, InStep
    <2>3. /\ polls' = [polls EXCEPT ![a] = Head(todo)]
          /\ thread' = [thread EXCEPT ![a] = "running"]
          BY <2>1 DEF LoadServer, AddServer, Create
    <2>4. Head(todo) # NoMailbox
      <3>1. todo \in Seq(Mailbox) /\ todo # <<>>
            BY <2>1 DEF LoadServer, AppTypeOK
      <3>2. Head(todo) \in Mailbox
            BY <3>1, HeadTailProperties
      <3>3. QED
            BY <3>2, ProtocolAssumption
    <2>5. \A x \in Address : ~Alive(x)' => ~Alive(x) /\ thread'[x] = thread[x]
          BY <2>3, <2>4 DEF Alive
    <2>6. QED
          BY <2>2, <2>5 DEF Awake, LoggingOut
  <1>2. CASE Handle
    <2>1. /\ gui = "loop" /\ mon \in {"starting", "check", "emit", "sleep"}
          /\ UNCHANGED <<gui, mon, polls, thread, m_Socket>>
          BY <1>2 DEF Handle, HandleResultReady, HandleResultReadyFails,
             HandleMailError, HandleMailErrorFails, Take, InStep
    <2>2. QED
          BY <2>1 DEF Awake, Alive, LoggingOut, LoggingOut
  <1>3. CASE LoadServerRaces \/ QuitExpired
        BY <1>3 DEF LoadServerRaces, QuitExpired, protocolVars, appVars, Awake,
           Alive, LoggingOut, Victim
  <1>4. CASE LoadDone
        BY <1>4 DEF LoadDone, Start, protocolVars, Awake, Alive, LoggingOut, InStep
  <1>5. CASE Reload \/ Quit
    <2>1. /\ UNCHANGED <<mon, polls, thread, m_Socket>>
          /\ gui = "loop" /\ Settled
          BY <1>5 DEF Reload, Quit, Halt, protocolVars
    <2>2. mon \in {"starting", "check", "emit", "sleep"}
          BY <2>1 DEF InStep
    <2>3. \A a \in Address : Alive(a) => m_Socket[a] # "null"
          BY <2>1, <2>2 DEF Settled, Prompt
    <2>4. QED
          BY <2>1, <2>2, <2>3 DEF Awake, Alive, LoggingOut, LoggingOut
  <1>6. CASE ReloadWaited \/ QuitWaited
        BY <1>6 DEF ReloadWaited, QuitWaited, protocolVars, monitorVars, Awake,
           Alive, LoggingOut, Victim
  <1>7. QED
        BY <1>1, <1>2, <1>3, <1>4, <1>5, <1>6 DEF GuiStep, Load, Waited

\* Every step keeps the sockets and threads in order.
LEMMA NextAwake ==
  ASSUME Prompt, SInv, [Next]_vars
  PROVE  Awake'
  <1>1. CASE UNCHANGED vars
        BY <1>1 DEF vars, protocolVars, monitorVars, appVars, SInv, Awake, Alive, LoggingOut,
           Victim
  <1>2. CASE Environment
        BY <1>2 DEF Environment, FoundChanges, monitorVars, appVars, SInv, Awake,
           Alive, LoggingOut, Victim
  <1>3. QED
        BY <1>1, <1>2, GuiAwake, MonitorAwake, WorkerAwake DEF Next, Terminated

-----------------------------------------------------------------------------
(* Faults.                                                                 *)

\* The deleting loop destroys no thread that runs and no object that never
\* had a socket.
LEMMA MonitorNoFault ==
  ASSUME Prompt, SInv, Monitor
  PROVE  UNCHANGED fault
  <1> USE DEF SInv, RInv, IInv
  <1>1. ~RunReapNull
    <2>1. SUFFICES ASSUME RunReapNull PROVE FALSE
          OBVIOUS
    <2>2. Victim \in Address /\ thread[Victim] = "finished"
          BY <2>1, VictimType DEF RunReapNull
    <2>3. Alive(Victim)
          BY <2>2 DEF Awake
    <2>4. gui \in {"waitReload", "waitQuit"}
          BY <2>1 DEF RunReapNull, InStep, TypeOK, AppTypeOK
    <2>5. QED
          BY <2>1, <2>2, <2>3, <2>4 DEF RunReapNull, Awake
  <1>2. ~RunReapExpired
    <2>1. SUFFICES ASSUME RunReapExpired PROVE FALSE
          OBVIOUS
    <2>2. Victim \in Address /\ thread[Victim] = "running"
          BY <2>1, VictimType DEF RunReapExpired, Prompt
    <2>3. QED
          BY <2>1, <2>2 DEF RunReapExpired, Awake
  <1>3. QED
        BY <1>1, <1>2
        DEF Monitor, MonitorStep, RunBegin, RunCheck, RunEmit, RunSleep,
            RunQuit, RunReap, RunReapConnected, RunLogoutFails, RunLogout,
            RunReaped, RunEnd

\* loadConfig meets no monitor thread, and no wait for it expires.
LEMMA GuiNoFault ==
  ASSUME Prompt, SInv, GuiStep, ~Handle
  PROVE  /\ UNCHANGED fault
         /\ \/ \E a \in Address : LoadServer(a)
            \/ LoadDone
            \/ Reload
            \/ Quit
            \/ ReloadWaited
            \/ QuitWaited
  <1> USE DEF SInv, RInv
  <1>1. ~LoadServerRaces
        BY DEF LoadServerRaces, Reaping, LoggingOut, InStep
  <1>2. ~QuitExpired
        BY DEF QuitExpired, MonitorOverdue, LoggingOut, InStep, Prompt
  <1>3. QED
        BY <1>1, <1>2
        DEF GuiStep, Load, Waited, LoadServer, AddServer, LoadDone, Start,
            Reload, Quit, Halt, ReloadWaited, QuitWaited, monitorVars

\* Late signals are all that is left to do harm.
LEMMA NextHarmless ==
  ASSUME Prompt, SInv, [Next]_vars
  PROVE  Harmless'
  <1>1. CASE UNCHANGED fault
        BY <1>1 DEF SInv, Harmless
  <1>2. CASE Handle
        BY <1>2 DEF SInv, Handle, HandleResultReady, HandleResultReadyFails,
           HandleMailError, HandleMailErrorFails, Harmless
  <1>3. CASE \E a \in Address : Worker(a)
        BY <1>3 DEF SInv, Worker, Harmless
  <1>4. QED
        BY <1>1, <1>2, <1>3, MonitorNoFault, GuiNoFault
        DEF Next, Terminated, Environment, vars, monitorVars

-----------------------------------------------------------------------------
(* Signals, until the first reload.                                        *)

\* A step that touches neither the list nor the queue.
LEMMA QuietFirst ==
  ASSUME FirstTime,
         UNCHANGED <<polls, m_ConfigurationIdx, m_Data, events, gui, reloaded>>,
         fault' \in {fault, "short"}
  PROVE  FirstTime'
  BY DEF FirstTime, Indexed, Sound, Alive

\* A worker thread tells something.
LEMMA PostFirst ==
  ASSUME FirstTime, events \in Seq(Event), NEW e \in Event,
         ~reloaded /\ gui \in {"loading", "loop"} => Sound(e),
         events' = Append(events, e),
         UNCHANGED <<polls, m_ConfigurationIdx, m_Data, gui, reloaded>>,
         fault' \in {fault, "short"}
  PROVE  FirstTime'
  <1>1. SUFFICES ASSUME ~reloaded, gui \in {"loading", "loop"},
                        NEW k \in 1..Len(events')
                 PROVE  Sound(events[k])'
        BY DEF FirstTime, Indexed, Alive
  <1>2. /\ Len(events') = Len(events) + 1
        /\ \A j \in 1..Len(events) : events'[j] = events[j]
        /\ events'[Len(events) + 1] = e
        BY AppendProperties
  <1>3. Sound(events'[k])
    <2>1. CASE k \in 1..Len(events)
          BY <1>1, <1>2, <2>1 DEF FirstTime
    <2>2. CASE k = Len(events) + 1
          BY <1>1, <1>2, <2>2
    <2>3. QED
          BY <1>2, <2>1, <2>2, LenProperties
  <1>4. QED
        BY <1>3 DEF Sound, Alive

\* A worker speaks of the entry whose index its object has.
LEMMA WorkerFirst ==
  ASSUME SInv, NEW a \in Address, Worker(a)
  PROVE  FirstTime'
  <1> USE DEF SInv, RInv, IInv, TypeOK, ProtocolTypeOK
  <1>1. /\ UNCHANGED <<polls, m_ConfigurationIdx>>
        /\ UNCHANGED <<m_Data, gui, reloaded>>
        /\ fault' \in {fault, "short"}
        BY WorkerLeaves DEF Worker, appVars
  <1>2. work[a] # "idle" => Alive(a)
        BY DEF Owned
  <1>3. CASE WorkerResult(a)
    <2> DEFINE e == [kind |-> "resultReady", idx |-> m_ConfigurationIdx[a],
                     count |-> found[polls[a]], from |-> polls[a]]
    <2>1. events' = Append(events, e) /\ Alive(a)
          BY <1>2, <1>3 DEF WorkerResult, Post
    <2>2. e \in Event
          BY <2>1 DEF Event, ResultEvent, Alive
    <2>3. ~reloaded /\ gui \in {"loading", "loop"} => Sound(e)
          BY <2>1 DEF FirstTime, Indexed, Sound
    <2>4. QED
          BY <1>1, <2>1, <2>2, <2>3, PostFirst
  <1>4. CASE WorkerError(a)
    <2> DEFINE e == [kind |-> "mailError", server |-> a]
    <2>1. events' = Append(events, e) /\ Alive(a)
          BY <1>2, <1>4 DEF WorkerError, Post
    <2>2. e \in Event /\ Sound(e)
          BY <2>1 DEF Event, ErrorEvent, Sound
    <2>3. QED
          BY <1>1, <2>1, <2>2, PostFirst
  <1>5. CASE UNCHANGED events
        BY <1>1, <1>5, QuietFirst
  <1>6. QED
        BY <1>3, <1>4, <1>5 DEF Worker, WorkerStep, WorkerBegin, WorkerEnd,
           WorkerAbandon, WorkerDies, WorkerExit

\* While the GUI thread takes signals the monitor thread leaves the list alone.
LEMMA MonitorFirst ==
  ASSUME Prompt, SInv, Monitor
  PROVE  FirstTime'
  <1> USE DEF SInv, RInv
  <1>1. UNCHANGED <<fault, gui, reloaded>>
        BY MonitorNoFault DEF Monitor, appVars
  <1>2. CASE gui \in {"loading", "loop"}
    <2>1. mon \in {"idle", "starting", "check", "emit", "sleep"}
          BY <1>2 DEF InStep
    <2>2. RunBegin \/ RunCheck \/ RunEmit \/ RunSleep
          BY <2>1 DEF Monitor, MonitorStep, RunQuit, RunReap, RunReapConnected,
             RunLogoutFails, RunLogout, LoggingOut, RunReapNull,
             RunReapExpired, RunReaped, RunEnd
    <2>3. UNCHANGED <<polls, m_ConfigurationIdx, m_Data, events>>
          BY <2>2 DEF RunBegin, RunCheck, RunEmit, RunSleep, protocolVars
    <2>4. QED
          BY <1>1, <2>3, QuietFirst
  <1>3. CASE gui \notin {"loading", "loop"}
        BY <1>1, <1>3 DEF FirstTime
  <1>4. QED
        BY <1>2, <1>3

\* The new entry is the last, and its object has the index of it.
LEMMA LoadServerFirst ==
  ASSUME SInv, NEW a \in Address, LoadServer(a)
  PROVE  FirstTime'
  <1> USE DEF SInv, RInv, IInv, TypeOK, ProtocolTypeOK, MonitorTypeOK
  <1> DEFINE e == [m_Server |-> a, m_MailboxName |-> Head(todo),
                   count |-> Unknown]
  <1>1. SUFFICES ASSUME ~reloaded'
                 PROVE  /\ fault' \in {"none", "short"} /\ gui' # "waitReload"
                        /\ Indexed'
                        /\ \A k \in 1..Len(events') : Sound(events[k])'
        BY DEF FirstTime
  <1>2. /\ gui = "loading" /\ gui' = gui
        /\ ~reloaded /\ fault' = fault /\ events' = events
        BY <1>1 DEF LoadServer, AddServer, Create
  <1>3. /\ fault \in {"none", "short"}
        /\ Indexed
        /\ \A k \in 1..Len(events) : Sound(events[k])
        BY <1>2 DEF FirstTime
  <1>4. Head(todo) \in Mailbox
        BY HeadTailProperties DEF LoadServer, AppTypeOK
  <1>5. e \in Entry /\ m_Data' = Append(m_Data, e)
        BY <1>4 DEF Entry, LoadServer, AddServer
  <1>6. /\ Len(m_Data) \in Nat
        /\ Len(m_Data') = Len(m_Data) + 1
        /\ \A i \in 1..Len(m_Data) : m_Data'[i] = m_Data[i]
        /\ m_Data'[Len(m_Data) + 1] = e
        BY <1>5, AppendProperties, LenProperties
  <1>7. /\ polls' = [polls EXCEPT ![a] = Head(todo)]
        /\ m_ConfigurationIdx' =
             [m_ConfigurationIdx EXCEPT ![a] = Len(m_Data) + 1]
        /\ ~Alive(a)
        BY DEF LoadServer, AddServer, Create
  <1>8. Indexed'
    <2>1. SUFFICES ASSUME NEW x \in Address, Alive(x)'
                   PROVE  /\ m_ConfigurationIdx'[x] \in 1..Len(m_Data')
                          /\ m_Data'[m_ConfigurationIdx'[x]].m_MailboxName
                               = polls'[x]
          BY DEF Indexed
    <2>2. CASE x = a
      <3>1. /\ m_ConfigurationIdx'[x] = Len(m_Data) + 1
            /\ polls'[x] = Head(todo)
            BY <1>7, <2>2
      <3>2. /\ Len(m_Data) + 1 \in 1..Len(m_Data')
            /\ m_Data'[Len(m_Data) + 1].m_MailboxName = Head(todo)
            BY <1>6
      <3>3. QED
            BY <3>1, <3>2
    <2>3. CASE x # a
      <3>1. Alive(x) /\ polls'[x] = polls[x]
            /\ m_ConfigurationIdx'[x] = m_ConfigurationIdx[x]
            BY <1>7, <2>1, <2>3 DEF Alive
      <3>2. /\ m_ConfigurationIdx[x] \in 1..Len(m_Data)
            /\ m_Data[m_ConfigurationIdx[x]].m_MailboxName = polls[x]
            BY <1>3, <3>1 DEF Indexed
      <3>3. m_Data'[m_ConfigurationIdx[x]] = m_Data[m_ConfigurationIdx[x]]
            BY <1>6, <3>2
      <3>4. m_ConfigurationIdx[x] \in 1..Len(m_Data')
            BY <1>6, <3>2
      <3>5. QED
            BY <3>1, <3>2, <3>3, <3>4
    <2>4. QED
          BY <2>2, <2>3
  <1>9. ASSUME NEW k \in 1..Len(events') PROVE Sound(events[k])'
    <2>1. events'[k] = events[k] /\ Sound(events[k])
          BY <1>2, <1>3
    <2>2. events[k].kind = "mailError" => polls'[events[k].server] # NoMailbox
      <3>1. SUFFICES ASSUME events[k].kind = "mailError"
                     PROVE  polls'[events[k].server] # NoMailbox
            OBVIOUS
      <3>2. events[k] \in Event
            BY <1>2, ElementOfSeq
      <3>3. events[k].server \in Address /\ Alive(events[k].server)
            BY <2>1, <3>1, <3>2 DEF Sound, Event, ResultEvent, ErrorEvent
      <3>4. QED
            BY <1>7, <3>3 DEF Alive
    <2>3. events[k].kind = "resultReady" =>
            /\ events[k].idx \in 1..Len(m_Data')
            /\ m_Data'[events[k].idx].m_MailboxName = events[k].from
          BY <1>6, <2>1 DEF Sound
    <2>4. QED
          BY <2>1, <2>2, <2>3 DEF Sound, Alive
  <1>10. QED
         BY <1>2, <1>3, <1>8, <1>9

\* A signal that is sound is handled without harm, and the next ones stay sound.
LEMMA HandleFirst ==
  ASSUME SInv, Handle
  PROVE  FirstTime'
  <1> USE DEF SInv, RInv, IInv, TypeOK, ProtocolTypeOK
  <1>1. /\ gui = "loop" /\ events # <<>> /\ events' = Tail(events)
        /\ UNCHANGED <<polls, m_ConfigurationIdx, gui, reloaded>>
        BY DEF Handle, HandleResultReady, HandleResultReadyFails,
           HandleMailError, HandleMailErrorFails, Take
  <1>2. SUFFICES ASSUME ~reloaded
                 PROVE  /\ fault' \in {"none", "short"}
                        /\ Indexed'
                        /\ \A k \in 1..Len(events') : Sound(events[k])'
        BY <1>1 DEF FirstTime
  <1>3. /\ fault \in {"none", "short"}
        /\ Indexed
        /\ \A k \in 1..Len(events) : Sound(events[k])
        BY <1>1, <1>2 DEF FirstTime
  <1>4. /\ Len(m_Data') = Len(m_Data)
        /\ \A j \in 1..Len(m_Data) :
             m_Data'[j].m_MailboxName = m_Data[j].m_MailboxName
        BY HandleKeeps
  <1>5. Indexed'
        BY <1>1, <1>3, <1>4 DEF Indexed, Alive
  <1>6. /\ Len(events) \in Nat \ {0}
        /\ Head(events) = events[1]
        /\ Head(events) \in Event
        /\ Len(Tail(events)) = Len(events) - 1
        /\ \A k \in 1..Len(Tail(events)) : Tail(events)[k] = events[k + 1]
        BY <1>1, HeadTailProperties, LenProperties, EmptySeq
  <1>7. Sound(Head(events))
        BY <1>3, <1>6
  <1>8. \A j \in 1..Len(m_Data) : ~Freed(j)
        BY <1>1 DEF Freed, LoggingOut, InStep
  <1>9. ~HandleResultReadyFails
    <2>1. SUFFICES ASSUME HandleResultReadyFails PROVE FALSE
          OBVIOUS
    <2> DEFINE i == Head(events).idx
    <2>2. i \in 1..Len(m_Data)
          BY <1>7, <2>1 DEF HandleResultReadyFails, Take, Sound
    <2>3. i > Len(m_Data)
          BY <1>8, <2>1 DEF HandleResultReadyFails
    <2>4. QED
          BY <2>2, <2>3, LenProperties DEF MonitorTypeOK
  <1>10. ~HandleMailErrorFails
    <2>1. SUFFICES ASSUME HandleMailErrorFails PROVE FALSE
          OBVIOUS
    <2> DEFINE a == Head(events).server
    <2>2. a \in Address /\ Alive(a)
          BY <1>6, <1>7, <2>1 DEF HandleMailErrorFails, Take, Sound, Event,
             ResultEvent, ErrorEvent
    <2>3. m_ConfigurationIdx[a] \in 1..Len(m_Data)
          BY <1>3, <2>2 DEF Indexed
    <2>4. QED
          BY <1>8, <2>1, <2>2, <2>3 DEF HandleMailErrorFails
  <1>11. fault' \in {"none", "short"}
         BY <1>3, <1>9, <1>10 DEF Handle, HandleResultReady, HandleMailError
  <1>12. ASSUME NEW k \in 1..Len(events') PROVE Sound(events[k])'
    <2>1. k + 1 \in 1..Len(events) /\ events'[k] = events[k + 1]
          BY <1>1, <1>6
    <2>2. Sound(events'[k])
          BY <1>3, <2>1
    <2>3. QED
          BY <1>1, <1>4, <2>2 DEF Sound, Alive
  <1>13. QED
         BY <1>5, <1>11, <1>12

\* The GUI thread keeps the signals sound until it reloads.
LEMMA GuiFirst ==
  ASSUME Prompt, SInv, GuiStep
  PROVE  FirstTime'
  <1> USE DEF SInv
  <1>1. CASE Handle
        BY <1>1, HandleFirst
  <1>2. CASE \E a \in Address : LoadServer(a)
        BY <1>2, LoadServerFirst
  <1>3. CASE LoadDone
    <2>1. /\ gui = "loading" /\ gui' = "loop"
          /\ UNCHANGED <<polls, m_ConfigurationIdx, m_Data, events, reloaded,
                         fault>>
          BY <1>3 DEF LoadDone, Start, protocolVars
    <2>2. QED
          BY <2>1 DEF FirstTime, Indexed, Sound, Alive
  <1>4. CASE Reload
        BY <1>4 DEF Reload, FirstTime
  <1>5. CASE Quit \/ QuitWaited
        BY <1>5 DEF Quit, QuitWaited, Halt, monitorVars, FirstTime
  <1>6. CASE ReloadWaited
        BY <1>6 DEF ReloadWaited, FirstTime
  <1>7. QED
        BY <1>1, <1>2, <1>3, <1>4, <1>5, <1>6, GuiNoFault

-----------------------------------------------------------------------------
(* The theorem.                                                            *)

\* The invariant holds at first.
LEMMA InitSInv == Init => SInv
  <1>1. SUFFICES ASSUME Init PROVE SInv
        OBVIOUS
  <1>2. RInv
        BY <1>1, InitIInv, InitRInv DEF RInv
  <1>3. Harmless /\ Awake
        BY <1>1 DEF Init, ProtocolInit, MonitorInit, Harmless, Awake, Alive,
           LoggingOut
  <1>4. FirstTime
        BY <1>1 DEF Init, ProtocolInit, MonitorInit, FirstTime, Indexed, Alive
  <1>5. QED
        BY <1>2, <1>3, <1>4 DEF SInv

\* Every step keeps the signals sound until the first reload.
LEMMA NextFirst ==
  ASSUME Prompt, SInv, [Next]_vars
  PROVE  FirstTime'
  <1>1. CASE UNCHANGED vars
        BY <1>1, QuietFirst
        DEF SInv, vars, protocolVars, monitorVars, appVars
  <1>2. CASE Environment
        BY <1>2, QuietFirst
        DEF SInv, Environment, FoundChanges, monitorVars, appVars
  <1>3. QED
        BY <1>1, <1>2, GuiFirst, MonitorFirst, WorkerFirst DEF Next, Terminated

\* With prompt threads the monitor, its list and its signals do not end the
\* process before the first reload, only doWork does, where it reads beyond an
\* answer; later a signal that outlived its server object can, too.  For any
\* number of mailboxes, addresses and queued signals (addServer's index, the
\* queue of signals, and run's deleting loop).
THEOREM SignalsAreSound ==
  ASSUME Prompt
  PROVE  Spec => []SoundUntilReload
  <1>1. Init => SInv
        BY InitSInv
  <1>2. SInv /\ [Next]_vars => SInv'
    <2>1. SUFFICES ASSUME SInv, [Next]_vars
                   PROVE  SInv'
          OBVIOUS
    <2>2. Steady
          BY DEF Prompt, Steady
    <2>3. QED
          BY <2>1, <2>2, RInvKept, NextHarmless, NextAwake, NextFirst DEF SInv
  <1>3. SInv => SoundUntilReload
        BY DEF SInv, Harmless, FirstTime, Sound, SoundUntilReload
  <1>4. QED
        BY <1>1, <1>2, <1>3, PTL DEF Spec
=============================================================================
