--------------------------- MODULE CMailApp_proofs ---------------------------
(***************************************************************************)
(* Proofs about CMailApp, for any number of addresses and mailboxes, any   *)
(* contents, any bounds and any delays.                                    *)
(***************************************************************************)
EXTENDS CMailApp, SequenceTheorems, TLAPS

USE ProtocolAssumption, DelaysAssumption, AppAssumption

\* Who owns what: a thread that runs has its object, doWork is under way in a
\* running thread only, a free address has no socket, and the object whose
\* destructor is at its LOGOUT still exists but has no thread any more.
Owned ==
  /\ \A a \in Address :
       /\ ThreadRuns(a) => Alive(a)
       /\ work[a] # "idle" => ThreadRuns(a)
       /\ ~Alive(a) => m_Socket[a] = "null"
  /\ LoggingOut =>
       /\ reap <= Len(m_Data)
       /\ Alive(Victim)
       /\ ~ThreadRuns(Victim)

IInv == TypeOK /\ Owned

-----------------------------------------------------------------------------
(* The first states.                                                       *)

LEMMA ConfigIsSeq == Config \subseteq Seq(Mailbox)
  <1>1. SUFFICES ASSUME NEW n \in 0..MaxMailboxes, NEW c \in [1..n -> Mailbox]
                 PROVE  c \in Seq(Mailbox)
        BY DEF Config
  <1>2. n \in Nat
        OBVIOUS
  <1>3. QED
        BY <1>2, SeqDef

LEMMA InitIInv == Init => IInv
  <1>1. SUFFICES ASSUME Init PROVE IInv
        OBVIOUS
  <1>2. ProtocolTypeOK
        BY <1>1, EmptySeq DEF Init, ProtocolInit, ProtocolTypeOK
  <1>3. MonitorTypeOK
    <2>1. m_Running \in BOOLEAN
          BY <1>1 DEF Init, MonitorInit
    <2>2. m_Data \in Seq(Entry) /\ reap \in Nat \ {0}
          BY <1>1, EmptySeq DEF Init, MonitorInit
    <2>3. mon \in MonitorPlaces /\ fault \in Faults
          BY <1>1 DEF Init, MonitorInit, MonitorPlaces, Faults
    <2>4. QED
          BY <2>1, <2>2, <2>3 DEF MonitorTypeOK
  <1>4. AppTypeOK
        BY <1>1, ConfigIsSeq DEF Init, AppTypeOK, Icons
  <1>5. Owned
        BY <1>1 DEF Init, ProtocolInit, MonitorInit, Owned, LoggingOut,
           ThreadRuns, Alive
  <1>6. QED
        BY <1>2, <1>3, <1>4, <1>5 DEF IInv, TypeOK

-----------------------------------------------------------------------------
(* The worker threads and the mailboxes.                                   *)

LEMMA PostType ==
  ASSUME events \in Seq(Event), NEW e \in Event, Post(e)
  PROVE  events' \in Seq(Event)
  BY DEF Post

LEMMA WorkerIInv ==
  ASSUME IInv, NEW a \in Address, Worker(a)
  PROVE  IInv'
  <1> USE DEF IInv, TypeOK, ProtocolTypeOK
  <1>1. MonitorTypeOK' /\ AppTypeOK'
        BY DEF Worker, Faults, appVars, MonitorTypeOK, AppTypeOK
  <1>2. (work[a] # "idle" => Alive(a)) /\ (ThreadRuns(a) => Alive(a))
        BY DEF Owned
  <1>3. CASE WorkerBegin(a)
    <2>1. ProtocolTypeOK'
          BY <1>3 DEF WorkerBegin
    <2>2. Owned'
          BY <1>2, <1>3 DEF Worker, WorkerBegin, Owned, ThreadRuns, Alive, Victim,
             LoggingOut
    <2>3. QED
          BY <2>1, <2>2, <1>1
  <1>4. CASE WorkerResult(a)
    <2>1. polls[a] \in Mailbox
          BY <1>2, <1>4 DEF WorkerResult, Alive
    <2>2. [kind |-> "resultReady", idx |-> m_ConfigurationIdx[a],
           count |-> found[polls[a]], from |-> polls[a]] \in Event
          BY <2>1 DEF Event, ResultEvent
    <2>3. ProtocolTypeOK'
          BY <1>4, <2>2, PostType DEF WorkerResult
    <2>4. Owned'
          BY <1>4 DEF Worker, WorkerResult, Owned, ThreadRuns, Alive, Victim,
             LoggingOut
    <2>5. QED
          BY <2>3, <2>4, <1>1
  <1>5. CASE WorkerError(a)
    <2>1. [kind |-> "mailError", server |-> a] \in Event
          BY DEF Event, ErrorEvent
    <2>2. ProtocolTypeOK'
          BY <1>5, <2>1, PostType DEF WorkerError
    <2>3. Owned'
          BY <1>5 DEF Worker, WorkerError, Owned, ThreadRuns, Alive, Victim,
             LoggingOut
    <2>4. QED
          BY <2>2, <2>3, <1>1
  <1>6. CASE WorkerEnd(a)
    <2>1. ProtocolTypeOK'
          BY <1>6 DEF WorkerEnd
    <2>2. Owned'
          BY <1>2, <1>6 DEF Worker, WorkerEnd, Owned, ThreadRuns, Alive, Victim,
             LoggingOut
    <2>3. QED
          BY <2>1, <2>2, <1>1
  <1>7. CASE WorkerAbandon(a)
    <2>1. ProtocolTypeOK'
          BY <1>7 DEF WorkerAbandon
    <2>2. Owned'
          BY <1>2, <1>7 DEF Worker, WorkerAbandon, Owned, ThreadRuns, Alive,
             Victim, LoggingOut
    <2>3. QED
          BY <2>1, <2>2, <1>1
  <1>8. CASE WorkerExit(a)
    <2>1. ProtocolTypeOK'
          BY <1>8 DEF WorkerExit
    <2>2. Owned'
          BY <1>8 DEF Worker, WorkerExit, Owned, ThreadRuns, Alive, Victim,
             LoggingOut
    <2>3. QED
          BY <2>1, <2>2, <1>1
  <1>9. CASE WorkerDies(a)
    <2>1. ProtocolTypeOK'
          BY <1>9 DEF WorkerDies
    <2>2. Owned'
      <3>1. work[a] # "idle"
            BY <1>9 DEF WorkerDies
      <3>2. ThreadRuns(a)
            BY <3>1 DEF Owned
      <3>3. QED
            BY <1>9, <3>2 DEF Worker, WorkerDies, Owned, ThreadRuns, Alive,
               Victim, LoggingOut
    <2>3. QED
          BY <2>1, <2>2, <1>1
  <1>10. QED
         BY <1>3, <1>4, <1>5, <1>6, <1>7, <1>8, <1>9 DEF Worker, WorkerStep

LEMMA EnvironmentIInv ==
  ASSUME IInv, Environment
  PROVE  IInv'
  <1>1. TypeOK'
        BY DEF IInv, TypeOK, Environment, FoundChanges, ProtocolTypeOK,
           MonitorTypeOK, AppTypeOK, monitorVars, appVars
  <1>2. Owned'
        BY DEF IInv, Owned, Environment, FoundChanges, ThreadRuns, Alive, Victim,
           LoggingOut, monitorVars
  <1>3. QED
        BY <1>1, <1>2 DEF IInv
-----------------------------------------------------------------------------
(* The monitor thread.                                                     *)

LEMMA VictimType ==
  ASSUME IInv, reap <= Len(m_Data)
  PROVE  /\ reap \in 1..Len(m_Data)
         /\ Victim \in Address
  <1>1. m_Data \in Seq(Entry) /\ reap \in Nat \ {0}
        BY DEF IInv, TypeOK, MonitorTypeOK
  <1>2. reap \in 1..Len(m_Data)
        BY <1>1
  <1>3. m_Data[reap] \in Entry
        BY <1>1, <1>2, ElementOfSeq
  <1>4. QED
        BY <1>2, <1>3 DEF Victim, Entry

LEMMA MonitorIInv ==
  ASSUME IInv, Monitor
  PROVE  IInv'
  <1> USE DEF IInv, TypeOK, MonitorTypeOK
  <1>1. AppTypeOK'
        BY DEF Monitor, appVars, AppTypeOK
  <1>2. CASE RunBegin
    <2>1. ProtocolTypeOK' /\ MonitorTypeOK'
          BY <1>2 DEF RunBegin, protocolVars, ProtocolTypeOK, MonitorPlaces
    <2>2. Owned'
          BY <1>2 DEF RunBegin, protocolVars, Owned, ThreadRuns, Alive,
             LoggingOut
    <2>3. QED
          BY <1>1, <2>1, <2>2
  <1>3. CASE RunCheck
    <2>1. ProtocolTypeOK' /\ MonitorTypeOK'
          BY <1>3 DEF RunCheck, protocolVars, ProtocolTypeOK, MonitorPlaces
    <2>2. Owned'
          BY <1>3 DEF RunCheck, protocolVars, Owned, ThreadRuns, Alive,
             LoggingOut
    <2>3. QED
          BY <1>1, <2>1, <2>2
  <1>4. CASE RunEmit
    <2>1. ProtocolTypeOK' /\ MonitorTypeOK'
          BY <1>4 DEF RunEmit, ProtocolTypeOK, MonitorPlaces
    <2>2. Owned'
          BY <1>4 DEF RunEmit, Owned, ThreadRuns, Alive,
             LoggingOut
    <2>3. QED
          BY <1>1, <2>1, <2>2
  <1>5. CASE RunSleep
    <2>1. ProtocolTypeOK' /\ MonitorTypeOK'
          BY <1>5 DEF RunSleep, protocolVars, ProtocolTypeOK, MonitorPlaces
    <2>2. Owned'
          BY <1>5 DEF RunSleep, protocolVars, Owned, ThreadRuns, Alive,
             LoggingOut
    <2>3. QED
          BY <1>1, <2>1, <2>2
  <1>6. CASE RunQuit
    <2>1. ProtocolTypeOK' /\ MonitorTypeOK'
          BY <1>6 DEF RunQuit, ProtocolTypeOK, MonitorPlaces
    <2>2. Owned'
          BY <1>6 DEF RunQuit, ProtocolTypeOK, Owned, ThreadRuns, Alive,
             LoggingOut
    <2>3. QED
          BY <1>1, <2>1, <2>2
  <1>7. CASE RunReap
    <2>1. reap \in 1..Len(m_Data) /\ Victim \in Address
          BY <1>7, VictimType DEF RunReap
    <2>2. ProtocolTypeOK' /\ MonitorTypeOK'
          BY <1>7, <2>1 DEF RunReap, Destroyed, ProtocolTypeOK
    <2>3. Owned'
          BY <1>7, <2>1 DEF RunReap, Destroyed, ProtocolTypeOK, Owned,
             ThreadRuns, Alive,
             LoggingOut
    <2>4. QED
          BY <1>1, <2>2, <2>3
  <1>8. CASE RunReapConnected
    <2>1. reap \in 1..Len(m_Data) /\ Victim \in Address
          BY <1>8, VictimType DEF RunReapConnected
    <2>2. ProtocolTypeOK' /\ MonitorTypeOK'
          BY <1>8, <2>1 DEF RunReapConnected, ProtocolTypeOK, MonitorPlaces
    <2>3. Victim' = Victim
          BY <1>8 DEF RunReapConnected, Victim
    <2>4. Owned'
          BY <1>8, <2>1, <2>3 DEF RunReapConnected, ProtocolTypeOK, Owned,
             ThreadRuns, Alive,
             LoggingOut
    <2>5. QED
          BY <1>1, <2>2, <2>4
  <1>9. ASSUME LoggingOut
        PROVE  /\ reap \in 1..Len(m_Data)
               /\ Victim \in Address
               /\ Post([kind |-> "mailError", server |-> Victim])
                    => events' \in Seq(Event)
    <2>1. reap \in 1..Len(m_Data) /\ Victim \in Address
          BY <1>9, VictimType DEF Owned
    <2>2. [kind |-> "mailError", server |-> Victim] \in Event
          BY <2>1 DEF Event, ErrorEvent
    <2>3. QED
          BY <2>1, <2>2, PostType DEF ProtocolTypeOK
  <1>10. CASE RunLogoutFails
    <2>1. events' \in Seq(Event)
          BY <1>9, <1>10 DEF RunLogoutFails, LoggingOut, ProtocolTypeOK
    <2>2. ProtocolTypeOK' /\ MonitorTypeOK'
          BY <1>10, <2>1 DEF RunLogoutFails, ProtocolTypeOK, MonitorPlaces
    <2>3. Victim' = Victim
          BY <1>10 DEF RunLogoutFails, Victim
    <2>4. Owned'
          BY <1>10, <2>3 DEF RunLogoutFails, Owned, ThreadRuns, Alive, LoggingOut
    <2>5. QED
          BY <1>1, <2>2, <2>4
  <1>11. CASE RunLogout
    <2>1. LoggingOut
          BY <1>11 DEF RunLogout
    <2>2. events' \in Seq(Event)
          BY <1>9, <1>11, <2>1 DEF RunLogout, ProtocolTypeOK
    <2>3. ProtocolTypeOK' /\ MonitorTypeOK'
          BY <1>9, <1>11, <2>1, <2>2 DEF RunLogout, Destroyed, ProtocolTypeOK,
             MonitorPlaces
    <2>4. Owned'
          BY <1>9, <1>11, <2>1 DEF RunLogout, Destroyed, ProtocolTypeOK, Owned,
             ThreadRuns, Alive, LoggingOut
    <2>5. QED
          BY <1>1, <2>3, <2>4
  <1>12. CASE RunReapNull
    <2>1. ProtocolTypeOK' /\ MonitorTypeOK'
          BY <1>12 DEF RunReapNull, protocolVars, ProtocolTypeOK, Faults
    <2>2. Owned'
          BY <1>12 DEF RunReapNull, protocolVars, Owned, ThreadRuns, Alive,
             LoggingOut
    <2>3. QED
          BY <1>1, <2>1, <2>2
  <1>13. CASE RunReapExpired
    <2>1. ProtocolTypeOK' /\ MonitorTypeOK'
          BY <1>13 DEF RunReapExpired, protocolVars, ProtocolTypeOK, Faults
    <2>2. Owned'
          BY <1>13 DEF RunReapExpired, protocolVars, Owned, ThreadRuns, Alive,
             LoggingOut
    <2>3. QED
          BY <1>1, <2>1, <2>2
  <1>14. CASE RunEnd
    <2>1. ProtocolTypeOK' /\ MonitorTypeOK'
          BY <1>14, EmptySeq DEF RunEnd, protocolVars, ProtocolTypeOK,
             MonitorPlaces
    <2>2. Owned'
          BY <1>14 DEF RunEnd, protocolVars, Owned, ThreadRuns, Alive,
             LoggingOut
    <2>3. QED
          BY <1>1, <2>1, <2>2
  <1>15. CASE RunReaped
    <2>1. ProtocolTypeOK' /\ MonitorTypeOK'
          BY <1>15 DEF RunReaped, protocolVars, ProtocolTypeOK, MonitorPlaces
    <2>2. Owned'
          BY <1>15 DEF RunReaped, protocolVars, Owned, ThreadRuns, Alive,
             LoggingOut
    <2>3. QED
          BY <1>1, <2>1, <2>2
  <1>16. QED
         BY <1>2, <1>3, <1>4, <1>5, <1>6, <1>7, <1>8, <1>10, <1>11, <1>12,
            <1>13, <1>14, <1>15
         DEF Monitor, MonitorStep
-----------------------------------------------------------------------------
(* The GUI thread.                                                         *)

LEMMA LoadServerIInv ==
  ASSUME IInv, NEW a \in Address, LoadServer(a)
  PROVE  IInv'
  <1> USE DEF IInv, TypeOK, ProtocolTypeOK, MonitorTypeOK, AppTypeOK
  <1> DEFINE b == Head(todo)
             e == [m_Server |-> a, m_MailboxName |-> b, count |-> Unknown]
  <1>1. b \in Mailbox /\ todo' \in Seq(Mailbox)
        BY HeadTailProperties DEF LoadServer
  <1>2. e \in Entry
        BY <1>1 DEF Entry
  <1>3. /\ m_Data' \in Seq(Entry)
        /\ Len(m_Data') = Len(m_Data) + 1
        /\ \A i \in 1..Len(m_Data) : m_Data'[i] = m_Data[i]
    <2>1. m_Data' = Append(m_Data, e)
          BY DEF LoadServer, AddServer
    <2>2. QED
          BY <1>2, <2>1, AppendProperties
  <1>4. TypeOK'
    <2>1. ProtocolTypeOK'
          BY <1>1, <1>3 DEF LoadServer, AddServer, Create
    <2>2. MonitorTypeOK' /\ AppTypeOK'
          BY <1>1, <1>3 DEF LoadServer, AddServer
    <2>3. QED
          BY <2>1, <2>2
  <1>5. Owned'
    <2>1. \A x \in Address :
            /\ ThreadRuns(x)' => Alive(x)'
            /\ work'[x] # "idle" => ThreadRuns(x)'
            /\ ~Alive(x)' => m_Socket'[x] = "null"
          BY <1>1 DEF LoadServer, AddServer, Create, Owned, ThreadRuns, Alive
    <2>2. ASSUME LoggingOut'
          PROVE  /\ reap' <= Len(m_Data')
                 /\ Alive(Victim)'
                 /\ ~ThreadRuns(Victim)'
      <3>1. LoggingOut /\ reap' = reap
            BY <2>2 DEF LoadServer, AddServer, LoggingOut
      <3>2. reap \in 1..Len(m_Data) /\ Victim \in Address
            BY <3>1, VictimType DEF Owned
      <3>3. Victim' = Victim
            BY <1>3, <3>1, <3>2 DEF Victim
      <3>4. Victim # a
            BY <3>1 DEF LoadServer, AddServer, Create, Owned
      <3>5. QED
            BY <1>3, <3>1, <3>2, <3>3, <3>4
            DEF LoadServer, AddServer, Create, Owned, ThreadRuns, Alive
    <2>3. QED
          BY <2>1, <2>2 DEF Owned
  <1>6. QED
        BY <1>4, <1>5

\* A step that changes neither the objects nor what the monitor does keeps the
\* ownership.
LEMMA OwnedKept ==
  ASSUME Owned,
         UNCHANGED <<polls, thread, work, m_Socket, mon, reap>>,
         m_Data' = m_Data
  PROVE  Owned'
  BY DEF Owned, ThreadRuns, Alive, Victim, LoggingOut

\* A signal changes neither the server objects nor their order in m_Data.
LEMMA HandleKeeps ==
  ASSUME IInv, Handle
  PROVE  /\ m_Data' \in Seq(Entry)
         /\ Len(m_Data') = Len(m_Data)
         /\ \A j \in 1..Len(m_Data) :
              /\ m_Data'[j].m_Server = m_Data[j].m_Server
              /\ m_Data'[j].m_MailboxName = m_Data[j].m_MailboxName
         /\ tray' \in Icons
         /\ fault' \in Faults
  <1> USE DEF IInv, TypeOK, MonitorTypeOK, AppTypeOK
  <1>1. Head(events) \in Event
        BY HeadTailProperties
        DEF Handle, HandleResultReady, HandleResultReadyFails,
            HandleMailError, HandleMailErrorFails, Take, ProtocolTypeOK
  <1>2. CASE HandleResultReady
    <2> DEFINE i == Head(events).idx
               c == Head(events).count
    <2>1. i \in Nat /\ c \in Count /\ fault' = fault
          BY <1>1, <1>2 DEF HandleResultReady, Take, Event, ResultEvent,
             ErrorEvent
    <2>2. CASE m_Data' = m_Data /\ tray' = tray
          BY <2>1, <2>2
    <2>3. CASE /\ i <= Len(m_Data)
               /\ m_Data' = [m_Data EXCEPT ![i].count = c]
               /\ tray' = IconFor(m_Data')
      <3>1. tray' \in Icons
            BY <2>3 DEF IconFor, Icons
      <3>2. CASE i \in 1..Len(m_Data)
        <4>1. m_Data[i] \in Entry
              BY <3>2, ElementOfSeq
        <4>2. [m_Data[i] EXCEPT !.count = c] \in Entry
              BY <2>1, <4>1 DEF Entry
        <4>3. m_Data' = [m_Data EXCEPT ![i] = [m_Data[i] EXCEPT !.count = c]]
              BY <2>3
        <4>4. LET e == [m_Data[i] EXCEPT !.count = c]
              IN /\ e.m_Server = m_Data[i].m_Server
                 /\ e.m_MailboxName = m_Data[i].m_MailboxName
              BY <4>1 DEF Entry
        <4>5. QED
              BY <2>1, <3>1, <3>2, <4>2, <4>3, <4>4, ExceptSeq
      <3>3. CASE i = 0
        <4>1. m_Data' = m_Data
              BY <2>3, <3>3, LenProperties
        <4>2. QED
              BY <2>1, <3>1, <4>1
      <3>4. QED
            BY <2>1, <2>3, <3>2, <3>3
    <2>4. QED
          BY <1>2, <2>2, <2>3 DEF HandleResultReady
  <1>3. CASE HandleResultReadyFails \/ HandleMailErrorFails
        BY <1>3 DEF HandleResultReadyFails, HandleMailErrorFails, Faults
  <1>4. CASE HandleMailError
        BY <1>4 DEF HandleMailError, Icons
  <1>5. QED
        BY <1>2, <1>3, <1>4 DEF Handle

LEMMA HandleIInv ==
  ASSUME IInv, Handle
  PROVE  IInv'
  <1> USE DEF IInv, TypeOK, ProtocolTypeOK, MonitorTypeOK, AppTypeOK
  <1>1. /\ events # <<>>
        /\ events' = Tail(events)
        /\ UNCHANGED <<polls, m_ConfigurationIdx, m_Socket, thread, work,
                       pending, found, gui, todo, reloaded, m_Running, mon,
                       reap>>
        BY DEF Handle, HandleResultReady, HandleResultReadyFails,
           HandleMailError, HandleMailErrorFails, Take
  <1>2. events' \in Seq(Event)
        BY <1>1, HeadTailProperties
  <1>3. TypeOK'
        BY <1>1, <1>2, HandleKeeps
  <1>4. Owned'
    <2>1. ASSUME LoggingOut PROVE Victim' = Victim
      <3>1. reap \in 1..Len(m_Data)
            BY <2>1, VictimType DEF Owned
      <3>2. QED
            BY <1>1, <3>1, HandleKeeps DEF Victim
    <2>2. QED
          BY <1>1, <2>1, HandleKeeps DEF Owned, ThreadRuns, Alive, LoggingOut
  <1>5. QED
        BY <1>3, <1>4

LEMMA GuiIInv ==
  ASSUME IInv, GuiStep
  PROVE  IInv'
  <1> USE DEF IInv, TypeOK
  <1>1. CASE \E a \in Address : LoadServer(a)
        BY <1>1, LoadServerIInv
  <1>2. CASE Handle
        BY <1>2, HandleIInv
  <1>3. CASE LoadServerRaces \/ QuitExpired
    <2>1. fault' \in Faults /\ UNCHANGED <<protocolVars, m_Running, m_Data,
                                            mon, reap, appVars>>
          BY <1>3 DEF LoadServerRaces, QuitExpired, Faults
    <2>2. TypeOK'
          BY <2>1 DEF ProtocolTypeOK, MonitorTypeOK, AppTypeOK, protocolVars,
             appVars
    <2>3. Owned'
          BY <2>1, OwnedKept DEF protocolVars
    <2>4. QED
          BY <2>2, <2>3
  <1>4. CASE LoadDone
    <2>1. TypeOK'
          BY <1>4 DEF LoadDone, Start, ProtocolTypeOK, MonitorTypeOK,
             MonitorPlaces, AppTypeOK, protocolVars
    <2>2. Owned'
          BY <1>4 DEF LoadDone, Start, protocolVars, Owned, ThreadRuns, Alive,
             Victim, LoggingOut
    <2>3. QED
          BY <2>1, <2>2
  <1>5. CASE Reload \/ Quit
    <2>1. /\ m_Running' = FALSE
          /\ UNCHANGED <<m_Data, mon, reap, fault, protocolVars, todo, tray>>
          /\ gui' \in {"waitReload", "waitQuit"}
          /\ reloaded' \in BOOLEAN
          BY <1>5 DEF Reload, Quit, Halt, AppTypeOK
    <2>2. ProtocolTypeOK'
          BY <2>1 DEF ProtocolTypeOK, protocolVars
    <2>3. MonitorTypeOK'
          BY <2>1 DEF MonitorTypeOK
    <2>4. AppTypeOK'
          BY <2>1 DEF AppTypeOK
    <2>5. Owned'
          BY <2>1, OwnedKept DEF protocolVars
    <2>6. QED
          BY <2>2, <2>3, <2>4, <2>5
  <1>6. CASE ReloadWaited
    <2>1. TypeOK'
          BY <1>6, ConfigIsSeq DEF ReloadWaited, ProtocolTypeOK, MonitorTypeOK,
             AppTypeOK, protocolVars, monitorVars
    <2>2. Owned'
          BY <1>6, OwnedKept DEF ReloadWaited, protocolVars, monitorVars
    <2>3. QED
          BY <2>1, <2>2
  <1>7. CASE QuitWaited
    <2>1. TypeOK'
          BY <1>7 DEF QuitWaited, ProtocolTypeOK, MonitorTypeOK, AppTypeOK,
             protocolVars, monitorVars
    <2>2. Owned'
          BY <1>7, OwnedKept DEF QuitWaited, protocolVars, monitorVars
    <2>3. QED
          BY <2>1, <2>2
  <1>8. QED
        BY <1>1, <1>2, <1>3, <1>4, <1>5, <1>6, <1>7 DEF GuiStep, Load, Waited

-----------------------------------------------------------------------------
(* The theorems.                                                           *)

LEMMA NextIInv == IInv /\ [Next]_vars => IInv'
  <1>1. SUFFICES ASSUME IInv, [Next]_vars PROVE IInv'
        OBVIOUS
  <1>2. CASE UNCHANGED vars
    <2>1. TypeOK'
          BY <1>1, <1>2 DEF IInv, TypeOK, ProtocolTypeOK, MonitorTypeOK,
             AppTypeOK, vars, protocolVars, monitorVars, appVars
    <2>2. Owned'
          BY <1>1, <1>2, OwnedKept DEF IInv, vars, protocolVars, monitorVars
    <2>3. QED
          BY <2>1, <2>2 DEF IInv
  <1>3. QED
        BY <1>1, <1>2, GuiIInv, MonitorIInv, WorkerIInv, EnvironmentIInv
        DEF Next, Terminated

THEOREM IInvHolds == Spec => []IInv
  BY InitIInv, NextIInv, PTL DEF Spec

\* Every variable always has a value of its type.
THEOREM TypeCorrect == Spec => []TypeOK
  <1>1. IInv => TypeOK
        BY DEF IInv
  <1>2. QED
        BY <1>1, IInvHolds, PTL

\* Whatever delays there are, CMailMonitor::run never deletes a server object
\* whose thread still runs or whose doWork() is under way.
THEOREM NoOrphanedWork == Spec => []WorkersHaveServers
  <1>1. IInv => WorkersHaveServers
        BY DEF IInv, Owned, WorkersHaveServers
  <1>2. QED
        BY <1>1, IInvHolds, PTL

-----------------------------------------------------------------------------
(* The tray.                                                               *)

LEMMA LoadServerTray ==
  ASSUME IInv, TrayAgrees, NEW a \in Address, LoadServer(a)
  PROVE  TrayAgrees'
  <1> DEFINE e == [m_Server |-> a, m_MailboxName |-> Head(todo),
                   count |-> Unknown]
             n == Len(m_Data)
  <1>1. m_Data \in Seq(Entry) /\ n \in Nat
        BY LenProperties DEF IInv, TypeOK, MonitorTypeOK
  <1>2. e \in Entry
        BY HeadTailProperties DEF Entry, LoadServer, IInv, TypeOK, AppTypeOK
  <1>3. m_Data' = Append(m_Data, e) /\ tray' = tray
        BY DEF LoadServer, AddServer
  <1>4. /\ Len(m_Data') = n + 1
        /\ \A i \in 1..n : m_Data'[i] = m_Data[i]
        /\ m_Data'[n + 1].count = Unknown
    <2>1. m_Data'[n + 1] = e
          BY <1>1, <1>2, <1>3, AppendProperties
    <2>2. QED
          BY <1>1, <1>2, <1>3, <2>1, AppendProperties
  <1>5. ~(Unknown.unread > 0) /\ ~(Unknown.read > 0)
        BY DEF Unknown
  <1>6. \A i \in 1..Len(m_Data') : i \in 1..n \/ i = n + 1
        BY <1>1, <1>4
  <1>7. 1..n \subseteq 1..Len(m_Data')
        BY <1>1, <1>4
  <1>8. IconFor(m_Data') = IconFor(m_Data)
    <2>1. (\E i \in 1..Len(m_Data') : m_Data'[i].count.unread > 0)
            <=> \E i \in 1..n : m_Data[i].count.unread > 0
          BY <1>4, <1>5, <1>6, <1>7
    <2>2. (\E i \in 1..Len(m_Data') : m_Data'[i].count.read > 0)
            <=> \E i \in 1..n : m_Data[i].count.read > 0
          BY <1>4, <1>5, <1>6, <1>7
    <2>3. QED
          BY <2>1, <2>2 DEF IconFor
  <1>9. QED
        BY <1>3, <1>4, <1>6, <1>8 DEF TrayAgrees

LEMMA HandleTray ==
  ASSUME TrayAgrees, Handle
  PROVE  TrayAgrees'
  <1>1. CASE HandleResultReady
        BY <1>1 DEF HandleResultReady, TrayAgrees, IconFor
  <1>2. CASE HandleResultReadyFails \/ HandleMailErrorFails
        BY <1>2 DEF HandleResultReadyFails, HandleMailErrorFails, TrayAgrees,
           IconFor
  <1>3. CASE HandleMailError
        BY <1>3 DEF HandleMailError, TrayAgrees, MailIcons
  <1>4. QED
        BY <1>1, <1>2, <1>3 DEF Handle

LEMMA NextTray == IInv /\ TrayAgrees /\ [Next]_vars => TrayAgrees'
  <1>1. SUFFICES ASSUME IInv, TrayAgrees, [Next]_vars PROVE TrayAgrees'
        OBVIOUS
  <1>2. CASE UNCHANGED <<m_Data, tray>>
        BY <1>1, <1>2 DEF TrayAgrees, IconFor
  <1>3. CASE \E a \in Address : LoadServer(a)
        BY <1>1, <1>3, LoadServerTray
  <1>4. CASE Handle
        BY <1>1, <1>4, HandleTray
  <1>5. CASE Monitor
    <2>1. tray' = tray /\ (m_Data' = m_Data \/ m_Data' = <<>>)
          BY <1>5 DEF Monitor, MonitorStep, appVars, RunBegin, RunCheck, RunEmit,
             RunSleep, RunQuit, RunReap, RunReapConnected, RunLogoutFails,
             RunLogout, RunReapNull, RunReapExpired, RunReaped, RunEnd
    <2>2. CASE m_Data' = <<>>
      <3>1. \A i \in 1..Len(m_Data') : m_Data'[i].count = Unknown
            BY <2>2
      <3>2. QED
            BY <3>1 DEF TrayAgrees
    <2>3. QED
          BY <1>2, <2>1, <2>2
  <1>6. UNCHANGED vars => UNCHANGED <<m_Data, tray>>
        BY DEF vars, monitorVars, appVars
  <1>7. \A a \in Address : Worker(a) => UNCHANGED <<m_Data, tray>>
        BY DEF Worker, appVars
  <1>8. Environment => UNCHANGED <<m_Data, tray>>
        BY DEF Environment, monitorVars, appVars
  <1>9. LoadServerRaces \/ LoadDone \/ Reload \/ Quit \/ Waited
          => UNCHANGED <<m_Data, tray>>
        BY DEF LoadServerRaces, LoadDone, Start, Reload, Quit, Halt, Waited,
           ReloadWaited, QuitWaited, QuitExpired, monitorVars, appVars
  <1>10. QED
         BY <1>1, <1>2, <1>3, <1>4, <1>5, <1>6, <1>7, <1>8, <1>9
         DEF Next, GuiStep, Load, Terminated

\* Whatever happens, an icon about mail is the one that the numbers in m_Data
\* call for, or no number has come since the configuration was loaded.
THEOREM TrayIsRight == Spec => []TrayAgrees
  <1>1. Init => TrayAgrees
        BY DEF Init, TrayAgrees, MailIcons
  <1>2. QED
        BY <1>1, IInvHolds, NextTray, PTL DEF Spec
=============================================================================
