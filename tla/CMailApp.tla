------------------------------ MODULE CMailApp ------------------------------
(***************************************************************************)
(* CMailApp with the tray menu: the GUI thread, and with it the whole      *)
(* program, whose other threads are those of CMailMonitor and              *)
(* IMailProtocol.                                                          *)
(*                                                                         *)
(* The GUI thread takes the queued signals one at a time, which ends in    *)
(* the tray icon, and reacts to the user: leaving the setup dialog calls   *)
(* reloadConfig, quitting the program calls aboutToQuit.  The dialog runs  *)
(* a nested event loop that handles the signals as the main one does, so   *)
(* that it needs no state here; the configuration it leaves behind is      *)
(* chosen when it is read.                                                 *)
(***************************************************************************)
EXTENDS CMailMonitor

CONSTANT MaxMailboxes  \* bound: the mailboxes in one configuration

ASSUME AppAssumption == MaxMailboxes \in Nat

VARIABLES
  gui,      \* "loading", "loop", "waitReload", "waitQuit" or "exited"
  todo,     \* the mailboxes loadConfig has still to add
  tray,     \* the icon that is shown
  reloaded  \* whether reloadConfig was ever called (for the properties)

appVars == <<gui, todo, tray, reloaded>>
vars == <<protocolVars, monitorVars, appVars>>

\* A configuration names every mailbox once (CConfig::addConfig replaces the
\* entry that has the name already).
Config ==
  {c \in UNION {[1..n -> Mailbox] : n \in 0..MaxMailboxes} :
     \A i, j \in DOMAIN c : i # j => c[i] # c[j]}

Icons == {"dialog-warning", "icNewMail", "icNoMail", "icOldMail", "icStopped"}

AppTypeOK ==
  /\ gui \in {"loading", "loop", "waitReload", "waitQuit", "exited"}
  /\ todo \in Seq(Mailbox)
  /\ tray \in Icons
  /\ reloaded \in BOOLEAN

\* Every variable has a value of its type.
TypeOK == ProtocolTypeOK /\ MonitorTypeOK /\ AppTypeOK

\* main() shows the tray icon and the constructor of CMailApp calls loadConfig.
Init ==
  /\ ProtocolInit
  /\ MonitorInit
  /\ gui = "loading"
  /\ todo \in Config
  /\ tray = "dialog-warning"
  /\ reloaded = FALSE

-----------------------------------------------------------------------------
(* loadConfig: a server object per mailbox, then the monitor thread.       *)

LoadServer(a) ==
  /\ gui = "loading"
  /\ todo # <<>>
  /\ AddServer(a, Head(todo))
  /\ todo' = Tail(todo)
  /\ UNCHANGED <<gui, tray, reloaded>>

\* m_Data.append reallocates while the monitor thread walks the vector.
LoadServerRaces ==
  /\ gui = "loading"
  /\ todo # <<>>
  /\ Reaping
  /\ fault' = "race"
  /\ UNCHANGED <<protocolVars, m_Running, m_Data, mon, reap, appVars>>

LoadDone ==
  /\ gui = "loading"
  /\ todo = <<>>
  /\ Start
  /\ gui' = "loop"
  /\ UNCHANGED <<todo, tray, reloaded>>

-----------------------------------------------------------------------------
(* The slots for what the server objects tell.                             *)

\* The icon updateResult chooses for the list d.
IconFor(d) ==
  IF \E i \in 1..Len(d) : d[i].count.unread > 0 THEN "icNewMail"
  ELSE IF \E i \in 1..Len(d) : d[i].count.read > 0 THEN "icOldMail"
  ELSE "icNoMail"

\* The event loop takes the next queued signal.
Take(k) ==
  /\ gui = "loop"
  /\ events # <<>>
  /\ Head(events).kind = k
  /\ events' = Tail(events)
  /\ UNCHANGED <<polls, m_ConfigurationIdx, m_Socket, thread, work, pending,
                 found, gui, todo, reloaded, m_Running, mon, reap>>

\* Mutant: numbers differ when both do.
DifferBoth(c, d) == c.unread # d.unread /\ c.read # d.read

Differ(c, d) == c.unread # d.unread \/ c.read # d.read

\* Mutant: the icon is chosen before the numbers are stored.
HandleResultReadyEarlyIcon ==
  /\ Take("resultReady")
  /\ LET i == Head(events).idx
         c == Head(events).count
     IN /\ i <= Len(m_Data)
        /\ \/ /\ ~Differ(m_Data[i].count, c)
              /\ UNCHANGED <<m_Data, tray>>
           \/ /\ Differ(m_Data[i].count, c)
              /\ m_Data' = [m_Data EXCEPT ![i].count = c]
              /\ tray' = IconFor(m_Data)
  /\ UNCHANGED fault

\* handleResultReady of CMailMonitor: numbers that differ from the known ones
\* are stored and updateResult sets the icon; others change nothing.
HandleResultReady ==
  /\ Take("resultReady")
  /\ LET i == Head(events).idx
         c == Head(events).count
     IN /\ i <= Len(m_Data)
        /\ \/ /\ ~Differ(m_Data[i].count, c)
              /\ UNCHANGED <<m_Data, tray>>
           \/ /\ Differ(m_Data[i].count, c)
              /\ m_Data' = [m_Data EXCEPT ![i].count = c]
              /\ tray' = IconFor(m_Data')
  /\ UNCHANGED fault

\* The index is none of the list, or entries of the list have been deleted
\* (reading them can also go unnoticed, as above, in a build that does not
\* check the accesses).
HandleResultReadyFails ==
  /\ Take("resultReady")
  /\ LET i == Head(events).idx
     IN \/ /\ i > Len(m_Data)
           /\ fault' = "range"
        \/ /\ i <= Len(m_Data)
           /\ \E j \in 1..Len(m_Data) : Freed(j)
           /\ fault' = "freed"
  /\ UNCHANGED <<m_Data, tray>>

\* handleMailError passes the signal on to CMailApp::mailError, which looks the
\* mailbox up for its log message and shows the icon for an error.  A release
\* build compiles the message away, and the look-up with it.
HandleMailError ==
  /\ Take("mailError")
  /\ tray' = "icStopped"
  /\ UNCHANGED <<m_Data, fault>>

\* In the other builds the look-up reads the server object, then m_Data.
HandleMailErrorFails ==
  /\ Take("mailError")
  /\ LET a == Head(events).server
         i == m_ConfigurationIdx[a]
     IN \/ /\ ~Alive(a)
           /\ fault' = "freed"
        \/ /\ Alive(a)
           /\ i > Len(m_Data)
           /\ fault' = "range"
        \/ /\ Alive(a)
           /\ i <= Len(m_Data)
           /\ Freed(i)
           /\ fault' = "freed"
  /\ UNCHANGED <<m_Data, tray>>

Handle ==
  \/ HandleResultReady
  \/ HandleResultReadyFails
  \/ HandleMailError
  \/ HandleMailErrorFails

-----------------------------------------------------------------------------
(* reloadConfig and aboutToQuit.                                           *)

\* Unless threads can start late, no halt comes between start() and run(), or
\* before every server object has begun its first doWork.  For most halts the
\* user, who has to act first, is slow enough; it is an assumption about quitting
\* while the setup dialog is open, when the dialog returns, reloadConfig starts
\* the threads and aboutToQuit halts them without any input in between.
Settled ==
  \/ "start" \in Delays
  \/ /\ mon # "starting"
     /\ mon # "idle" => \A a \in Address : Alive(a) => m_Socket[a] # "null"

\* The setup dialog has been left: halt(), and the wait(10000) begins.
Reload ==
  /\ gui = "loop"
  /\ Settled
  /\ Halt
  /\ gui' = "waitReload"
  /\ reloaded' = TRUE
  /\ UNCHANGED <<todo, tray>>

\* Mutant: reloadConfig does not wait.
ReloadAtOnce ==
  /\ gui = "waitReload"
  /\ \E c \in Config : todo' = c
  /\ gui' = "loading"
  /\ UNCHANGED <<protocolVars, monitorVars, tray, reloaded>>

\* The wait is over, whether the monitor thread has finished or not, and
\* loadConfig reads the mailboxes.
ReloadWaited ==
  /\ gui = "waitReload"
  /\ mon = "idle" \/ MonitorOverdue
  /\ \E c \in Config : todo' = c
  /\ gui' = "loading"
  /\ UNCHANGED <<protocolVars, monitorVars, tray, reloaded>>

\* The event loop has been left: aboutToQuit calls halt() and waits.
Quit ==
  /\ gui = "loop"
  /\ Settled
  /\ Halt
  /\ gui' = "waitQuit"
  /\ UNCHANGED <<todo, tray, reloaded>>

QuitWaited ==
  /\ gui = "waitQuit"
  /\ mon = "idle"
  /\ gui' = "exited"
  /\ UNCHANGED <<protocolVars, monitorVars, todo, tray, reloaded>>

\* wait(2000) expired: main() returns and destroys the monitor, a QThread that
\* is still running.
QuitExpired ==
  /\ gui = "waitQuit"
  /\ MonitorOverdue
  /\ fault' = "fatal"
  /\ UNCHANGED <<protocolVars, m_Running, m_Data, mon, reap, appVars>>

Load ==
  \/ \E a \in Address : LoadServer(a)
  \/ LoadServerRaces
  \/ LoadDone

Waited == ReloadWaited \/ QuitWaited \/ QuitExpired

GuiStep ==
  \/ Load
  \/ Handle
  \/ Reload
  \/ Quit
  \/ Waited

-----------------------------------------------------------------------------
Up == fault = "none" /\ gui # "exited"

\* A worker thread, which can take the process with it.
Worker(a) ==
  /\ WorkerStep(a)
  /\ fault' = IF work'[a] = "dead" THEN "short" ELSE fault
  /\ UNCHANGED <<m_Running, m_Data, mon, reap, appVars>>

Monitor == MonitorStep /\ UNCHANGED appVars
Environment == FoundChanges /\ UNCHANGED <<monitorVars, appVars>>

\* The process is gone, with all its threads.
Terminated == ~Up /\ UNCHANGED vars

Next ==
  \/ /\ Up
     /\ \/ GuiStep
        \/ Monitor
        \/ \E a \in Address : Worker(a)
        \/ Environment
  \/ Terminated

Spec == Init /\ [][Next]_vars

-----------------------------------------------------------------------------
(* Fairness.  Every thread that can run does run in the end: the scheduler   *)
(* of the operating system and the event loops see to that.  doWork returns, *)
(* because each of its waits has a time limit, unless it ends the process.   *)
(* The user, the mail and the mail servers are under no obligation.          *)

\* A worker thread gets on: doWork begins, comes to its result or to its end,
\* and the event loop returns.
WorkerProgress(a) ==
  /\ \/ WorkerBegin(a)
     \/ WorkerResult(a)
     \/ WorkerEnd(a)
     \/ WorkerAbandon(a)
     \/ WorkerExit(a)
  /\ UNCHANGED <<monitorVars, appVars>>

Fairness ==
  /\ \A a \in Address : WF_vars(Up /\ WorkerProgress(a))
  /\ WF_vars(Up /\ Monitor)
  /\ WF_vars(Up /\ (Load \/ Handle \/ Waited))

FairSpec == Spec /\ Fairness

-----------------------------------------------------------------------------
(* Safety.                                                                   *)

\* No worker thread runs without its server object, and no doWork() is under
\* way on a deleted one: CMailMonitor::run deletes what it has waited for.
WorkersHaveServers ==
  \A a \in Address : ThreadRuns(a) \/ work[a] # "idle" => Alive(a)

MailIcons == {"icNewMail", "icOldMail", "icNoMail"}

\* An icon about mail agrees with the numbers in m_Data, although it is set
\* only when a number changes; after a reload, until the first new result, it
\* is that of the last configuration (handleResultReady and updateResult).
TrayAgrees ==
  tray \in MailIcons =>
    \/ tray = IconFor(m_Data)
    \/ \A i \in 1..Len(m_Data) : m_Data[i].count = Unknown

\* With prompt threads two things can end the process: doWork, when it reads
\* beyond an answer, and a signal that outlived its server object, which takes a
\* reload.  Until the first reload each queued result is about the mailbox whose
\* entry it will change (the index set in addServer, handleResultReady).
SoundUntilReload ==
  /\ fault \in {"none", "short", "range", "freed"}
  /\ ~reloaded =>
       /\ fault \in {"none", "short"}
       /\ gui \in {"loading", "loop"} =>
            \A k \in 1..Len(events) :
              LET e == events[k]
              IN e.kind = "resultReady" =>
                   /\ e.idx \in 1..Len(m_Data)
                   /\ m_Data[e.idx].m_MailboxName = e.from

Phase ==
  CASE gui = "loading" -> "assembling"
    [] gui = "loop" -> "working"
    [] gui \in {"waitReload", "waitQuit"} -> "dismissing"
    [] OTHER -> "over"

Crew == {a \in Address : Alive(a)}

Abstract == INSTANCE Generations WITH
  Server <- Address, phase <- Phase, crew <- Crew

\* Without lost halts and hanging destructors, server objects are created and
\* deleted in generations that never overlap, and at the end none is left
\* (reloadConfig, aboutToQuit and the loop that deletes the entries).
ImplementsGenerations == Abstract!Spec

\* loadConfig leaves the monitor thread running, as its last message says, if
\* there are mailboxes to poll.
MonitorRunning == gui = "loop" /\ Crew # {} => mon # "idle"

-----------------------------------------------------------------------------
(* Liveness, with prompt threads.                                            *)

\* The waits in reloadConfig and aboutToQuit come to their end, not to their
\* time limit: halt() reaches the monitor thread wherever it is, and run gets
\* through its deletions, unless a doWork ends the process.
WaitsEnd ==
  /\ gui = "waitReload" ~> gui = "loop" \/ fault = "short"
  /\ gui = "waitQuit" ~> gui = "exited" \/ fault = "short"

\* A server object is polled again and again as long as it exists (run's loop
\* and the queue of calls to the worker thread).
PolledAgain ==
  \A a \in Address : Alive(a) ~> work[a] = "busy" \/ ~Alive(a) \/ ~Up

\* Something goes wrong with a poll, or what the polls find out changes.
Trouble ==
  \/ Environment
  \/ \E a \in Address :
       \/ WorkerError(a)
       \/ WorkerAbandon(a)
       \/ work[a] = "busy" /\ WorkerEnd(a)

\* From some time on the user leaves the program alone, and every poll succeeds
\* and finds out the same.
Calm == <>[](gui = "loop" /\ Up) /\ <>[][~Trouble]_vars

\* Then m_Data comes to hold what the polls find out, for each mailbox its own
\* numbers, whatever late signals and failures came before (the poll loop with
\* handleResultReady).  Whether the numbers are right is not said here: see
\* UnreadIsUnseen of CImap and ResultIsStat of CPop3.
Converges ==
  Calm => <>[](\A i \in 1..Len(m_Data) :
                 m_Data[i].count = found[m_Data[i].m_MailboxName])

\* Then, too, the tray shows the icon for these numbers again after an error.
Notifies ==
  Calm => <>[](m_Data # <<>> => tray = IconFor(m_Data))
=============================================================================
