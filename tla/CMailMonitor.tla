---------------------------- MODULE CMailMonitor ----------------------------
(***************************************************************************)
(* CMailMonitor: the list m_Data of the monitored mailboxes and the        *)
(* monitor thread, whose body is CMailMonitor::run.  The thread posts      *)
(* doWork to every server object, sleeps for the poll time and starts      *)
(* again, until halt() clears m_Running; then it stops the worker threads  *)
(* and deletes them, the server objects and the list.                      *)
(*                                                                         *)
(* Time is abstracted: a sleep ends at some point, and a wait with a time  *)
(* limit can expire only where Delays says that what it waits for can take *)
(* longer than the limit.                                                  *)
(***************************************************************************)
EXTENDS IMailProtocol

CONSTANT Delays
  \* which delays the environment can cause:
  \* "start"  : a thread that was started first gets to run only after the
  \*            GUI thread has halted the monitor
  \* "worker" : doWork outlasts the wait(1000) for the worker thread
  \* "logout" : end() in a destructor outlasts the wait for the monitor
  \* "sum"    : the waits for the workers, none of which expires, add up to
  \*            more than the wait for the monitor

ASSUME DelaysAssumption ==
  Delays \subseteq {"start", "worker", "logout", "sum"}

VARIABLES
  m_Running,  \* cleared by halt(), set when run() begins
  m_Data,     \* one entry per monitored mailbox
  mon,        \* where the monitor thread is; "idle" when it does not run
  reap,       \* i of the loop that deletes the entries, from 1
  fault       \* how the process died, "none" while it is fine

monitorVars == <<m_Running, m_Data, mon, reap, fault>>

\* addServer's m_Read = m_Unread = -1.
Unknown == [unread |-> -1, read |-> -1]

Entry == [m_Server : Address, m_MailboxName : Mailbox,
          count : Count \cup {Unknown}]

\* "fatal"  : a QThread was destroyed while it was running (Qt calls abort)
\* "null"   : a destructor called end() on a socket never created
\* "range"  : m_Data was read beyond its end
\* "freed"  : a deleted object was read
\* "race"   : m_Data was grown by one thread while another walked it
\* "short"  : doWork read beyond the words of an answer
Faults == {"none", "fatal", "null", "range", "freed", "race", "short"}

MonitorPlaces == {"idle", "starting", "check", "emit", "sleep", "quit",
                  "reap", "logout", "failed", "clear"}

\* The monitor thread is in a destructor that holds the LOGOUT dialogue, which
\* has told an error if it is at "failed".
LoggingOut == mon \in {"logout", "failed"}

\* The monitor thread walks, frees and clears the list.
Reaping == mon \in {"quit", "reap", "clear"} \/ LoggingOut

MonitorTypeOK ==
  /\ m_Running \in BOOLEAN
  /\ m_Data \in Seq(Entry)
  /\ mon \in MonitorPlaces
  /\ reap \in Nat \ {0}
  /\ fault \in Faults

MonitorInit ==
  /\ m_Running = FALSE
  /\ m_Data = <<>>
  /\ mon = "idle"
  /\ reap = 1
  /\ fault = "none"

-----------------------------------------------------------------------------
(* CMailMonitor::run, in the monitor thread.                               *)

RunBegin ==
  /\ mon = "starting"
  /\ m_Running' = TRUE
  /\ mon' = "check"
  /\ UNCHANGED <<m_Data, reap, fault, protocolVars>>

\* while (m_Running)
RunCheck ==
  /\ mon = "check"
  /\ mon' = IF m_Running THEN "emit" ELSE "quit"
  /\ UNCHANGED <<m_Running, m_Data, reap, fault, protocolVars>>

\* emit doWork(): the signal is connected to every server object there is.
RunEmit ==
  /\ mon = "emit"
  /\ \A a \in Address : Alive(a) => pending[a] < MaxQueue
  /\ pending' = [a \in Address |-> IF Alive(a) THEN pending[a] + 1
                                   ELSE pending[a]]
  /\ mon' = "sleep"
  /\ UNCHANGED <<m_Running, m_Data, reap, fault, polls, m_ConfigurationIdx,
                 m_Socket, thread, work, events, found>>

\* Mutant: one round only, then the thread sleeps until it is halted.
RunSleepOn ==
  /\ mon = "sleep"
  /\ ~m_Running
  /\ mon' = "check"
  /\ UNCHANGED <<m_Running, m_Data, reap, fault, protocolVars>>

\* The inner loop ends: the poll time is over or m_Running was cleared.
RunSleep ==
  /\ mon = "sleep"
  /\ mon' = "check"
  /\ UNCHANGED <<m_Running, m_Data, reap, fault, protocolVars>>

\* m_Thread->quit() for every entry.
RunQuit ==
  /\ mon = "quit"
  /\ thread' = [a \in Address |->
                  IF /\ thread[a] = "running"
                     /\ \E i \in 1..Len(m_Data) : m_Data[i].m_Server = a
                  THEN "quit" ELSE thread[a]]
  /\ mon' = "reap"
  /\ reap' = 1
  /\ UNCHANGED <<m_Running, m_Data, fault, polls, m_ConfigurationIdx,
                 m_Socket, work, pending, events, found>>

\* The server object of the entry that is next in the deleting loop.
Victim == m_Data[reap].m_Server

\* Mutant: the deletion does not wait for the thread.
RunReapUnwaited ==
  /\ mon = "reap"
  /\ reap <= Len(m_Data)
  /\ m_Socket[Victim] = "closed"
  /\ Destroyed(Victim)
  /\ thread' = [thread EXCEPT ![Victim] = "none"]
  /\ reap' = reap + 1
  /\ UNCHANGED <<m_Running, m_Data, mon, fault, work, events, found>>

\* wait(1000) returned because the thread has finished; the thread, the server
\* object and the entry are deleted.  The destructor's end() finds the socket
\* closed.
RunReap ==
  /\ mon = "reap"
  /\ reap <= Len(m_Data)
  /\ thread[Victim] = "finished"
  /\ m_Socket[Victim] = "closed"
  /\ Destroyed(Victim)
  /\ thread' = [thread EXCEPT ![Victim] = "none"]
  /\ reap' = reap + 1
  /\ UNCHANGED <<m_Running, m_Data, mon, fault, work, events, found>>

\* end() finds the socket connected and starts the LOGOUT dialogue.
RunReapConnected ==
  /\ mon = "reap"
  /\ reap <= Len(m_Data)
  /\ thread[Victim] = "finished"
  /\ m_Socket[Victim] = "connected"
  /\ thread' = [thread EXCEPT ![Victim] = "none"]
  /\ mon' = "logout"
  /\ UNCHANGED <<m_Running, m_Data, reap, fault, polls, m_ConfigurationIdx,
                 m_Socket, work, pending, events, found>>

\* The dialogue fails: setError posts mailError with the address of the object
\* that is being deleted, and sleeps.
RunLogoutFails ==
  /\ mon = "logout"
  /\ Post([kind |-> "mailError", server |-> Victim])
  /\ mon' = "failed"
  /\ UNCHANGED <<m_Running, m_Data, reap, fault, polls, m_ConfigurationIdx,
                 m_Socket, thread, work, pending, found>>

\* The dialogue is over.  If readLine has told an error, readResponse may have
\* told another one.
RunLogout ==
  /\ LoggingOut
  /\ \/ mon = "failed" /\ Post([kind |-> "mailError", server |-> Victim])
     \/ UNCHANGED events
  /\ Destroyed(Victim)
  /\ mon' = "reap"
  /\ reap' = reap + 1
  /\ UNCHANGED <<m_Running, m_Data, fault, thread, work, found>>

\* end() calls m_Socket->state() although doWork never ran.
RunReapNull ==
  /\ mon = "reap"
  /\ reap <= Len(m_Data)
  /\ thread[Victim] = "finished"
  /\ m_Socket[Victim] = "null"
  /\ fault' = "null"
  /\ UNCHANGED <<m_Running, m_Data, mon, reap, protocolVars>>

\* wait(1000) expired, because doWork takes longer or because the thread was
\* never told to quit: deleting the QThread of a running thread is fatal.
RunReapExpired ==
  /\ mon = "reap"
  /\ reap <= Len(m_Data)
  /\ \/ thread[Victim] = "running"
     \/ thread[Victim] = "quit" /\ "worker" \in Delays
  /\ fault' = "fatal"
  /\ UNCHANGED <<m_Running, m_Data, mon, reap, protocolVars>>

\* The test of the deleting loop finds no more entries.
RunReaped ==
  /\ mon = "reap"
  /\ reap > Len(m_Data)
  /\ mon' = "clear"
  /\ UNCHANGED <<m_Running, m_Data, reap, fault, protocolVars>>

\* m_Data.clear(), whatever is in it by now, and run() returns.
RunEnd ==
  /\ mon = "clear"
  /\ m_Data' = <<>>
  /\ mon' = "idle"
  /\ reap' = 1
  /\ UNCHANGED <<m_Running, fault, protocolVars>>

MonitorStep ==
  \/ RunBegin
  \/ RunCheck
  \/ RunEmit
  \/ RunSleep
  \/ RunQuit
  \/ RunReap
  \/ RunReapConnected
  \/ RunLogoutFails
  \/ RunLogout
  \/ RunReapNull
  \/ RunReapExpired
  \/ RunReaped
  \/ RunEnd

-----------------------------------------------------------------------------
(* What the GUI thread calls.                                              *)

\* Mutant: the index is taken after the entry has been appended.
AddServerLateIndex(a, b) ==
  /\ Create(a, b, Len(m_Data) + 2)
  /\ m_Data' = Append(m_Data, [m_Server |-> a, m_MailboxName |-> b,
                               count |-> Unknown])
  /\ UNCHANGED <<m_Running, mon, reap, fault>>

\* addServer(b, server) with the object at address a.
AddServer(a, b) ==
  /\ Create(a, b, Len(m_Data) + 1)
  /\ m_Data' = Append(m_Data, [m_Server |-> a, m_MailboxName |-> b,
                               count |-> Unknown])
  /\ UNCHANGED <<m_Running, mon, reap, fault>>

\* QThread::start(): nothing happens when the thread is still running.
Start ==
  /\ mon' = IF mon = "idle" THEN "starting" ELSE mon
  /\ UNCHANGED <<m_Running, m_Data, reap, fault, protocolVars>>

\* Mutant: m_Running stays as it is.
HaltForgotten == UNCHANGED <<monitorVars, protocolVars>>

\* halt()
Halt ==
  /\ m_Running' = FALSE
  /\ UNCHANGED <<m_Data, mon, reap, fault, protocolVars>>

\* A wait for the monitor thread can expire: the halt was lost, because run()
\* set m_Running again, a destructor hangs in its LOGOUT, or there are many
\* workers to wait for.
MonitorOverdue ==
  \/ mon # "idle" /\ m_Running
  \/ LoggingOut /\ "logout" \in Delays
  \/ mon = "reap" /\ "sum" \in Delays

\* The entries before reap have been deleted, but are still in the vector.
Freed(i) == (LoggingOut \/ mon \in {"reap", "clear"}) /\ i < reap
=============================================================================
