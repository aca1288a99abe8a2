---------------------------- MODULE IMailProtocol ----------------------------
(***************************************************************************)
(* The mail server objects (IMailProtocol and its subclasses CImap and     *)
(* CPop3) and the worker threads that run their doWork() slot.             *)
(*                                                                         *)
(* CMailMonitor::addServer creates one QThread per server object and moves *)
(* the object to it, so that everything an object does in doWork() runs in *)
(* its own thread.  An object lives at a heap address; an address is free  *)
(* again once the object has been deleted, and a later object can get it.  *)
(* What an object has to tell, the signals resultReady and mailError, is   *)
(* queued to the GUI thread, in which CMailMonitor lives, because the      *)
(* emitting thread is another one (Qt::AutoConnection).                    *)
(*                                                                         *)
(* The dialogue with the mail server is abstracted to its outcome: doWork  *)
(* emits any number of mailError signals and at most one resultReady, and  *)
(* leaves the socket closed or, on some early returns, connected; or it    *)
(* ends the process.  The numbers that it tells are what the dialogue came *)
(* to, which need not be how many mails there are (CImap, CPop3).          *)
(***************************************************************************)
EXTENDS Integers, Sequences

CONSTANTS
  Mailbox,    \* the names of the mailboxes a user can configure
  NoMailbox,  \* marks a free address
  Address,    \* the heap addresses a server object can have
  Count,      \* what a result can tell: a number of unread and of read mails
  MaxQueue,   \* bound: doWork calls queued to one worker thread
  MaxEvents   \* bound: signals queued to the GUI thread

ASSUME ProtocolAssumption ==
  /\ NoMailbox \notin Mailbox
  /\ Count \subseteq [unread : Int, read : Int]
  /\ MaxQueue \in Nat \ {0}
  /\ MaxEvents \in Nat \ {0}

VARIABLES
  polls,               \* [Address]: the mailbox the object there polls
  m_ConfigurationIdx,  \* [Address]: the object's index in m_Data, from 1
  m_Socket,            \* [Address]: "null", "closed" or "connected"
  thread,              \* [Address]: the QThread made for the object
  work,                \* [Address]: how far doWork has got
  pending,             \* [Address]: doWork calls queued to the thread
  events,              \* the signals queued to the GUI thread
  found                \* [Mailbox]: what a poll finds out now (environment)

protocolVars ==
  <<polls, m_ConfigurationIdx, m_Socket, thread, work, pending, events, found>>

Alive(a) == polls[a] # NoMailbox

\* A thread that has been started and has not left its event loop.
ThreadRuns(a) == thread[a] \in {"running", "quit"}

\* resultReady(configurationidx, numUnread, numRead) carries the index and the
\* numbers.  "from" is no part of the signal: it records, for the properties,
\* whose mailbox the numbers are about.
ResultEvent ==
  [kind : {"resultReady"}, idx : Nat, count : Count, from : Mailbox]

\* mailError(srv, errtxt) carries a pointer to the object.
ErrorEvent == [kind : {"mailError"}, server : Address]

Event == ResultEvent \cup ErrorEvent

ProtocolTypeOK ==
  /\ polls \in [Address -> Mailbox \cup {NoMailbox}]
  /\ m_ConfigurationIdx \in [Address -> Nat]
  /\ m_Socket \in [Address -> {"null", "closed", "connected"}]
  /\ thread \in [Address -> {"none", "running", "quit", "finished"}]
  /\ work \in [Address -> {"idle", "busy", "ending", "dead"}]
  /\ pending \in [Address -> Nat]
  /\ events \in Seq(Event)
  /\ found \in [Mailbox -> Count]

ProtocolInit ==
  /\ polls = [a \in Address |-> NoMailbox]
  /\ m_ConfigurationIdx = [a \in Address |-> 0]
  /\ m_Socket = [a \in Address |-> "null"]
  /\ thread = [a \in Address |-> "none"]
  /\ work = [a \in Address |-> "idle"]
  /\ pending = [a \in Address |-> 0]
  /\ events = <<>>
  /\ found \in [Mailbox -> Count]

-----------------------------------------------------------------------------
(* The worker threads.                                                     *)

Post(e) ==
  /\ Len(events) < MaxEvents
  /\ events' = Append(events, e)

\* Mutant: the loop enters doWork without a call.
WorkerBeginUnasked(a) ==
  /\ ThreadRuns(a)
  /\ work[a] = "idle"
  /\ pending' = [pending EXCEPT ![a] = @ - 1]
  /\ work' = [work EXCEPT ![a] = "busy"]
  /\ m_Socket' = [m_Socket EXCEPT ![a] = "closed"]
  /\ UNCHANGED <<polls, m_ConfigurationIdx, thread, events, found>>

\* The event loop of the thread takes a queued call and enters doWork, which
\* creates the socket on the first call.  quit() does not stop a call that was
\* queued before it from being delivered: the loop notices quit() only after
\* it has gone through the events that were waiting.
WorkerBegin(a) ==
  /\ ThreadRuns(a)
  /\ work[a] = "idle"
  /\ pending[a] > 0
  /\ pending' = [pending EXCEPT ![a] = @ - 1]
  /\ work' = [work EXCEPT ![a] = "busy"]
  /\ m_Socket' = [m_Socket EXCEPT ![a] = IF @ = "null" THEN "closed" ELSE @]
  /\ UNCHANGED <<polls, m_ConfigurationIdx, thread, events, found>>

\* getMail succeeded with some numbers and doWork emits resultReady; end() is
\* still to come.
WorkerResult(a) ==
  /\ work[a] = "busy"
  /\ Post([kind |-> "resultReady", idx |-> m_ConfigurationIdx[a],
           count |-> found[polls[a]], from |-> polls[a]])
  /\ work' = [work EXCEPT ![a] = "ending"]
  /\ UNCHANGED <<polls, m_ConfigurationIdx, m_Socket, thread, pending, found>>

\* setError: before the result (the connection, the dialogue), also when the
\* dialogue then goes on, and after it (the LOGOUT in end()).
WorkerError(a) ==
  /\ work[a] \in {"busy", "ending"}
  /\ Post([kind |-> "mailError", server |-> a])
  /\ UNCHANGED <<polls, m_ConfigurationIdx, m_Socket, thread, work, pending,
                 found>>

\* doWork returns after end(), which closes the socket ...
WorkerEnd(a) ==
  /\ work[a] \in {"busy", "ending"}
  /\ work' = [work EXCEPT ![a] = "idle"]
  /\ m_Socket' = [m_Socket EXCEPT ![a] = "closed"]
  /\ UNCHANGED <<polls, m_ConfigurationIdx, thread, pending, events, found>>

\* ... or without it: an encrypted connection whose handshake timed out, and a
\* POP3 greeting that was not +OK, leave the TCP connection open.
WorkerAbandon(a) ==
  /\ work[a] = "busy"
  /\ work' = [work EXCEPT ![a] = "idle"]
  /\ m_Socket' = [m_Socket EXCEPT ![a] = "connected"]
  /\ UNCHANGED <<polls, m_ConfigurationIdx, thread, pending, events, found>>

\* ... or never: some answers have fewer words than the code takes from them
\* (a POP3 greeting of one word, a LOGIN answer of one word), and reading
\* beyond the list ends the process, with all its threads.
WorkerDies(a) ==
  /\ work[a] = "busy"
  /\ work' = [work EXCEPT ![a] = "dead"]
  /\ UNCHANGED <<polls, m_ConfigurationIdx, m_Socket, thread, pending, events,
                 found>>

\* After quit() the event loop returns between two events; calls that are
\* still queued are never delivered.
WorkerExit(a) ==
  /\ thread[a] = "quit"
  /\ work[a] = "idle"
  /\ thread' = [thread EXCEPT ![a] = "finished"]
  /\ UNCHANGED <<polls, m_ConfigurationIdx, m_Socket, work, pending, events,
                 found>>

WorkerStep(a) ==
  \/ WorkerBegin(a)
  \/ WorkerResult(a)
  \/ WorkerError(a)
  \/ WorkerEnd(a)
  \/ WorkerAbandon(a)
  \/ WorkerDies(a)
  \/ WorkerExit(a)

\* Mail comes and is read, by other programs, and servers answer differently,
\* at any time.
FoundChanges ==
  \E b \in Mailbox, c \in Count :
    /\ found' = [found EXCEPT ![b] = c]
    /\ UNCHANGED <<polls, m_ConfigurationIdx, m_Socket, thread, work, pending,
                   events>>

-----------------------------------------------------------------------------
(* What other threads do to an object.                                     *)

\* CMailMonitor::addServer, the part about the object: it gets its index and
\* a thread of its own, which is started.
Create(a, b, idx) ==
  /\ ~Alive(a)
  /\ polls' = [polls EXCEPT ![a] = b]
  /\ m_ConfigurationIdx' = [m_ConfigurationIdx EXCEPT ![a] = idx]
  /\ thread' = [thread EXCEPT ![a] = "running"]
  /\ UNCHANGED <<m_Socket, work, pending, events, found>>

\* Deletion of the object at a: the address is free, queued calls are gone.
Destroyed(a) ==
  /\ polls' = [polls EXCEPT ![a] = NoMailbox]
  /\ m_ConfigurationIdx' = [m_ConfigurationIdx EXCEPT ![a] = 0]
  /\ m_Socket' = [m_Socket EXCEPT ![a] = "null"]
  /\ pending' = [pending EXCEPT ![a] = 0]

=============================================================================
