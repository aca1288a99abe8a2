------------------------------ MODULE CPasswords ------------------------------
(***************************************************************************)
(* The passwords of the server objects.  Each gets its mailbox's password  *)
(* from CConfig when it is created; what CConfig comes to know later, from *)
(* the keychain or from the dialog, goes to it by the signal updatePassword*)
(* and CMailMonitor.                                                       *)
(*                                                                         *)
(* The signal is a direct call in the GUI thread.  A reload is one step    *)
(* here, since the GUI thread does nothing else meanwhile; CMailApp has    *)
(* the threads that it waits for.                                          *)
(***************************************************************************)
EXTENDS CSetupDialog

VARIABLE
  served  \* m_MailboxName of CMailMonitor's entries, m_Password of the objects

servedVars == <<vars, served>>

\* keyRestored returns before the signal if the mailbox is not configured; the
\* monitor looks for an object of that name and may find none.
UpdatePassword(names, text) ==
  served' = KeyRestored(served,
                        {n \in names : Configured(m_MailboxConfig', n)}, text)

\* loadConfig and getConfig, once the monitor's entries are gone.
LoadConfig == served' = m_MailboxConfig'

\* save(), from a handler that does not close the dialog.
Typed ==
  /\ (\E n \in Mailbox : Select(n)) \/ Add
  /\ IF InputOk(fields) THEN UpdatePassword({fields.name}, fields.password)
     ELSE UNCHANGED served

\* The other input reaches no server object, not even a deletion.
Viewed ==
  /\ \/ Open \/ OpenEmpty \/ OpenCrashes \/ Delete
     \/ \E n \in Mailbox \cup {NoMailbox}, p \in Text :
          /\ p = Blank \/ p.of = n
          /\ Fill(n, p)
  /\ UNCHANGED served

\* Mutant: the configuration is not reloaded after Cancel.
ClosedUnlessCancelled ==
  \/ Accept /\ LoadConfig
  \/ Cancel /\ UNCHANGED served

\* CTrayMenu::setup, and main before the first loadConfig: the configuration is
\* loaded after the dialog, whatever its result.
Closed ==
  /\ Accept \/ Cancel
  /\ LoadConfig

Executes ==
  /\ dialog # "crashed"
  /\ JobExecuted
  /\ UNCHANGED <<configVars, dialogVars, served>>

\* What the keychain brings goes to every reader's mailbox.
Answers ==
  /\ dialog # "crashed"
  /\ JobFinished
  /\ IF Restored THEN UpdatePassword(readers, running.data)
     ELSE UNCHANGED served
  /\ UNCHANGED dialogVars

Restarted == Restart /\ LoadConfig

ServedInit == Init /\ served = m_MailboxConfig

ServedNext == Typed \/ Viewed \/ Closed \/ Executes \/ Answers \/ Restarted

ServedSpec == ServedInit /\ [][ServedNext]_servedVars

\* A server object logs in with the password that the configuration has for its
\* mailbox, whichever way it came and also while the dialog is open: no answer
\* of the keychain and no input reaches one and not the other.  And when the
\* dialog is closed the mailboxes with objects are the configured ones.
ServedAsConfigured ==
  /\ \A i \in 1..Len(served), j \in 1..Len(m_MailboxConfig) :
       served[i].m_MailboxName = m_MailboxConfig[j].m_MailboxName =>
         served[i].m_Password = m_MailboxConfig[j].m_Password
  /\ dialog # "open" => served = m_MailboxConfig
=============================================================================
