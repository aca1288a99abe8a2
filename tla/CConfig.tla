------------------------------ MODULE CConfig ------------------------------
(***************************************************************************)
(* CConfig: the configured mailboxes with their passwords, the snapshot    *)
(* the setup dialog takes of them, and what is saved.  The names go to the *)
(* settings file, the passwords to the keychain.                           *)
(*                                                                         *)
(* Of a mailbox's data only the name and the password are kept apart; the  *)
(* protocol, user, server, port and folder go wherever the name goes.      *)
(***************************************************************************)
EXTENDS CKeyChain

VARIABLES
  m_MailboxConfig,  \* the list of m_CurrentConfig
  m_OldConfig,      \* the list when the dialog was opened
  m_isConfigured,
  settings          \* the names in the settings file (outlives the process)

configVars == <<m_MailboxConfig, m_OldConfig, m_isConfigured, settings>>

MailboxConfig == [m_MailboxName : Mailbox, m_Password : Text]

ConfigTypeOK ==
  /\ m_MailboxConfig \in Seq(MailboxConfig)
  /\ m_OldConfig \in Seq(MailboxConfig)
  /\ m_isConfigured \in BOOLEAN
  /\ settings \in Seq(Mailbox)

\* getMailboxes
Names(c) == [i \in 1..Len(c) |-> c[i].m_MailboxName]

\* findMailbox # -1, and the first index it meets.
Configured(c, name) == \E i \in 1..Len(c) : c[i].m_MailboxName = name

FindMailbox(c, name) ==
  CHOOSE i \in 1..Len(c) :
    /\ c[i].m_MailboxName = name
    /\ \A j \in 1..i-1 : c[j].m_MailboxName # name

\* An entry whose password is not known, as addConfig makes it.
Unanswered(name) == [m_MailboxName |-> name, m_Password |-> Blank]

\* Mutant: a mailbox that is there already gets a second entry.
AddConfigTwice(c, name) == Append(c, Unanswered(name))

\* addConfig: the entry of that name is replaced, which empties its password.
AddConfig(c, name) ==
  CASE name = NoMailbox -> c
    [] Configured(c, name) ->
         [c EXCEPT ![FindMailbox(c, name)] = Unanswered(name)]
    [] OTHER -> Append(c, Unanswered(name))

\* deleteConfig, and the requests it makes.
DeleteConfig(c, name) ==
  IF Configured(c, name) THEN RemoveAt(c, FindMailbox(c, name)) ELSE c

DeleteRequest(c, name) ==
  IF Configured(c, name) THEN <<DeleteKey(name)>> ELSE <<>>

\* keyRestored for each name in the set.
KeyRestored(c, names, text) ==
  [i \in 1..Len(c) |->
     IF c[i].m_MailboxName \in names THEN [c[i] EXCEPT !.m_Password = text]
     ELSE c[i]]

\* addConfig for each name found in the settings.
Loaded(names) == [i \in 1..Len(names) |-> Unanswered(names[i])]

\* The constructor, in a new process.
Constructed ==
  /\ m_MailboxConfig' = Loaded(settings)
  /\ m_OldConfig' = <<>>
  /\ m_isConfigured' = (settings # <<>>)
  /\ jobKey' = FirstKeys(settings)
  /\ jobText' = Blank
  /\ readers' = ToSet(settings)
  /\ \E first \in FirstJobs(settings) :
       queue' = first.queue /\ running' = first.running
  /\ Len(queue') <= MaxJobs
  /\ UNCHANGED <<settings, store>>

\* A job is finished.
JobFinished ==
  /\ Finished
  /\ m_MailboxConfig' =
       IF Restored THEN KeyRestored(m_MailboxConfig, readers, running.data)
       ELSE m_MailboxConfig
  /\ UNCHANGED <<m_OldConfig, m_isConfigured, settings>>

\* What save asks of the keychain: every password to be written.
SaveRequests(c) ==
  [i \in 1..Len(c) |-> WriteKey(c[i].m_MailboxName, c[i].m_Password)]
=============================================================================
