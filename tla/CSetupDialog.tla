---------------------------- MODULE CSetupDialog ----------------------------
(***************************************************************************)
(* CSetupDialog: the list of mailboxes and the input fields, over CConfig. *)
(*                                                                         *)
(* All of it happens in the GUI thread, one handler after the other; what  *)
(* the keychain answers comes in between, also while the dialog is open.   *)
(* The user is taken to know the passwords: a password that is entered for *)
(* a mailbox is one of that mailbox.                                       *)
(***************************************************************************)
EXTENDS CConfig

CONSTANTS
  Initially,  \* the lists of mailboxes the program can start with
  Restarts    \* whether the program can be ended and started again

ASSUME DialogAssumption ==
  /\ \A names \in Initially : names \in Seq(Mailbox) /\ IsInjective(names)
  /\ Restarts \in BOOLEAN

VARIABLES
  dialog,    \* "closed", "open", or "crashed" with the whole process
  list,      \* the names in listWidgetServers
  current,   \* the current item there
  fields,    \* lineEditName and lineEditPassword
  enabled    \* whether Add, Delete and OK can be pressed

dialogVars == <<dialog, list, current, fields, enabled>>
vars == <<keyChainVars, configVars, dialogVars>>

EmptyFields == [name |-> NoMailbox, password |-> Blank]

DialogTypeOK ==
  /\ dialog \in {"closed", "open", "crashed"}
  /\ list \subseteq Mailbox
  /\ current \in Mailbox \cup {NoMailbox}
  /\ fields \in [name : Mailbox \cup {NoMailbox}, password : Text]
  /\ enabled \in BOOLEAN

\* Every variable has a value of its type.
TypeOK == KeyChainTypeOK /\ ConfigTypeOK /\ DialogTypeOK

\* The program starts with what an earlier run of it has saved.
Init ==
  /\ settings \in Initially
  /\ store \in {f \in [Mailbox -> Secret \cup {Absent}] :
                  \A m \in Mailbox : IF m \in ToSet(settings) THEN f[m].of = m
                                     ELSE f[m] = Absent}
  /\ m_MailboxConfig = Loaded(settings)
  /\ m_OldConfig = <<>>
  /\ m_isConfigured = (settings # <<>>)
  /\ jobKey = FirstKeys(settings)
  /\ jobText = Blank
  /\ readers = ToSet(settings)
  /\ \E first \in FirstJobs(settings) :
       queue = first.queue /\ running = first.running
  /\ dialog = "closed"
  /\ list = {}
  /\ current = NoMailbox
  /\ fields = EmptyFields
  /\ enabled = FALSE

-----------------------------------------------------------------------------
(* What the handlers have in common.  The configuration is c, the fields f.*)

\* inputOk; the other fields are taken to be filled in with the name.
InputOk(f) == f.name # NoMailbox /\ f.password # Blank

\* save(): valid input goes to the configuration, to the list and, with
\* setPassword, to the keychain; what is not valid is dropped.
SavedConfig(c, f) ==
  IF InputOk(f) THEN KeyRestored(AddConfig(c, f.name), {f.name}, f.password)
  ELSE c

\* Mutant: the item is added whether the input is valid or not.
SavedListUnchecked(names, f) == names \cup {f.name}

SavedList(names, f) == IF InputOk(f) THEN names \cup {f.name} ELSE names

SavedRequests(f) ==
  IF InputOk(f) THEN <<WriteKey(f.name, f.password)>> ELSE <<>>

\* displayMailBox: the fields for a name.
Displayed(c, name) ==
  [name |-> name, password |-> c[FindMailbox(c, name)].m_Password]

\* on_listWidgetServers_itemSelectionChanged, with n selected now.  It tells
\* what becomes of the configuration and the fields; the caller has the rest.
SelectionChanged(n, c, f) ==
  /\ m_MailboxConfig' = SavedConfig(c, f)
  /\ m_isConfigured' = (m_isConfigured \/ InputOk(f))
  /\ current' = n
  /\ fields' = Displayed(SavedConfig(c, f), n)
  /\ enabled' = InputOk(fields')

-----------------------------------------------------------------------------
(* The constructor, the user's input, and done().                          *)

\* The dialog shows the first mailbox of the list, which is sorted.
Shows ==
  /\ dialog = "closed"
  /\ m_MailboxConfig # <<>>
  /\ dialog' = "open"
  /\ list' = ToSet(Names(m_MailboxConfig))
  /\ \E n \in list' :
       /\ current' = n
       /\ fields' = Displayed(m_MailboxConfig, n)
       /\ enabled' = InputOk(fields')

\* Mutant: beginUpdate is forgotten.
OpenUnprotected ==
  /\ Shows
  /\ UNCHANGED <<keyChainVars, configVars>>

\* The constructor, with mailboxes to show.
Open ==
  /\ Shows
  /\ m_OldConfig' = m_MailboxConfig
  /\ UNCHANGED <<keyChainVars, m_MailboxConfig, m_isConfigured, settings>>

\* Nothing is configured and nothing has been in this process.
OpenEmpty ==
  /\ dialog = "closed"
  /\ m_MailboxConfig = <<>>
  /\ ~m_isConfigured
  /\ dialog' = "open"
  /\ list' = {}
  /\ current' = NoMailbox
  /\ fields' = EmptyFields
  /\ enabled' = FALSE
  /\ m_OldConfig' = m_MailboxConfig
  /\ UNCHANGED <<keyChainVars, m_MailboxConfig, m_isConfigured, settings>>

\* All mailboxes were deleted: the flag is still set, and the constructor takes
\* the text of a current item that is null.
OpenCrashes ==
  /\ dialog = "closed"
  /\ m_MailboxConfig = <<>>
  /\ m_isConfigured
  /\ dialog' = "crashed"
  /\ UNCHANGED <<keyChainVars, configVars, list, current, fields, enabled>>

\* The user fills the form in for mailbox n, with or without a password.
Fill(n, p) ==
  /\ dialog = "open"
  /\ fields' = [name |-> n, password |-> p]
  /\ enabled' = InputOk(fields')
  /\ UNCHANGED <<keyChainVars, configVars, dialog, list, current>>

\* The user selects a mailbox in the list.
Select(n) ==
  /\ dialog = "open"
  /\ n \in list
  /\ Requested(SavedRequests(fields))
  /\ SelectionChanged(n, m_MailboxConfig, fields)
  /\ list' = SavedList(list, fields)
  /\ UNCHANGED <<m_OldConfig, settings, dialog>>

\* Add: save() and clear(), which leaves the buttons as they are.
Add ==
  /\ dialog = "open"
  /\ enabled
  /\ Requested(SavedRequests(fields))
  /\ m_MailboxConfig' = SavedConfig(m_MailboxConfig, fields)
  /\ m_isConfigured' = (m_isConfigured \/ InputOk(fields))
  /\ list' = SavedList(list, fields)
  /\ fields' = EmptyFields
  /\ UNCHANGED <<m_OldConfig, settings, dialog, current, enabled>>

\* The delete button while the fields become f: the mailbox leaves the
\* configuration and then the list.  If its item was the current one, an item
\* beside it becomes current, which saves and shows as for the user's choice.
DeletedWith(f) ==
  LET name == fields.name
      c == DeleteConfig(m_MailboxConfig, name)
      request == DeleteRequest(m_MailboxConfig, name)
      rest == list \ {name}
  IN /\ dialog = "open"
     /\ enabled
     /\ \/ /\ name \in list /\ name = current /\ rest # {}
           /\ \E n \in rest : SelectionChanged(n, c, f)
           /\ Requested(request \o SavedRequests(f))
           /\ list' = SavedList(rest, f)
        \/ /\ name \notin list \/ name # current \/ rest = {}
           /\ m_MailboxConfig' = c
           /\ Requested(request)
           /\ list' = rest
           /\ current' = IF name = current THEN NoMailbox ELSE current
           /\ fields' = f
           /\ UNCHANGED <<m_isConfigured, enabled>>
     /\ UNCHANGED <<m_OldConfig, settings, dialog>>

\* Mutant: the item goes while the fields still show what was deleted.
DeleteShown == DeletedWith(fields)

\* Delete: the fields are cleared before the item goes.
Delete == DeletedWith(EmptyFields)

\* done(Accepted): what the fields show is saved, then everything is.
Accept ==
  LET c == SavedConfig(m_MailboxConfig, fields)
  IN /\ dialog = "open"
     /\ enabled
     /\ m_MailboxConfig' = c
     /\ m_isConfigured' = (m_isConfigured \/ InputOk(fields))
     /\ settings' = Names(c)
     /\ Requested(SavedRequests(fields) \o SaveRequests(c))
     /\ dialog' = "closed"
     /\ list' = {}
     /\ current' = NoMailbox
     /\ fields' = EmptyFields
     /\ enabled' = FALSE
     /\ UNCHANGED m_OldConfig

\* done(Rejected): the snapshot is taken back.
Cancel ==
  /\ dialog = "open"
  /\ m_MailboxConfig' = m_OldConfig
  /\ dialog' = "closed"
  /\ list' = {}
  /\ current' = NoMailbox
  /\ fields' = EmptyFields
  /\ enabled' = FALSE
  /\ UNCHANGED <<keyChainVars, m_OldConfig, m_isConfigured, settings>>

\* The process ends, by the user or a crash, and is started again.  What was
\* asked of the keychain and not yet executed is lost.
Restart ==
  /\ Restarts
  /\ Constructed
  /\ dialog' = "closed"
  /\ list' = {}
  /\ current' = NoMailbox
  /\ fields' = EmptyFields
  /\ enabled' = FALSE

User ==
  \/ Open \/ OpenEmpty \/ OpenCrashes
  \/ \E n \in Mailbox \cup {NoMailbox}, p \in Text :
       /\ p = Blank \/ p.of = n
       /\ Fill(n, p)
  \/ \E n \in Mailbox : Select(n)
  \/ Add \/ Delete \/ Accept \/ Cancel

\* The event loop and the executor go on while the process lives.
KeyChain ==
  /\ dialog # "crashed"
  /\ \/ JobExecuted /\ UNCHANGED configVars
     \/ JobFinished
  /\ UNCHANGED dialogVars

Next == User \/ KeyChain \/ Restart

Spec == Init /\ [][Next]_vars
-----------------------------------------------------------------------------
(* What must hold.                                                         *)

\* While the dialog is open, its list shows each configured mailbox and no
\* other, and no mailbox has two entries: findMailbox and findItems find the
\* same, so that Add, Delete and a change of the selection act on one mailbox.
\* (save(), deleteConfig and the selection change the two one after the other.)
ListShowsConfig ==
  /\ dialog = "open" => list = ToSet(Names(m_MailboxConfig))
  /\ IsInjective(Names(m_MailboxConfig))

\* When the dialog is not open, the mailboxes in use are those in the settings:
\* OK has saved all that was added and deleted, Cancel has undone all of it,
\* also what other handlers did to the configuration since the dialog opened.
InUseIsSaved == dialog # "open" => Names(m_MailboxConfig) = settings

\* A mailbox whose key is to be deleted is not in the configuration afterwards:
\* the change of the selection that the deletion causes does not save it again.
DeletedIsGone ==
  [][\A m \in Mailbox :
       /\ \/ \E i \in Len(queue)+1..Len(queue') : queue'[i] = "delete"
          \/ Idle /\ running'.kind = "delete"
       /\ jobKey'["delete"] = m
       => ~Configured(m_MailboxConfig', m)]_vars

-----------------------------------------------------------------------------
(* What the documentation says and the code does not do.                   *)

\* "Request to get password" (CConfig.h): what arrives for a mailbox is that
\* mailbox's password.
OwnPassword ==
  \A i \in 1..Len(m_MailboxConfig) :
    m_MailboxConfig[i].m_Password \in
      {Blank} \cup {p \in Secret : p.of = m_MailboxConfig[i].m_MailboxName}

\* "Passwords are stored in a Keychain" (README): no mailbox's password there is
\* replaced by an empty text.  OK writes all passwords, also those that are not
\* known because the keychain's answer has not come.
NoBlankKeys == \A m \in Mailbox : store[m] # Blank

\* No job is left and the dialog is closed.
Quiet == dialog = "closed" /\ queue = <<>> /\ running = NoJob

\* "Passwords are stored in a Keychain" (README): unless a mailbox was deleted,
\* the keychain comes to hold each password that the program uses.
Stored ==
  Quiet /\ jobKey["delete"] = NoMailbox =>
    \A i \in 1..Len(m_MailboxConfig) :
      m_MailboxConfig[i].m_Password # Blank =>
        store[m_MailboxConfig[i].m_MailboxName] = m_MailboxConfig[i].m_Password
=============================================================================
