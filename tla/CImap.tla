------------------------------- MODULE CImap -------------------------------
(***************************************************************************)
(* An IMAP mailbox: CImap, from the doWork call to the result, with the    *)
(* server at the other end (external: how the code uses it).               *)
(*                                                                         *)
(* "place" is the next thing doWork does.  A place that ends with "?" is a *)
(* wait for an answer.                                                     *)
(***************************************************************************)
EXTENDS CMailSocket, FiniteSets, SequencesExt

CONSTANTS
  Mails,    \* what the mailbox can hold: how many mails, which are unseen
  Garbage,  \* what the uninitialized counts of doWork can hold
  MaxSeq    \* the last sequence number, 999 in the code

ASSUME ImapAssumption ==
  /\ Mails # {}
  /\ \A m \in Mails : m.total \in Nat /\ m.unseen \subseteq 1..m.total
  /\ Garbage \subseteq Int
  /\ MaxSeq \in Nat \ {0}

VARIABLES
  m_CmdSeq,
  m_StartTLS,
  nummails, unread,  \* the locals of doWork and getMail
  offers,            \* the server offers STARTTLS
  session,           \* the server's side: "none", "login" or "selected"
  searched           \* history: what was in it at the last SEARCH

object == <<m_CmdSeq, m_StartTLS, nummails, unread>>
server == <<offers, session, searched>>
vars == <<socketVars, object, server>>

Star == Word("*")

\* No SEARCH yet.
None == [total |-> -1, unseen |-> {}]

-----------------------------------------------------------------------------
(* The server.                                                             *)

\* The words of a greeting that are looked at.
Greeting ==
  IF offers /\ ~m_UseSSL
  THEN <<Star, Word("OK"), Word("IMAP"), Word("STARTTLS")>>
  ELSE <<Star, Word("OK"), Word("IMAP")>>

\* A server that does not want the connection.
NoService == <<Star, Word("BYE")>>

\* The numbers of the unseen mails, in the order that the server likes.
SearchLine(order) ==
  <<Star, Word("SEARCH")>> \o [i \in 1..Len(order) |-> Number(order[i])]

\* The lines that grant a command, with what is in the mailbox.
Granted(cmd, tag, mail, order) ==
  CASE cmd = "SELECT" ->
         <<<<Star, Number(mail.total), Word("EXISTS")>>, <<tag, Word("OK")>>>>
    [] cmd = "SEARCH" -> <<SearchLine(order), <<tag, Word("OK")>>>>
    [] cmd = "LOGOUT" -> <<<<Star, Word("BYE")>>, <<tag, Word("OK")>>>>
    [] OTHER -> <<<<tag, Word("OK")>>>>

\* Other programs deliver mails and read them at any time, so that SELECT and
\* SEARCH can each find anything.
Grants(cmd, tag) ==
  /\ CASE cmd = "STARTTLS" -> peer = "plain" /\ offers
       [] cmd = "SELECT" -> session # "none"
       [] cmd = "SEARCH" -> session = "selected"
       [] OTHER -> TRUE
  /\ \E mail \in Mails : \E order \in SetToSeqs(mail.unseen) :
       /\ wire' = wire \o Granted(cmd, tag, mail, order)
       /\ searched' = IF cmd = "SEARCH" THEN mail ELSE searched
  /\ peer' = CASE cmd = "STARTTLS" -> "tls"
               [] cmd = "LOGOUT" -> "gone"
               [] OTHER -> peer
  /\ session' = CASE cmd = "LOGIN" -> "login"
                  [] cmd = "SELECT" -> "selected"
                  [] OTHER -> session

\* It refuses, or tells its capabilities before it grants a LOGIN.
Refuses(cmd, tag) ==
  /\ cmd # "LOGOUT"
  /\ \/ wire' = Append(wire, <<tag, Word("NO")>>) /\ UNCHANGED session
     \/ /\ cmd = "LOGIN"
        /\ wire' = wire \o <<<<Star, Word("CAPABILITY")>>, <<tag, Word("OK")>>>>
        /\ session' = "login"
  /\ UNCHANGED <<peer, searched>>

\* Or it hangs.  A command that is not understood ends the connection.
Answers(cmd, tag) ==
  IF Understood
  THEN \/ Grants(cmd, tag)
       \/ Refuses(cmd, tag)
       \/ UNCHANGED <<peer, wire, session, searched>>
  ELSE peer' = "gone" /\ UNCHANGED <<wire, session, searched>>

\* The server is configured anew.
OfferChanges ==
  /\ offers' = ~offers
  /\ UNCHANGED <<socketVars, object, session, searched>>

-----------------------------------------------------------------------------
(* The client.                                                             *)

\* Mutant: the number is never wrapped.
WriteCmdGrows(cmd, next) ==
  /\ m_CmdSeq' = m_CmdSeq + 1
  /\ IF m_Socket = "connected"
     THEN /\ Answers(cmd, Tag(m_CmdSeq'))
          /\ UNCHANGED <<m_Socket, secure, cut>>
          /\ Go(next, 0)
     ELSE /\ UNCHANGED <<connection, session, searched>>
          /\ Go(next, 1)
  /\ UNCHANGED offers

\* writeCmd; on a socket that is not connected writeLine calls setError.
WriteCmd(cmd, next) ==
  /\ m_CmdSeq' = IF m_CmdSeq + 1 > MaxSeq THEN 0 ELSE m_CmdSeq + 1
  /\ IF m_Socket = "connected"
     THEN /\ Answers(cmd, Tag(m_CmdSeq'))
          /\ UNCHANGED <<m_Socket, secure, cut>>
          /\ Go(next, 0)
     ELSE /\ UNCHANGED <<connection, session, searched>>
          /\ Go(next, 1)
  /\ UNCHANGED offers

\* doWork: the connection, in clear text or encrypted.
ConnectToHost ==
  \/ /\ \E lines \in {<<Greeting>>, <<NoService>>, <<>>} : Connect(lines)
     /\ session' = "none"
     /\ UNCHANGED <<object, offers, searched>>
  \/ /\ ConnectFails \/ HandshakeTimesOut
     /\ UNCHANGED <<object, server>>

\* startProtocol: the greeting must be OK and name IMAP.  m_StartTLS is set
\* and never reset.
StartProtocol ==
  /\ Doing("greeting")
  /\ \E line \in Readable :
       /\ ReadLine(line)
       /\ IF /\ At(line, 1) = Star
             /\ At(line, 2) = Word("OK")
             /\ Word("IMAP") \in Range(line)
          THEN /\ m_StartTLS' = (m_StartTLS \/ Word("STARTTLS") \in Range(line))
               /\ Go(IF m_StartTLS' THEN "starttls" ELSE "login", 0)
          ELSE Go("end", 1) /\ UNCHANGED m_StartTLS
  /\ UNCHANGED <<m_CmdSeq, nummails, unread, server>>

\* login: STARTTLS.  Any line is taken for a yes.
StartTLS ==
  \/ /\ Doing("starttls")
     /\ WriteCmd("STARTTLS", "starttls?")
     /\ UNCHANGED <<m_StartTLS, nummails, unread>>
  \/ /\ Doing("starttls?")
     /\ wire # <<>>
     /\ StartClientEncryption(Tail(wire))
     /\ Go("login", 0)
     /\ UNCHANGED <<m_Socket, cut, object, server>>

\* Mutant: a failed login returns without end().
LoginAbandons ==
  \/ /\ Doing("login")
     /\ WriteCmd("LOGIN", "login?")
     /\ UNCHANGED <<m_StartTLS, nummails, unread>>
  \/ /\ Doing("login?")
     /\ \E line \in Readable :
          /\ ReadLine(line)
          /\ IF At(line, 2) = Word("OK") THEN Go("select", 0)
             ELSE Go("abandon", 1)
     /\ UNCHANGED <<object, server>>

\* login: one line is read, whatever its tag.
Login ==
  \/ /\ Doing("login")
     /\ WriteCmd("LOGIN", "login?")
     /\ UNCHANGED <<m_StartTLS, nummails, unread>>
  \/ /\ Doing("login?")
     /\ \E line \in Readable :
          /\ ReadLine(line)
          /\ IF At(line, 2) = Word("OK") THEN Go("select", 0) ELSE Go("end", 1)
     /\ UNCHANGED <<object, server>>

\* getMail: the mailbox is selected.
Select ==
  /\ Doing("select")
  /\ nummails' = -1
  /\ unread' \in Garbage
  /\ IF isConnected
     THEN WriteCmd("SELECT", "select?")
     ELSE Go("end", 1) /\ UNCHANGED <<m_CmdSeq, connection, server>>
  /\ UNCHANGED m_StartTLS

\* readResponse: a tagged line is the last one, even if the tag is wrong.
Tagged(next, line) ==
  /\ At(line, 1) # Star
  /\ Go(next, IF At(line, 1) = Tag(m_CmdSeq) THEN 0 ELSE 1)

\* getMail: the answer to SELECT, line by line.  OK or NO is not looked at.
SelectLine ==
  /\ Doing("select?")
  /\ \E line \in Readable :
       /\ ReadLine(line)
       /\ \/ Tagged("search", line) /\ UNCHANGED nummails
          \/ /\ At(line, 1) = Star
             /\ IF At(line, 3) # Word("EXISTS")
                THEN Go("select?", 0) /\ UNCHANGED nummails
                ELSE IF At(line, 2)[1] = "number"
                THEN Go("select?", 0) /\ nummails' = At(line, 2)[2]
                ELSE Go("end", 1) /\ UNCHANGED nummails
  /\ UNCHANGED <<m_CmdSeq, m_StartTLS, unread, server>>

Search ==
  /\ Doing("search")
  /\ WriteCmd("SEARCH", "search?")
  /\ UNCHANGED <<m_StartTLS, nummails, unread>>

\* Mutant: the size that means "no number" is off by one.
SearchLineShort ==
  /\ Doing("search?")
  /\ \E line \in Readable :
       /\ ReadLine(line)
       /\ \/ Tagged("result", line) /\ UNCHANGED unread
          \/ /\ At(line, 1) = Star
             /\ Go("search?", 0)
             /\ unread' = IF Len(line) <= 3 THEN 0 ELSE At(line, 3)[2]
  /\ UNCHANGED <<m_CmdSeq, m_StartTLS, nummails, server>>

\* getMail: the answer to SEARCH.  The first number is taken for the count.
SearchLineRead ==
  /\ Doing("search?")
  /\ \E line \in Readable :
       /\ ReadLine(line)
       /\ \/ Tagged("result", line) /\ UNCHANGED unread
          \/ /\ At(line, 1) = Star
             /\ IF At(line, 2) # Word("SEARCH")
                THEN Go("search?", 0) /\ UNCHANGED unread
                ELSE IF Len(line) = 2
                THEN Go("search?", 0) /\ unread' = 0
                ELSE IF At(line, 3)[1] = "number"
                THEN Go("search?", 0) /\ unread' = At(line, 3)[2]
                ELSE Go("end", 1) /\ UNCHANGED unread
  /\ UNCHANGED <<m_CmdSeq, m_StartTLS, nummails, server>>

\* A list that is shorter than the code takes it to be ends the process, or
\* the actions above go on with anything.
ReadsBeyond ==
  /\ errs = 0
  /\ \E line \in Readable :
       /\ ReadLine(line)
       /\ CASE place = "login?" -> Len(line) < 2
            [] place \in {"greeting", "search?"} ->
                 Len(line) < 2 /\ At(line, 1) = Star
            [] place = "select?" -> Len(line) < 3 /\ At(line, 1) = Star
            [] OTHER -> FALSE
  /\ Go("dead", 0)
  /\ UNCHANGED <<object, server>>

\* doWork: emit resultReady.
Result ==
  /\ ResultReady(unread, nummails - unread)
  /\ UNCHANGED <<object, server>>

\* Mutant: no close() after LOGOUT.
EndStaysOpen ==
  \/ /\ Doing("end")
     /\ IF m_Socket = "connected"
        THEN WriteCmd("LOGOUT", "logout?")
        ELSE Go("close", 0) /\ UNCHANGED <<m_CmdSeq, connection, server>>
     /\ nummails' = -1
     /\ unread' = 0
     /\ UNCHANGED m_StartTLS
  \/ /\ Doing("logout?")
     /\ \E line \in Readable :
          /\ ReadLine(line)
          /\ \/ Tagged("abandon", line)
             \/ At(line, 1) = Star /\ Go("logout?", 0)
     /\ UNCHANGED <<object, server>>

\* end: LOGOUT if the socket is connected, and close() after the answer.  The
\* locals are not used any more.
End ==
  \/ /\ Doing("end")
     /\ IF m_Socket = "connected"
        THEN WriteCmd("LOGOUT", "logout?")
        ELSE Go("close", 0) /\ UNCHANGED <<m_CmdSeq, connection, server>>
     /\ nummails' = -1
     /\ unread' = 0
     /\ UNCHANGED m_StartTLS
  \/ /\ Doing("logout?")
     /\ \E line \in Readable :
          /\ ReadLine(line)
          /\ Tagged("close", line) \/ (At(line, 1) = Star /\ Go("logout?", 0))
     /\ UNCHANGED <<object, server>>

\* Mutant: end() reads on after a failure.
OnFailureReadsOn ==
  [p \in {"greeting", "starttls?", "login?", "select?", "search?", "logout?"} |->
     CASE p \in {"greeting", "login?"} -> [errs |-> 2, next |-> "end"]
       [] p = "starttls?" -> [errs |-> 1, next |-> "login"]
       [] p \in {"select?", "search?"} -> [errs |-> 3, next |-> "end"]
       [] p = "logout?" -> [errs |-> 2, next |-> "logout?"]]

\* What a readLine that fails leads to: the calls of setError (readLine's own,
\* readResponse's, the caller's), and where doWork goes on.
OnFailure ==
  [p \in {"greeting", "starttls?", "login?", "select?", "search?", "logout?"} |->
     CASE p \in {"greeting", "login?"} -> [errs |-> 2, next |-> "end"]
       [] p = "starttls?" -> [errs |-> 1, next |-> "login"]
       [] p \in {"select?", "search?"} -> [errs |-> 3, next |-> "end"]
       [] p = "logout?" -> [errs |-> 2, next |-> "close"]]

\* Mutant: the wait has no time limit.
ReadFailsOnClose ==
  /\ errs = 0
  /\ place \in DOMAIN OnFailure
  /\ peer = "gone" /\ wire = <<>>
  /\ NoLine
  /\ Go(OnFailure[place].next, OnFailure[place].errs)
  /\ UNCHANGED <<object, server>>

ReadFails ==
  /\ errs = 0
  /\ place \in DOMAIN OnFailure
  /\ NoLine
  /\ Go(OnFailure[place].next, OnFailure[place].errs)
  /\ UNCHANGED <<object, server>>

\* The server forgets the client, and the properties the last SEARCH.
Over ==
  /\ session' = "none"
  /\ searched' = None
  /\ UNCHANGED <<object, offers>>

Client ==
  \/ (SetError \/ BeginWork) /\ UNCHANGED <<object, server>>
  \/ Return /\ Over
  \/ ConnectToHost
  \/ StartProtocol
  \/ StartTLS
  \/ Login
  \/ Select
  \/ SelectLine
  \/ Search
  \/ SearchLineRead
  \/ ReadsBeyond
  \/ Result
  \/ End
  \/ ReadFails

Init ==
  /\ SocketInit
  /\ m_CmdSeq = 0
  /\ m_StartTLS = FALSE
  /\ nummails = -1
  /\ unread = 0
  /\ offers \in BOOLEAN
  /\ session = "none"
  /\ searched = None

Next ==
  \/ Client
  \/ (Called \/ GuiTakes \/ PeerCloses \/ NoticeClose)
       /\ UNCHANGED <<object, server>>
  \/ OfferChanges /\ place # "dead"
  \/ place = "dead" /\ UNCHANGED vars

Spec == Init /\ [][Next]_vars

\* The worker thread goes on, the monitor polls, the GUI handles its signals, and
\* the thread's event loop serves the socket as well as the calls.
FairSpec ==
  /\ Spec
  /\ WF_vars(Client)
  /\ WF_vars((Called \/ GuiTakes) /\ UNCHANGED <<object, server>>)
  /\ SF_vars(NoticeClose /\ UNCHANGED <<object, server>>)

-----------------------------------------------------------------------------
(* Properties.                                                             *)

Token ==
  {Junk} \cup {Tag(n) : n \in 0..MaxSeq}
    \cup {Number(n) : n \in UNION {0..m.total : m \in Mails}}
    \cup {Word(w) : w \in {"*", "OK", "NO", "BYE", "IMAP", "STARTTLS", "EXISTS",
                           "SEARCH", "CAPABILITY"}}

Counts == Garbage \cup UNION {{-1} \cup 0..m.total : m \in Mails}

Place ==
  {"idle", "connect", "greeting", "starttls", "starttls?", "login", "login?",
   "select", "select?", "search", "search?", "result", "end", "logout?",
   "close", "abandon", "dead"}

\* The types of all variables.
TypeOK ==
  /\ SocketTypeOK(Token)
  /\ place \in Place
  /\ m_CmdSeq \in 0..MaxSeq
  /\ m_StartTLS \in BOOLEAN
  /\ nummails \in Counts
  /\ unread \in Counts
  /\ offers \in BOOLEAN
  /\ session \in {"none", "login", "selected"}
  /\ searched \in Mails \cup {None}

\* The result tells of unread mail if and only if there was some when the
\* server handled the SEARCH, however late its answers came, unless the server
\* refused the SELECT or the SEARCH, or a line was cut (getMail, readResponse).
UnreadIffUnseen ==
  place = "result" /\ searched # None /\ ~cut =>
    (unread > 0 <=> searched.unseen # {})

\* resultReady's numUnread is the number of unseen mails (getMail).
UnreadIsUnseen ==
  place = "result" /\ searched # None /\ ~cut =>
    unread = Cardinality(searched.unseen)

\* No early return leaves a connection behind, except the one on a handshake
\* that takes too long (doWork, startProtocol, login, end).
ClosedWhenIdle ==
  place = "idle" => m_Socket # "connected" \/ (m_UseSSL /\ ~secure)

Worker == INSTANCE IMailProtocol WITH
  Mailbox <- {"mailbox"},
  NoMailbox <- "none",
  Address <- {"this"},
  Count <- [unread : Counts, read : {m - n : m, n \in Counts}],
  polls <- [a \in {"this"} |-> "mailbox"],
  m_ConfigurationIdx <- [a \in {"this"} |-> 1],
  m_Socket <- [a \in {"this"} |-> left],
  thread <- [a \in {"this"} |-> "running"],
  work <- [a \in {"this"} |-> Work],
  pending <- [a \in {"this"} |-> pending],
  found <- [b \in {"mailbox"} |-> [unread |-> unread, read |-> nummails - unread]]

\* doWork does what CMailApp takes it to do: every step that can be seen from
\* outside, the end of the process included, is one of the worker's in
\* IMailProtocol, or a call that is queued, or a signal that is taken.  What a
\* poll finds out are the numbers of getMail, right or wrong.
ImplementsWorker ==
  [][Worker!WorkerStep("this") \/ Called \/ GuiTakes]_<<Work, frame>>

\* Something goes wrong with the network or the server, or it is configured.
Trouble ==
  \/ ConnectFails \/ HandshakeTimesOut
  \/ ReadFails /\ wire # <<>>
  \/ PeerCloses
  \/ OfferChanges
  \/ cut' /\ ~cut
  \/ \E i \in Len(wire) + 1..Len(wire') :
       /\ At(wire'[i], 2) \in {Word("NO"), Word("CAPABILITY")}
       /\ place = "starttls" => offers
  \/ wire' = <<NoService>>
  \/ /\ place \notin DOMAIN OnFailure /\ place' \in DOMAIN OnFailure
     /\ wire' = wire /\ Understood'  \* the server hangs

\* Every doWork call returns: the fairness that CMailApp assumes of the worker
\* threads (TIMEOUT at every wait).
PollsEnd == place = "connect" ~> place \in {"idle", "dead"}

\* When the network and the server behave, the polls give results again,
\* whatever went wrong before; but m_StartTLS is remembered, so the server
\* must not have stopped to offer it.
Recovers ==
  <>[][~Trouble]_vars /\ <>[](m_StartTLS => offers)
    => []<>(place \in {"result", "dead"})

=============================================================================
