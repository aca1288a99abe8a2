------------------------------- MODULE CPop3 -------------------------------
(***************************************************************************)
(* A POP3 mailbox: CPop3, from the doWork call to the result, with the     *)
(* server at the other end (external: how the code uses it).               *)
(*                                                                         *)
(* "place" is the next thing doWork does: the command it will write, or    *)
(* with "?" the answer it waits for.                                       *)
(***************************************************************************)
EXTENDS CMailSocket, CCrypt, SequencesExt

CONSTANTS
  Mails,     \* how many mails the mailbox can hold
  Features,  \* what a server can support: sets of "SASL", "CRAM-MD5", "STLS",
             \* "APOP"
  Passwords  \* the passwords a user can have, as sequences of bytes

ASSUME Pop3Assumption ==
  /\ Mails \subseteq Nat
  /\ \A f \in Features : f \subseteq {"SASL", "CRAM-MD5", "STLS", "APOP"}

VARIABLES
  m_AuthCramMd5, m_AuthApop, m_StartTLS,
  m_ChallApop,  \* whose challenge: "none", "current" or "old" connection
  unread,       \* the local of doWork
  features,     \* what the server supports
  session,      \* the server's side: "none", "cram", "user" or "open"
  stated        \* history: what the server answered to STAT, or None

flags == <<m_AuthCramMd5, m_AuthApop, m_StartTLS, m_ChallApop>>
server == <<features, session, stated>>
vars == <<socketVars, flags, unread, server>>

None == -1
Ok == Word("+OK")
Err == Word("-ERR")
Text == Word("text")

-----------------------------------------------------------------------------
(* The server.                                                             *)

\* It greets, with no text or with some, or refuses, or hangs.
Greetings ==
  {<<<<Ok, IF "APOP" \in features THEN Word("stamp") ELSE Text>>>>, <<<<Ok>>>>,
   <<<<Err, Text>>>>, <<>>}

CapaLines ==
  (IF "CRAM-MD5" \in features THEN <<<<Word("SASL"), Word("CRAM-MD5")>>>>
   ELSE IF "SASL" \in features THEN <<<<Word("SASL")>>>> ELSE <<>>)
    \o (IF "STLS" \in features THEN <<<<Word("STLS")>>>> ELSE <<>>)
    \o <<<<Word(".")>>>>

\* Can the server grant the command?  After AUTH any line is the response.
Grantable(cmd) ==
  IF session = "cram" THEN cmd = "RESPONSE"
  ELSE CASE cmd = "CAPA" -> TRUE
         [] cmd = "STLS" -> "STLS" \in features /\ peer = "plain"
         [] cmd = "AUTH" -> "CRAM-MD5" \in features /\ session # "open"
         [] cmd = "RESPONSE" -> FALSE
         [] cmd = "APOP" -> /\ "APOP" \in features
                            /\ session # "open"
                            /\ m_ChallApop = "current"
         [] cmd = "USER" -> session # "open"
         [] cmd = "PASS" -> session = "user"
         [] cmd = "STAT" -> session = "open"

\* The lines that grant a command; the answer to a login can tell the number of
\* the mails, too.
Granted(cmd, mails) ==
  CASE cmd = "CAPA" -> <<<<Ok, Text>>>> \o CapaLines
    [] cmd = "AUTH" -> <<<<Word("+"), Word("challenge")>>>>
    [] cmd \in {"RESPONSE", "APOP", "PASS", "STAT"} -> <<<<Ok, Number(mails)>>>>
    [] OTHER -> <<<<Ok, Text>>>>

\* Mails come and go at any time, so that STAT can find any number of them.
Grants(cmd) ==
  /\ Grantable(cmd)
  /\ \E mails \in Mails :
       /\ stated' = IF cmd = "STAT" THEN mails ELSE stated
       /\ wire' = wire \o Granted(cmd, mails)
  /\ peer' = IF cmd = "STLS" THEN "tls" ELSE peer
  /\ session' = CASE cmd = "AUTH" -> "cram"
                  [] cmd = "USER" -> "user"
                  [] cmd \in {"RESPONSE", "APOP", "PASS"} -> "open"
                  [] OTHER -> session

Refuses(cmd) ==
  /\ wire' = Append(wire, <<Err, Text>>)
  /\ session' = IF session \in {"cram", "user"} THEN "none" ELSE session
  /\ UNCHANGED <<peer, stated>>

\* Or it hangs.  A command that is not understood ends the connection.
Answers(cmd) ==
  IF Understood
  THEN \/ Grants(cmd)
       \/ Refuses(cmd)
       \/ UNCHANGED <<peer, wire, session, stated>>
  ELSE peer' = "gone" /\ UNCHANGED <<wire, session, stated>>

\* The server is configured anew.
FeaturesChange ==
  /\ features' \in Features \ {features}
  /\ UNCHANGED <<socketVars, flags, unread, session, stated>>

-----------------------------------------------------------------------------
(* The client.                                                             *)

\* What login tries next, after CAPA, after STLS and after CRAM-MD5.
AfterCram == IF m_AuthApop /\ ~m_UseSSL THEN "APOP" ELSE "USER"
AfterTls == IF m_AuthCramMd5 THEN "AUTH" ELSE AfterCram
AfterCapa == IF m_StartTLS THEN "STLS" ELSE AfterTls

\* Where doWork goes on if the socket is not connected when it writes cmd, and
\* the calls of setError (writeLine's own, the caller's).
Unwritten(cmd) ==
  CASE cmd \in {"AUTH", "RESPONSE"} -> [next |-> "end", errs |-> 2]
    [] cmd = "APOP" -> [next |-> "USER", errs |-> 1]
    [] cmd = "STAT" -> [next |-> "end", errs |-> 1]
    [] cmd = "CAPA" -> [next |-> "CAPA?", errs |-> 1]
    [] cmd = "STLS" -> [next |-> "STLS?", errs |-> 1]
    [] cmd = "USER" -> [next |-> "USER?", errs |-> 1]
    [] cmd = "PASS" -> [next |-> "PASS?", errs |-> 1]

\* writeLine; the wait for the answer is next.
Write(cmd, wait) ==
  /\ Doing(cmd)
  /\ IF m_Socket = "connected"
     THEN /\ Answers(cmd)
          /\ UNCHANGED <<m_Socket, secure, cut>>
          /\ Go(wait, 0)
     ELSE /\ UNCHANGED <<connection, session, stated>>
          /\ Go(Unwritten(cmd).next, Unwritten(cmd).errs)
  /\ UNCHANGED <<flags, features>>

\* doWork: the connection.  A new one makes the last challenge an old one.
ConnectToHost ==
  \/ /\ \E lines \in Greetings : Connect(lines)
     /\ IF m_Socket = "connected" /\ ~m_UseSSL
        THEN UNCHANGED <<session, m_ChallApop>>
        ELSE /\ session' = "none"
             /\ m_ChallApop' = IF m_ChallApop = "current" THEN "old"
                               ELSE m_ChallApop
     /\ UNCHANGED <<m_AuthCramMd5, m_AuthApop, m_StartTLS, unread, features,
                    stated>>
  \/ /\ ConnectFails \/ HandshakeTimesOut \/ EncryptedAlready
     /\ UNCHANGED <<flags, unread, server>>

\* readResponse: -ERR is no error; anything but +OK and -ERR is one.
Accepted(line) == At(line, 1) = Ok
Unexpected(line) == IF At(line, 1) \in {Ok, Err} THEN 0 ELSE 1

\* startProtocol: on any greeting but +OK doWork returns without end().  The
\* challenge and m_AuthApop are kept if there is no new one.
StartProtocol ==
  /\ Doing("greeting")
  /\ \E line \in Readable :
       /\ ReadLine(line)
       /\ IF Accepted(line)
          THEN /\ IF line[Len(line)] = Word("stamp")
                  THEN m_AuthApop' = TRUE /\ m_ChallApop' = "current"
                  ELSE UNCHANGED <<m_AuthApop, m_ChallApop>>
               /\ Go(IF m_UseSSL THEN AfterTls ELSE "CAPA", 0)
          ELSE /\ UNCHANGED <<m_AuthApop, m_ChallApop>>
               /\ Go("abandon", Unexpected(line))
  /\ UNCHANGED <<m_AuthCramMd5, m_StartTLS, unread, server>>

\* An answer that only decides where doWork goes on, after n more calls of
\* setError if it is not +OK.
Answered(p, yes, no, n) ==
  /\ Doing(p)
  /\ \E line \in Readable :
       /\ ReadLine(line)
       /\ IF Accepted(line) THEN Go(yes, 0) ELSE Go(no, Unexpected(line) + n)
  /\ UNCHANGED <<flags, unread, server>>

\* readCapa, line by line up to the one with the dot.  It does not wait: if
\* nothing more has arrived, or a part of a line only, it goes by that.
ReadCapa ==
  /\ Doing("capabilities")
  /\ \/ /\ Go(AfterCapa, 0)
        /\ UNCHANGED <<connection, m_AuthCramMd5, m_StartTLS>>
     \/ \E line \in Readable :
          /\ At(Head(wire), 1) = Word(".") => line = Head(wire)
          /\ ReadLine(line)
          /\ m_AuthCramMd5' = IF At(line, 1) = Word("SASL")
                              THEN Word("CRAM-MD5") \in Range(line)
                              ELSE m_AuthCramMd5
          /\ m_StartTLS' = (m_StartTLS \/ At(line, 1) = Word("STLS"))
          /\ Go(IF At(line, 1) = Word(".") THEN AfterCapa ELSE place, 0)
  /\ UNCHANGED <<m_AuthApop, m_ChallApop, unread, server>>

Capa ==
  \/ Write("CAPA", "CAPA?") /\ UNCHANGED unread
  \/ Answered("CAPA?", "capabilities", AfterCapa, 0)
  \/ ReadCapa

StartTLS ==
  \/ Write("STLS", "STLS?") /\ UNCHANGED unread
  \/ /\ Doing("STLS?")
     /\ \E line \in Readable :
          IF Accepted(line)
          THEN /\ line = Head(wire)
               /\ StartClientEncryption(Tail(wire))
               /\ Go(AfterTls, 0)
               /\ UNCHANGED <<m_Socket, cut>>
          ELSE /\ ReadLine(line)
               /\ Go(AfterTls, Unexpected(line))
     /\ UNCHANGED <<flags, unread, server>>

\* Mutant: no other login is tried when the server refuses AUTH.
CramMd5Only ==
  \/ /\ Write("AUTH", "AUTH?") \/ Write("RESPONSE", "RESPONSE?")
     /\ UNCHANGED unread
  \/ /\ Doing("AUTH?")
     /\ \E line \in Readable :
          /\ ReadLine(line)
          /\ IF At(line, 1) = Word("+") THEN Go("RESPONSE", 0) ELSE Go("end", 1)
     /\ UNCHANGED <<flags, unread, server>>
  \/ Answered("RESPONSE?", "STAT", AfterCram, 0)

\* login with CRAM-MD5; readChall takes any line with a + for the challenge.
CramMd5 ==
  \/ /\ Write("AUTH", "AUTH?") \/ Write("RESPONSE", "RESPONSE?")
     /\ UNCHANGED unread
  \/ /\ Doing("AUTH?")
     /\ \E line \in Readable :
          /\ ReadLine(line)
          /\ IF At(line, 1) = Word("+") THEN Go("RESPONSE", 0)
             ELSE Go(AfterCram, 1)
     /\ UNCHANGED <<flags, unread, server>>
  \/ Answered("RESPONSE?", "STAT", AfterCram, 0)

Apop ==
  \/ Write("APOP", "APOP?") /\ UNCHANGED unread
  \/ Answered("APOP?", "STAT", "USER", 0)

\* Mutant: PASS is written before the answer to USER is read.
UserThenPass ==
  \/ (Write("USER", "USER?") \/ Write("PASS", "PASS?")) /\ UNCHANGED unread
  \/ /\ Doing("USER?")
     /\ Go("PASS", 0)
     /\ UNCHANGED <<connection, flags, unread, server>>
  \/ Answered("PASS?", "STAT", "end", 1)

UserPass ==
  \/ (Write("USER", "USER?") \/ Write("PASS", "PASS?")) /\ UNCHANGED unread
  \/ Answered("USER?", "PASS", "end", 1)
  \/ Answered("PASS?", "STAT", "end", 1)

\* Mutant: doWork returns when getMail fails.
GetMailAbandons ==
  \/ Write("STAT", "STAT?") /\ unread' = -1
  \/ /\ Doing("STAT?")
     /\ \E line \in Readable :
          /\ ReadLine(line)
          /\ IF ~Accepted(line)
             THEN Go("abandon", Unexpected(line)) /\ UNCHANGED unread
             ELSE IF At(line, 2)[1] = "number"
             THEN Go("result", 0) /\ unread' = At(line, 2)[2]
             ELSE Go("abandon", 1) /\ unread' = 0
     /\ UNCHANGED <<flags, server>>

\* getMail; isConnected is false if the socket is closed.
GetMail ==
  \/ Write("STAT", "STAT?") /\ unread' = -1
  \/ /\ Doing("STAT?")
     /\ \E line \in Readable :
          /\ ReadLine(line)
          /\ IF ~Accepted(line)
             THEN Go("end", Unexpected(line)) /\ UNCHANGED unread
             ELSE IF At(line, 2)[1] = "number"
             THEN Go("result", 0) /\ unread' = At(line, 2)[2]
             ELSE Go("end", 1) /\ unread' = 0
     /\ UNCHANGED <<flags, server>>

\* A list that is shorter than the code takes it to be ends the process, or
\* the actions above go on with anything.
ReadsBeyond ==
  /\ errs = 0
  /\ \E line \in Readable :
       /\ ReadLine(line)
       /\ Len(line) < 2
       /\ \/ place \in {"greeting", "STAT?"} /\ Accepted(line)
          \/ place = "AUTH?" /\ At(line, 1) = Word("+")
  /\ Go("dead", 0)
  /\ UNCHANGED <<flags, unread, server>>

\* doWork: emit resultReady; read is always 0.
Result ==
  /\ ResultReady(unread, 0)
  /\ UNCHANGED <<flags, unread, server>>

\* Mutant: no close() after QUIT.
EndStaysOpen ==
  /\ Doing("end")
  /\ peer' = IF m_Socket = "connected" THEN "gone" ELSE peer
  /\ Go("abandon", 0)
  /\ unread' = -1
  /\ UNCHANGED <<m_Socket, secure, wire, cut, flags, server>>

\* end: QUIT, to which no answer is read, and close().  The local is not used
\* any more.
End ==
  /\ Doing("end")
  /\ peer' = IF m_Socket = "connected" THEN "gone" ELSE peer
  /\ Go("close", 0)
  /\ unread' = -1
  /\ UNCHANGED <<m_Socket, secure, wire, cut, flags, server>>

\* Mutant: CAPA is written again until it is answered.
OnFailureAsksAgain ==
  [p \in {"greeting", "CAPA?", "STLS?", "AUTH?", "RESPONSE?", "APOP?", "USER?",
          "PASS?", "STAT?"} |->
     CASE p = "greeting" -> [next |-> "abandon", errs |-> 1]
       [] p = "CAPA?" -> [next |-> "CAPA", errs |-> 1]
       [] p = "STLS?" -> [next |-> AfterTls, errs |-> 1]
       [] p \in {"AUTH?", "RESPONSE?"} -> [next |-> AfterCram, errs |-> 1]
       [] p = "APOP?" -> [next |-> "USER", errs |-> 1]
       [] p \in {"USER?", "PASS?"} -> [next |-> "end", errs |-> 2]
       [] p = "STAT?" -> [next |-> "end", errs |-> 1]]

\* What a readLine that fails leads to.
OnFailure ==
  [p \in {"greeting", "CAPA?", "STLS?", "AUTH?", "RESPONSE?", "APOP?", "USER?",
          "PASS?", "STAT?"} |->
     CASE p = "greeting" -> [next |-> "abandon", errs |-> 1]
       [] p = "CAPA?" -> [next |-> AfterCapa, errs |-> 1]
       [] p = "STLS?" -> [next |-> AfterTls, errs |-> 1]
       [] p \in {"AUTH?", "RESPONSE?"} -> [next |-> AfterCram, errs |-> 1]
       [] p = "APOP?" -> [next |-> "USER", errs |-> 1]
       [] p \in {"USER?", "PASS?"} -> [next |-> "end", errs |-> 2]
       [] p = "STAT?" -> [next |-> "end", errs |-> 1]]

ReadFails ==
  /\ errs = 0
  /\ place \in DOMAIN OnFailure
  /\ NoLine
  /\ Go(OnFailure[place].next, OnFailure[place].errs)
  /\ UNCHANGED <<flags, unread, server>>

\* The server forgets a client whose connection is closed.
Over ==
  /\ session' = IF m_Socket' = "connected" THEN session ELSE "none"
  /\ stated' = None
  /\ UNCHANGED <<flags, unread, features>>

Client ==
  \/ (SetError \/ BeginWork) /\ UNCHANGED <<flags, unread, server>>
  \/ Return /\ Over
  \/ ConnectToHost
  \/ StartProtocol
  \/ Capa
  \/ StartTLS
  \/ CramMd5
  \/ Apop
  \/ UserPass
  \/ GetMail
  \/ ReadsBeyond
  \/ Result
  \/ End
  \/ ReadFails

Init ==
  /\ SocketInit
  /\ m_AuthCramMd5 = FALSE
  /\ m_AuthApop = FALSE
  /\ m_StartTLS = FALSE
  /\ m_ChallApop = "none"
  /\ unread = -1
  /\ features \in Features
  /\ session = "none"
  /\ stated = None

Next ==
  \/ Client
  \/ (Called \/ GuiTakes \/ PeerCloses \/ NoticeClose)
       /\ UNCHANGED <<flags, unread, server>>
  \/ FeaturesChange /\ place # "dead"
  \/ place = "dead" /\ UNCHANGED vars

Spec == Init /\ [][Next]_vars

\* The worker thread goes on, the monitor polls, the GUI handles its signals, the
\* thread's event loop serves the socket as well as the calls, and a server does
\* not keep a silent connection for ever.
FairSpec ==
  /\ Spec
  /\ WF_vars(Client)
  /\ WF_vars((Called \/ GuiTakes) /\ UNCHANGED <<flags, unread, server>>)
  /\ SF_vars(NoticeClose /\ UNCHANGED <<flags, unread, server>>)
  /\ WF_vars(PeerCloses /\ UNCHANGED <<flags, unread, server>>)

-----------------------------------------------------------------------------
(* Properties.                                                             *)

Token ==
  {Junk} \cup {Number(n) : n \in UNION {{m, m \div 10} : m \in Mails}}
    \cup {Word(w) : w \in {"+OK", "-ERR", "+", "text", "stamp", "challenge",
                           "SASL", "STLS", "CRAM-MD5", "."}}

Counts == {-1, 0} \cup UNION {{m, m \div 10} : m \in Mails}

Place ==
  {"idle", "connect", "capabilities", "STAT", "STAT?", "result", "end", "close",
   "abandon", "dead"}
    \cup DOMAIN OnFailure
    \cup {"CAPA", "STLS", "AUTH", "RESPONSE", "APOP", "USER", "PASS"}

\* The types of all variables.
TypeOK ==
  /\ SocketTypeOK(Token)
  /\ place \in Place
  /\ \A f \in {m_AuthCramMd5, m_AuthApop, m_StartTLS} : f \in BOOLEAN
  /\ m_ChallApop \in {"none", "current", "old"}
  /\ unread \in Counts
  /\ features \in Features
  /\ session \in {"none", "cram", "user", "open"}
  /\ stated \in Mails \cup {None}

\* The number of a result is what the server answered to the STAT of this
\* call, whatever answers and capabilities came late (login, getMail,
\* readCapa), unless a line was cut.
ResultIsStat == place = "result" /\ ~cut => unread = stated

\* A call that returns leaves no session behind in which the server has locked
\* the mailbox (end on every path after the greeting).
NoSessionLeft == place = "idle" => session = "none"

Worker == INSTANCE IMailProtocol WITH
  Mailbox <- {"mailbox"},
  NoMailbox <- "none",
  Address <- {"this"},
  Count <- [unread : Counts, read : {0}],
  polls <- [a \in {"this"} |-> "mailbox"],
  m_ConfigurationIdx <- [a \in {"this"} |-> 1],
  m_Socket <- [a \in {"this"} |-> left],
  thread <- [a \in {"this"} |-> "running"],
  work <- [a \in {"this"} |-> Work],
  pending <- [a \in {"this"} |-> pending],
  found <- [b \in {"mailbox"} |-> [unread |-> unread, read |-> 0]]

\* doWork does what CMailApp takes it to do: every step that can be seen from
\* outside, the end of the process included, is one of the worker's in
\* IMailProtocol, or a call that is queued, or a signal that is taken.  What a
\* poll finds out are the numbers of getMail, right or wrong.
ImplementsWorker ==
  [][Worker!WorkerStep("this") \/ Called \/ GuiTakes]_<<Work, frame>>

\* For passwords of every length the response to a challenge is the one that
\* the server expects (cram_md5, hmac_md5).
ResponseIsHmac ==
  place = "RESPONSE" =>
    \A password \in Passwords :
      cram_md5("user", password, ToBase64(<<Byte("text")>>))
        = Expected("user", password, <<Byte("text")>>)

Commands == {"CAPA", "STLS", "AUTH", "RESPONSE", "APOP", "USER", "PASS", "STAT"}

\* Something goes wrong with the network or the server, or it is configured.
Trouble ==
  \/ ConnectFails \/ HandshakeTimesOut
  \/ ReadFails /\ wire # <<>>
  \/ ReadCapa /\ place' # place /\ wire' # <<>>
  \/ PeerCloses /\ place # "idle" /\ (place = "greeting" => wire # <<>>)
  \/ FeaturesChange
  \/ cut' /\ ~cut
  \/ Doing("connect") /\ place' = "greeting" /\ m_Socket = "closed"
       /\ \A i \in 1..Len(wire') : wire'[i][1] = Err
  \/ /\ place \in Commands /\ place' # place  \* a command is written ...
     /\ m_Socket = "connected" /\ Understood /\ Grantable(place)
     /\ wire' = wire \/ wire'[Len(wire')][1] = Err  \* ... and not granted

\* Every doWork call returns: the fairness that CMailApp assumes of the worker
\* threads (TIMEOUT at every wait).
PollsEnd == place = "connect" ~> place \in {"idle", "dead"}

\* When the network and the server behave, the polls give results again,
\* whatever went wrong before, and whatever the flags and the challenge of
\* older connections say (login, startProtocol).
Recovers == <>[][~Trouble]_vars => []<>(place \in {"result", "dead"})

=============================================================================
