----------------------------- MODULE CPop3_proofs -----------------------------
(***************************************************************************)
(* Proofs about CPop3, for any mailboxes, servers, passwords and bounds:   *)
(* what its doWork does is what IMailProtocol says of one, no login of one *)
(* call outlives it, and what it tells is the answer to its own STAT.      *)
(***************************************************************************)
EXTENDS CPop3, CMailSocket_proofs

\* Where doWork is when it has told its result.
Late == {"end", "close"}

\* Where doWork is when it has not written anything to this connection.
Before == {"idle", "connect", "greeting", "abandon"}

\* A result is told only on the way to QUIT; and a call that has not written a
\* command meets a server at which nobody is logged in, also on a connection
\* that an earlier call has left.
IInv ==
  /\ told \in BOOLEAN
  /\ told => place \in Late
  /\ m_Socket \in {"null", "closed", "connected"}
  /\ place # "idle" => m_Socket # "null"
  /\ place = "idle" => errs = 0
  /\ place \in Before => session = "none"

-----------------------------------------------------------------------------
(* The steps of the dialogue.                                              *)

\* A step of the dialogue with the server, on a connection.  doWork returns
\* without QUIT only if the greeting is not as it should be.
Talks ==
  /\ UNCHANGED frame
  /\ m_Socket' \in {m_Socket, "closed"}
  /\ place \notin {"idle", "connect"}
  /\ place' \notin Before \ {"abandon"}
  /\ place' = "abandon" => place = "greeting" /\ session' = session
  /\ place \in Late => place' \in Late
  /\ place # "dead" /\ (place' = "dead" => UNCHANGED unread)

\* What login and its helpers can try next.
LEMMA AfterFacts ==
  /\ AfterCapa \in {"STLS", "AUTH", "APOP", "USER"}
  /\ AfterTls \in {"AUTH", "APOP", "USER"}
  /\ AfterCram \in {"APOP", "USER"}
  BY DEF AfterCapa, AfterTls, AfterCram

\* A command on a socket that is not connected.
LEMMA UnwrittenFacts ==
  ASSUME NEW cmd \in Commands
  PROVE  Unwritten(cmd).next \in {"end", "USER", "CAPA?", "STLS?", "USER?",
                                  "PASS?"}
  BY DEF Unwritten, Commands

\* A command that is written, or not, leads to the wait or to another place.
LEMMA WriteFacts ==
  ASSUME NEW cmd \in Commands, NEW wait, Write(cmd, wait)
  PROVE  /\ UNCHANGED <<frame, m_Socket>>
         /\ place = cmd
         /\ place' \in {wait, "end", "USER", "CAPA?", "STLS?", "USER?", "PASS?"}
  BY UnwrittenFacts DEF Write, Doing, Go, connection

\* An answer to which doWork reacts with its next place only.
LEMMA AnsweredFacts ==
  ASSUME NEW p, NEW yes, NEW no, NEW n, Answered(p, yes, no, n)
  PROVE  /\ UNCHANGED <<frame, m_Socket, session>>
         /\ place = p
         /\ place' \in {yes, no}
  BY DEF Answered, Doing, ReadLine, Go, server

\* Where a failed readLine leads.
LEMMA OnFailureFacts ==
  ASSUME NEW p \in DOMAIN OnFailure
  PROVE  /\ p \notin {"idle", "connect", "dead"} \cup Late
         /\ \/ p = "greeting" /\ OnFailure[p].next = "abandon"
            \/ OnFailure[p].next \in {"STLS", "AUTH", "APOP", "USER", "end"}
         /\ OnFailure[p].errs \in 0..3
  <1>1. p \in {"greeting", "CAPA?", "STLS?", "AUTH?", "RESPONSE?", "APOP?",
               "USER?", "PASS?", "STAT?"}
        BY DEF OnFailure
  <1>2. CASE p = "greeting"
        BY <1>2 DEF OnFailure, Late
  <1>3. CASE p = "CAPA?"
        BY <1>3, AfterFacts DEF OnFailure, Late
  <1>4. CASE p = "STLS?"
        BY <1>4, AfterFacts DEF OnFailure, Late
  <1>5. CASE p \in {"AUTH?", "RESPONSE?"}
        BY <1>5, AfterFacts DEF OnFailure, Late
  <1>6. CASE p \in {"APOP?", "USER?", "PASS?", "STAT?"}
        BY <1>6 DEF OnFailure, Late
  <1>7. QED
        BY <1>1, <1>2, <1>3, <1>4, <1>5, <1>6

Dialogue ==
  \/ StartProtocol \/ Capa \/ StartTLS \/ CramMd5 \/ Apop \/ UserPass
  \/ GetMail \/ ReadsBeyond \/ End \/ ReadFails

\* All that doWork does between connectToHost and close, the result excepted.
LEMMA DialogueTalks == ASSUME Dialogue PROVE Talks
  <1>1. CASE StartProtocol
    <2>1. place = "greeting" /\ UNCHANGED <<frame, m_Socket, session>>
          BY <1>1 DEF StartProtocol, Doing, ReadLine, Go, server
    <2>2. place' \in {"AUTH", "APOP", "USER", "CAPA", "abandon"}
          BY <1>1, AfterFacts DEF StartProtocol, Go
    <2>3. QED
          BY <2>1, <2>2 DEF Talks, Before, Late
  <1>2. CASE Capa
    <2>1. CASE Write("CAPA", "CAPA?")
          BY <2>1, WriteFacts DEF Talks, Before, Late, Commands
    <2>2. CASE Answered("CAPA?", "capabilities", AfterCapa, 0)
          BY <2>2, AnsweredFacts, AfterFacts DEF Talks, Before, Late
    <2>3. CASE ReadCapa
          BY <2>3, AfterFacts
          DEF ReadCapa, Doing, ReadLine, Go, connection, Talks, Before, Late
    <2>4. QED
          BY <1>2, <2>1, <2>2, <2>3 DEF Capa
  <1>3. CASE StartTLS
    <2>1. CASE Write("STLS", "STLS?")
          BY <2>1, WriteFacts DEF Talks, Before, Late, Commands
    <2>2. CASE ~Write("STLS", "STLS?")
          BY <1>3, <2>2, AfterFacts DEF StartTLS, Doing, ReadLine, Go, Talks,
             Before, Late
    <2>3. QED
          BY <2>1, <2>2
  <1>4. CASE CramMd5
    <2>1. CASE Write("AUTH", "AUTH?") \/ Write("RESPONSE", "RESPONSE?")
          BY <2>1, WriteFacts DEF Talks, Before, Late, Commands
    <2>2. CASE Answered("RESPONSE?", "STAT", AfterCram, 0)
          BY <2>2, AnsweredFacts, AfterFacts DEF Talks, Before, Late
    <2>3. CASE Doing("AUTH?")
      <3>1. ~Write("AUTH", "AUTH?") /\ ~Write("RESPONSE", "RESPONSE?")
            BY <2>3 DEF Write, Doing
      <3>2. ~Answered("RESPONSE?", "STAT", AfterCram, 0)
            BY <2>3 DEF Answered, Doing
      <3>3. QED
            BY <1>4, <3>1, <3>2, AfterFacts DEF CramMd5, Doing, ReadLine, Go,
               Talks, Before, Late
    <2>4. QED
          BY <1>4, <2>1, <2>2, <2>3 DEF CramMd5
  <1>5. CASE Apop
        BY <1>5, WriteFacts, AnsweredFacts
        DEF Apop, Talks, Before, Late, Commands
  <1>6. CASE UserPass
        BY <1>6, WriteFacts, AnsweredFacts
        DEF UserPass, Talks, Before, Late, Commands
  <1>7. CASE GetMail
    <2>1. CASE Write("STAT", "STAT?")
          BY <2>1, WriteFacts DEF Talks, Before, Late, Commands
    <2>2. CASE ~Write("STAT", "STAT?")
          BY <1>7, <2>2 DEF GetMail, Doing, ReadLine, Go, Talks, Before, Late
    <2>3. QED
          BY <2>1, <2>2
  <1>8. CASE ReadsBeyond
        BY <1>8 DEF ReadsBeyond, ReadLine, Go, Talks, Before, Late
  <1>9. CASE End
        BY <1>9 DEF End, Doing, Go, Talks, Before, Late
  <1>10. CASE ReadFails
         BY <1>10, OnFailureFacts
         DEF ReadFails, NoLine, Go, server, Talks, Before, Late
  <1>11. QED
         BY <1>1, <1>2, <1>3, <1>4, <1>5, <1>6, <1>7, <1>8, <1>9, <1>10
         DEF Dialogue

-----------------------------------------------------------------------------
(* The invariant.                                                          *)

\* It holds before the first call.
LEMMA InitIInv == Init => IInv
  BY DEF Init, SocketInit, IInv, Before

\* The connection is made, or not; the server of a new one knows nobody yet.
LEMMA ConnectIInv ==
  ASSUME IInv, ConnectToHost
  PROVE  /\ IInv' /\ UNCHANGED frame
         /\ place = "connect" /\ place' \in {"greeting", "abandon"}
  <1>1. /\ place = "connect" /\ place' \in {"greeting", "abandon"}
        /\ UNCHANGED frame
        /\ m_Socket' \in {m_Socket, "closed", "connected"}
        BY DEF ConnectToHost, Connect, ConnectFails, HandshakeTimesOut,
           EncryptedAlready, Close, Doing, Go, connection
  <1>2. session' \in {session, "none"}
        BY DEF ConnectToHost, server
  <1>3. session = "none"
        BY <1>1 DEF IInv, Before
  <1>4. QED
        BY <1>1, <1>2, <1>3 DEF IInv, frame, Before, Late

\* No step breaks it: one case per action, the dialogue as a whole.
LEMMA NextIInv == IInv /\ [Next]_vars => IInv'
  <1>1. SUFFICES ASSUME IInv, [Next]_vars PROVE IInv'
        OBVIOUS
  <1>2. CASE Dialogue
    <2>1. Talks
          BY <1>2, DialogueTalks
    <2>2. place' = "abandon" => session' = "none"
          BY <1>1, <2>1 DEF Talks, IInv, Before
    <2>3. QED
          BY <1>1, <2>1, <2>2 DEF Talks, IInv, frame, Before
  <1>3. CASE SetError /\ UNCHANGED session
        BY <1>1, <1>3 DEF SetError, IInv, connection
  <1>4. CASE BeginWork /\ UNCHANGED session
        BY <1>1, <1>4 DEF BeginWork, IInv, Doing, Before, Late
  <1>5. CASE Return /\ Over
    <2>1. /\ place' = "idle" /\ told' = FALSE /\ errs' = 0
          BY <1>5 DEF Return, Doing
    <2>2. \/ place = "abandon" /\ m_Socket' = m_Socket
          \/ m_Socket' = "closed"
          BY <1>5 DEF Return, Close, connection, Doing
    <2>3. session' = "none"
          BY <1>1, <1>5, <2>2 DEF Over, IInv, Before
    <2>4. QED
          BY <1>1, <2>1, <2>2, <2>3 DEF IInv
  <1>6. CASE ConnectToHost
        BY <1>1, <1>6, ConnectIInv
  <1>7. CASE Result
        BY <1>1, <1>7 DEF Result, ResultReady, IInv, Doing, connection, Before,
           Late
  <1>8. CASE (Called \/ GuiTakes) /\ UNCHANGED session
        BY <1>1, <1>8 DEF Called, GuiTakes, IInv, connection
  <1>9. CASE PeerCloses /\ UNCHANGED session
        BY <1>1, <1>9 DEF PeerCloses, IInv, frame
  <1>10. CASE NoticeClose /\ UNCHANGED session
         BY <1>1, <1>10 DEF NoticeClose, Close, Doing, IInv, frame
  <1>11. CASE FeaturesChange
         BY <1>1, <1>11
         DEF FeaturesChange, IInv, socketVars, connection, frame
  <1>12. CASE UNCHANGED vars
         BY <1>1, <1>12 DEF vars, IInv, socketVars, connection, frame, server
  <1>13. QED
         BY <1>1, <1>2, <1>3, <1>4, <1>5, <1>6, <1>7, <1>8, <1>9, <1>10, <1>11,
            <1>12 DEF Next, Client, Dialogue, server

\* It holds in every state.
LEMMA IInvHolds == Spec => []IInv
  BY InitIInv, NextIInv, PTL DEF Spec

\* No call leaves a login behind, whatever the connection that it has met and the
\* one that it leaves.
THEOREM NoLoginOutlives == Spec => []NoSessionLeft
  <1>1. IInv => NoSessionLeft
        BY DEF IInv, NoSessionLeft, Before
  <1>2. QED
        BY <1>1, IInvHolds, PTL

-----------------------------------------------------------------------------
(* The types.                                                              *)

\* The tokens that the server sends, the rest of a line that was cut among them.
Sent ==
  {Junk} \cup {Number(n) : n \in Mails}
    \cup {Word(w) : w \in {"+OK", "-ERR", "+", "text", "stamp", "challenge",
                           "SASL", "STLS", "CRAM-MD5", "."}}

\* The types that TypeOK does not share with CMailSocket.
ObjectOK ==
  /\ place \in Place
  /\ m_AuthCramMd5 \in BOOLEAN /\ m_AuthApop \in BOOLEAN
  /\ m_StartTLS \in BOOLEAN
  /\ m_ChallApop \in {"none", "current", "old"}
  /\ unread \in Counts
  /\ features \in Features
  /\ session \in {"none", "cram", "user", "open"}
  /\ stated \in Mails \cup {None}

\* All types, with a wire and a queue of signals that are sequences.  What is on
\* the wire was sent: only what is read of it can have lost a digit.
Types == SocketOK(Sent) /\ ObjectOK

\* The tokens and the numbers.
LEMMA Tokens ==
  /\ Cuttable(Sent, Token)
  /\ \A n \in Mails : Number(n) \in Sent
  /\ \A w \in {"+OK", "-ERR", "+", "text", "stamp", "challenge", "SASL", "STLS",
               "CRAM-MD5", "."} : Word(w) \in Sent
  /\ \A t \in Token : t[1] = "number" => t[2] \in Counts
  /\ Counts \subseteq Int
  <1>1. /\ \A n \in Mails : Number(n) \in Sent
        /\ \A w \in {"+OK", "-ERR", "+", "text", "stamp", "challenge", "SASL",
                     "STLS", "CRAM-MD5", "."} : Word(w) \in Sent
        /\ Junk \in Sent
        BY DEF Sent
  <1>2. Sent \subseteq Token
    <2>1. \A n \in Mails : Number(n) \in Token
          BY DEF Token
    <2>2. QED
          BY <2>1 DEF Sent, Token
  <1>3. Junk[1] # "number" /\ \A w : Word(w)[1] # "number"
        BY DEF Junk, Word
  <1>4. ASSUME NEW t \in Sent, t[1] = "number"
        PROVE  Number(t[2] \div 10) \in Token
    <2>1. PICK n \in Mails : t = Number(n)
          BY <1>3, <1>4 DEF Sent
    <2>2. t[2] = n
          BY <2>1 DEF Number
    <2>3. QED
          BY <2>2 DEF Token
  <1>5. ASSUME NEW t \in Token, t[1] = "number"
        PROVE  t[2] \in Counts
    <2>1. t \in {Number(n) : n \in UNION {{m, m \div 10} : m \in Mails}}
          BY <1>3, <1>5 DEF Token
    <2>2. PICK n \in UNION {{m, m \div 10} : m \in Mails} : t = Number(n)
          BY <2>1
    <2>3. t[2] = n
          BY <2>2 DEF Number
    <2>4. QED
          BY <2>3 DEF Counts
  <1>6. ASSUME NEW n \in Counts PROVE n \in Int
    <2>1. CASE n \in {-1, 0}
          BY <2>1
    <2>2. CASE \E mails \in Mails : n \in {mails, mails \div 10}
          BY <2>2, Pop3Assumption
    <2>3. QED
          BY <2>1, <2>2 DEF Counts
  <1>7. QED
        BY <1>1, <1>2, <1>4, <1>5, <1>6 DEF Cuttable

\* A line that grants nothing and is no challenge.
Plain(line) == At(line, 1) \notin {Ok, Word("+")}

\* The capabilities are lines of this kind.
LEMMA CapaFacts ==
  /\ CapaLines \in Seq(Seq(Sent))
  /\ Len(CapaLines) \in Nat \ {0}
  /\ \A i \in 1..Len(CapaLines) : Plain(CapaLines[i])
  <1> DEFINE Capability == {line \in Seq(Sent) : Plain(line)}
             sasl == IF "CRAM-MD5" \in features
                     THEN <<<<Word("SASL"), Word("CRAM-MD5")>>>>
                     ELSE IF "SASL" \in features THEN <<<<Word("SASL")>>>>
                     ELSE <<>>
             stls == IF "STLS" \in features THEN <<<<Word("STLS")>>>> ELSE <<>>
             dot == <<<<Word(".")>>>>
  <1>1. /\ <<Word("SASL"), Word("CRAM-MD5")>> \in Capability
        /\ <<Word("SASL")>> \in Capability
        /\ <<Word("STLS")>> \in Capability
        /\ <<Word(".")>> \in Capability
    <2>1. /\ <<Word("SASL"), Word("CRAM-MD5")>> \in Seq(Sent)
          /\ <<Word("SASL")>> \in Seq(Sent)
          /\ <<Word("STLS")>> \in Seq(Sent)
          /\ <<Word(".")>> \in Seq(Sent)
          BY Tokens
    <2>2. /\ Plain(<<Word("SASL"), Word("CRAM-MD5")>>)
          /\ Plain(<<Word("SASL")>>)
          /\ Plain(<<Word("STLS")>>)
          /\ Plain(<<Word(".")>>)
          BY DEF Plain, At, Ok, Word
    <2>3. QED
          BY <2>1, <2>2
  <1>2. CapaLines = (sasl \o stls) \o dot
        BY DEF CapaLines
  <1> HIDE DEF Capability
  <1>3. /\ sasl \in Seq(Capability) /\ stls \in Seq(Capability)
        /\ dot \in Seq(Capability) /\ Len(dot) = 1
        BY <1>1
  <1> HIDE DEF sasl, stls, dot
  <1>4. /\ sasl \o stls \in Seq(Capability)
        /\ (sasl \o stls) \o dot \in Seq(Capability)
        BY <1>3, ConcatProperties
  <1>5. Len((sasl \o stls) \o dot) = Len(sasl \o stls) + Len(dot)
        BY <1>3, <1>4, ConcatProperties
  <1>6. Len(sasl \o stls) \in Nat
        BY <1>4, LenProperties
  <1>7. Len(CapaLines) \in Nat \ {0}
        BY <1>2, <1>3, <1>5, <1>6
  <1>8. CapaLines \in Seq(Capability)
        BY <1>2, <1>4
  <1>9. \A i \in 1..Len(CapaLines) : CapaLines[i] \in Capability
        BY <1>8, ElementOfSeq
  <1>10. Capability \subseteq Seq(Sent)
         BY DEF Capability
  <1>11. CapaLines \in Seq(Seq(Sent))
         BY <1>8, <1>10, SeqMonotonic
  <1>12. QED
         BY <1>7, <1>9, <1>11 DEF Capability

\* The lines of the server.
LEMMA Lines ==
  /\ \A lines \in Greetings : lines \in Seq(Seq(Sent)) /\ Len(lines) <= 1
  /\ <<<<Err, Text>>>> \in Seq(Seq(Sent)) /\ <<Err, Text>> \in Seq(Sent)
  /\ \A cmd, mails : mails \in Mails => Granted(cmd, mails) \in Seq(Seq(Sent))
  <1>1. \A w \in {"+OK", "-ERR", "+", "text", "stamp", "challenge"} :
          Word(w) \in Sent
        BY Tokens
  <1>2. ASSUME NEW lines \in Greetings
        PROVE  lines \in Seq(Seq(Sent)) /\ Len(lines) <= 1
    <2>1. /\ <<Ok, Word("stamp")>> \in Seq(Sent) /\ <<Ok, Text>> \in Seq(Sent)
          /\ <<Ok>> \in Seq(Sent) /\ <<Err, Text>> \in Seq(Sent)
          BY <1>1 DEF Ok, Err, Text
    <2>2. \/ \E line \in Seq(Sent) : lines = <<line>>
          \/ lines = <<>>
          BY <2>1 DEF Greetings
    <2>3. CASE lines = <<>>
          BY <2>3, EmptySeq
    <2>4. ASSUME NEW line \in Seq(Sent), lines = <<line>>
          PROVE  lines \in Seq(Seq(Sent)) /\ Len(lines) <= 1
          BY <2>4
    <2>5. QED
          BY <2>2, <2>3, <2>4
  <1>3. <<Err, Text>> \in Seq(Sent)
        BY <1>1 DEF Err, Text
  <1>4. ASSUME NEW cmd, NEW mails \in Mails
        PROVE  Granted(cmd, mails) \in Seq(Seq(Sent))
    <2>1. /\ <<Ok, Text>> \in Seq(Sent)
          /\ <<Word("+"), Word("challenge")>> \in Seq(Sent)
          BY <1>1 DEF Ok, Text
    <2>2. <<Ok, Number(mails)>> \in Seq(Sent)
      <3>1. Number(mails) \in Sent /\ Ok \in Sent
            BY <1>1, Tokens DEF Ok
      <3>2. QED
            BY <3>1
    <2>3. <<<<Ok, Text>>>> \in Seq(Seq(Sent))
          BY <2>1
    <2>4. <<<<Ok, Text>>>> \o CapaLines \in Seq(Seq(Sent))
          BY <2>3, CapaFacts, ConcatProperties
    <2>5. QED
          BY <2>1, <2>2, <2>3, <2>4 DEF Granted
  <1>5. QED
        BY <1>2, <1>3, <1>4

\* What an answer adds to the wire and does at the server: nothing, or the end
\* of a connection; a refusal; or what grants the command.
Adds(lines, cmd) ==
  \/ lines = <<>> /\ UNCHANGED <<session, stated>> /\ peer' \in {peer, "gone"}
  \/ /\ Understood
     /\ lines = <<<<Err, Text>>>>
     /\ session' = IF session \in {"cram", "user"} THEN "none" ELSE session
     /\ UNCHANGED <<peer, stated>>
  \/ /\ Understood /\ Grantable(cmd)
     /\ \E mails \in Mails :
          /\ lines = Granted(cmd, mails)
          /\ stated' = IF cmd = "STAT" THEN mails ELSE stated
     /\ peer' = IF cmd = "STLS" THEN "tls" ELSE peer
     /\ session' = CASE cmd = "AUTH" -> "cram"
                     [] cmd = "USER" -> "user"
                     [] cmd \in {"RESPONSE", "APOP", "PASS"} -> "open"
                     [] OTHER -> session

\* Whatever the server answers, it adds lines to the wire, and keeps the types.
LEMMA AnswersFacts ==
  ASSUME Types, NEW cmd, Answers(cmd)
  PROVE  /\ \E lines \in Seq(Seq(Sent)) :
              wire' = wire \o lines /\ Adds(lines, cmd)
         /\ wire' \in Seq(Seq(Sent))
         /\ peer' \in {"none", "plain", "tls", "gone"}
         /\ session' \in {"none", "cram", "user", "open"}
         /\ stated' \in Mails \cup {None}
  <1>1. /\ wire \in Seq(Seq(Sent))
        /\ peer \in {"none", "plain", "tls", "gone"}
        /\ session \in {"none", "cram", "user", "open"}
        /\ stated \in Mails \cup {None}
        BY DEF Types, SocketOK, ConnectionOK, ObjectOK
  <1>2. \E lines \in Seq(Seq(Sent)) : wire' = wire \o lines /\ Adds(lines, cmd)
    <2>1. CASE Understood /\ Grants(cmd)
      <3>1. PICK mails \in Mails :
              /\ stated' = IF cmd = "STAT" THEN mails ELSE stated
              /\ wire' = wire \o Granted(cmd, mails)
            BY <2>1 DEF Grants
      <3>2. Granted(cmd, mails) \in Seq(Seq(Sent))
            BY Lines
      <3>3. Adds(Granted(cmd, mails), cmd)
            BY <2>1, <3>1 DEF Grants, Adds
      <3>4. QED
            BY <3>1, <3>2, <3>3
    <2>2. CASE Understood /\ Refuses(cmd)
      <3>1. <<<<Err, Text>>>> \in Seq(Seq(Sent)) /\ <<Err, Text>> \in Seq(Sent)
            BY Lines
      <3>2. Append(wire, <<Err, Text>>) = wire \o <<<<Err, Text>>>>
            BY <1>1, <3>1, AppendIsConcat
      <3>3. QED
            BY <2>2, <3>1, <3>2 DEF Refuses, Adds
    <2>3. CASE UNCHANGED <<wire, session, stated>> /\ peer' \in {peer, "gone"}
      <3>1. <<>> \in Seq(Seq(Sent)) /\ wire \o <<>> = wire
            BY <1>1, EmptySeq, ConcatEmptySeq
      <3>2. QED
            BY <2>3, <3>1 DEF Adds
    <2>4. QED
          BY <2>1, <2>2, <2>3 DEF Answers
  <1>3. wire' \in Seq(Seq(Sent))
        BY <1>1, <1>2, ConcatProperties
  <1>4. /\ peer' \in {peer, "gone", "tls"}
        /\ session' \in {session, "none", "cram", "user", "open"}
        BY DEF Answers, Grants, Refuses
  <1>5. stated' \in Mails \cup {None}
        BY <1>1, <1>2 DEF Adds
  <1>6. QED
        BY <1>1, <1>2, <1>3, <1>4, <1>5

\* A command: it is written, and the answer is added to the wire, or it is not.
LEMMA CommandFacts ==
  ASSUME Types, NEW cmd \in Commands, NEW wait \in Place, Write(cmd, wait)
  PROVE  /\ SocketOK(Sent)' /\ place = cmd /\ place' \in Place
         /\ UNCHANGED <<flags, features, secure, cut>>
         /\ session' \in {"none", "cram", "user", "open"}
         /\ stated' \in Mails \cup {None}
         /\ \/ /\ place' = Unwritten(cmd).next
               /\ UNCHANGED <<connection, session, stated>>
            \/ /\ place' = wait
               /\ \E lines \in Seq(Seq(Sent)) :
                    wire' = wire \o lines /\ Adds(lines, cmd)
  <1>1. place = cmd /\ UNCHANGED <<flags, features>>
        BY DEF Write, Doing
  <1>2. CASE m_Socket = "connected"
    <2>1. /\ Answers(cmd) /\ Go(wait, 0)
          /\ UNCHANGED <<m_Socket, secure, cut>>
          BY <1>2 DEF Write
    <2>2. ConnectionOK(Sent)'
          BY <2>1, AnswersFacts DEF ConnectionOK, Types, SocketOK
    <2>3. SocketOK(Sent)' /\ place' = wait
          BY <2>1, <2>2, GoType DEF Types, Go
    <2>4. QED
          BY <1>1, <2>1, <2>3, AnswersFacts
  <1>3. CASE m_Socket # "connected"
    <2>1. /\ UNCHANGED <<connection, session, stated>>
          /\ Go(Unwritten(cmd).next, Unwritten(cmd).errs)
          BY <1>3 DEF Write
    <2>2. Unwritten(cmd).errs \in 0..3 /\ Unwritten(cmd).next \in Place
          BY DEF Unwritten, Commands, Place, OnFailure
    <2>3. ConnectionOK(Sent)'
          BY <2>1 DEF connection, ConnectionOK, Types, SocketOK
    <2>4. SocketOK(Sent)' /\ place' = Unwritten(cmd).next
          BY <2>1, <2>2, <2>3, GoType DEF Types, Go
    <2>5. QED
          BY <1>1, <2>1, <2>2, <2>4 DEF connection, Types, ObjectOK
  <1>4. QED
        BY <1>2, <1>3

\* A line is read, and doWork goes on.
LEMMA ReadType ==
  ASSUME Types, NEW line \in Readable, ReadLine(line),
         NEW p, NEW n \in 0..3, Go(p, n)
  PROVE  /\ SocketOK(Sent)' /\ place' = p
         /\ \A i \in Nat \ {0} : At(line, i) \in Token
  <1>1. Junk \in Sent /\ Junk \in Token /\ wire \in Seq(Seq(Sent))
        BY Tokens DEF Cuttable, Types, SocketOK, ConnectionOK
  <1>2. line \in Seq(Token)
        BY <1>1, Tokens, ReadableType
  <1>3. ConnectionOK(Sent)'
        BY <1>1, ReadLineType DEF Types, SocketOK
  <1>4. SocketOK(Sent)'
        BY <1>3, GoType DEF Types
  <1>5. QED
        BY <1>1, <1>2, <1>4, AtType DEF Go

\* The places of the dialogue.
LEMMA Places ==
  /\ Commands \subseteq Place
  /\ {"idle", "connect", "greeting", "capabilities", "CAPA?", "STLS?", "AUTH?",
      "RESPONSE?", "APOP?", "USER?", "PASS?", "STAT?", "result", "end", "close",
      "abandon", "dead"} \subseteq Place
  BY DEF Commands, Place, OnFailure

\* The flags, on which the places after a failure depend, do not change the places.
LEMMA PlaceConstant == Place' = Place
  BY DEF Place, OnFailure

\* A step that changes none of the object's variables but the place.
LEMMA PlaceTypes ==
  ASSUME Types, SocketOK(Sent)', place' \in Place,
         UNCHANGED <<flags, unread, server>>
  PROVE  Types'
  <1>1. UNCHANGED <<m_AuthCramMd5, m_AuthApop, m_StartTLS, m_ChallApop, unread,
                    features, session, stated>>
        BY DEF flags, server
  <1>2. ObjectOK'
        BY <1>1, PlaceConstant DEF Types, ObjectOK
  <1>3. QED
        BY <1>2 DEF Types

\* A wait for an answer to which doWork reacts with its next place only.
LEMMA AnsweredTypes ==
  ASSUME Types, NEW p, NEW yes \in Place, NEW no \in Place, NEW n \in {0, 1},
         Answered(p, yes, no, n)
  PROVE  Types'
  <1>1. PICK line \in Readable :
          /\ ReadLine(line)
          /\ \E next \in {yes, no}, k \in 0..3 : Go(next, k)
        BY DEF Answered, Unexpected
  <1>2. SocketOK(Sent)' /\ place' \in Place
        BY <1>1, ReadType
  <1>3. QED
        BY <1>2, PlaceTypes DEF Answered

\* The connection and the greeting keep the types.
LEMMA GreetingTypes ==
  ASSUME Types, ConnectToHost \/ StartProtocol
  PROVE  Types'
  <1>1. CASE ConnectToHost
    <2>1. SocketOK(Sent)'
          BY <1>1, Lines, ConnectType, UnconnectedType DEF ConnectToHost, Types
    <2>2. /\ place' \in {"greeting", "abandon"}
          /\ UNCHANGED <<m_AuthCramMd5, m_AuthApop, m_StartTLS, unread, features,
                         stated>>
          /\ session' \in {session, "none"}
          /\ m_ChallApop' \in {m_ChallApop, "old"}
          BY <1>1 DEF ConnectToHost, Connect, ConnectFails, HandshakeTimesOut,
             EncryptedAlready, Go, server, flags
    <2>3. ObjectOK'
          BY <2>2, Places, PlaceConstant DEF Types, ObjectOK
    <2>4. QED
          BY <2>1, <2>3 DEF Types
  <1>2. CASE StartProtocol
    <2>1. PICK line \in Readable :
            /\ ReadLine(line)
            /\ \E p \in {AfterTls, "CAPA", "abandon"}, n \in {0, 1} : Go(p, n)
            /\ m_AuthApop' \in {TRUE, m_AuthApop}
            /\ m_ChallApop' \in {"current", m_ChallApop}
          BY <1>2 DEF StartProtocol, Unexpected
    <2>2. SocketOK(Sent)' /\ place' \in {AfterTls, "CAPA", "abandon"}
          BY <2>1, ReadType
    <2>3. UNCHANGED <<m_AuthCramMd5, m_StartTLS, unread, features, session,
                      stated>>
          BY <1>2 DEF StartProtocol, server
    <2>4. place' \in Place
          BY <2>2, AfterFacts, Places DEF Commands
    <2>5. m_AuthApop' \in BOOLEAN
          BY <2>1 DEF Types, ObjectOK
    <2>6. ObjectOK'
          BY <2>1, <2>3, <2>4, <2>5, PlaceConstant DEF Types, ObjectOK
    <2>7. QED
          BY <2>2, <2>6 DEF Types
  <1>3. QED
        BY <1>1, <1>2

\* A command keeps them, whichever it is.
LEMMA CommandTypes ==
  ASSUME Types, NEW cmd \in Commands, NEW wait \in Place, Write(cmd, wait),
         unread' \in Counts
  PROVE  Types'
  <1>1. /\ SocketOK(Sent)' /\ place' \in Place
        /\ session' \in {"none", "cram", "user", "open"}
        /\ stated' \in Mails \cup {None}
        /\ UNCHANGED <<m_AuthCramMd5, m_AuthApop, m_StartTLS, m_ChallApop,
                       features>>
        BY CommandFacts DEF flags
  <1>2. ObjectOK'
        BY <1>1, PlaceConstant DEF Types, ObjectOK
  <1>3. QED
        BY <1>1, <1>2 DEF Types

\* readCapa finds no line, or reads one, and goes on.
LEMMA ReadCapaFacts ==
  ASSUME ReadCapa
  PROVE  /\ place = "capabilities"
         /\ \/ UNCHANGED connection /\ Go(AfterCapa, 0)
            \/ /\ \E line \in Readable : ReadLine(line)
               /\ Go(AfterCapa, 0) \/ Go("capabilities", 0)
         /\ UNCHANGED <<m_AuthApop, m_ChallApop, unread, features, session,
                        stated>>
  BY DEF ReadCapa, Doing, server

\* What it finds out is a Boolean.
LEMMA ReadCapaFlags ==
  ASSUME Types, ReadCapa
  PROVE  m_AuthCramMd5' \in BOOLEAN /\ m_StartTLS' \in BOOLEAN
  <1>1. m_AuthCramMd5 \in BOOLEAN /\ m_StartTLS \in BOOLEAN
        BY DEF Types, ObjectOK
  <1>2. ASSUME NEW word, NEW words PROVE (word \in words) \in BOOLEAN
        OBVIOUS
  <1>3. \/ m_AuthCramMd5' = m_AuthCramMd5
        \/ \E words : m_AuthCramMd5' = (Word("CRAM-MD5") \in words)
        BY DEF ReadCapa
  <1>4. \/ m_StartTLS' = m_StartTLS
        \/ \E word : m_StartTLS' = (m_StartTLS \/ word = Word("STLS"))
        BY DEF ReadCapa
  <1>5. m_AuthCramMd5' \in BOOLEAN
    <2>1. CASE \E words : m_AuthCramMd5' = (Word("CRAM-MD5") \in words)
      <3>1. PICK words : m_AuthCramMd5' = (Word("CRAM-MD5") \in words)
            BY <2>1
      <3>2. (Word("CRAM-MD5") \in words) \in BOOLEAN
            BY <1>2, Zenon
      <3>3. QED
            BY <3>1, <3>2, Zenon
    <2>2. QED
          BY <1>1, <1>3, <2>1, Zenon
  <1>6. m_StartTLS' \in BOOLEAN
    <2>1. ASSUME NEW word PROVE (m_StartTLS \/ word = Word("STLS")) \in BOOLEAN
          OBVIOUS
    <2>2. CASE \E word : m_StartTLS' = (m_StartTLS \/ word = Word("STLS"))
      <3>1. PICK word : m_StartTLS' = (m_StartTLS \/ word = Word("STLS"))
            BY <2>2
      <3>2. QED
            BY <2>1, <3>1, Zenon
    <2>3. QED
          BY <1>1, <1>4, <2>2, Zenon
  <1>7. QED
        BY <1>5, <1>6

\* It keeps the types.
LEMMA ReadCapaTypes ==
  ASSUME Types, ReadCapa
  PROVE  Types'
  <1>1. SocketOK(Sent)' /\ place' \in {"capabilities", AfterCapa}
    <2>1. CASE UNCHANGED connection /\ Go(AfterCapa, 0)
      <3>1. ConnectionOK(Sent)'
            BY <2>1 DEF Types, SocketOK, ConnectionOK, connection
      <3>2. QED
            BY <2>1, <3>1, GoType DEF Types, Go
    <2>2. ASSUME NEW line \in Readable, ReadLine(line),
                 NEW p \in {"capabilities", AfterCapa}, Go(p, 0)
          PROVE  SocketOK(Sent)' /\ place' = p
          BY <2>2, ReadType
    <2>3. QED
          BY <2>1, <2>2, ReadCapaFacts DEF Go
  <1>2. place' \in Place
        BY <1>1, AfterFacts, Places DEF Commands
  <1>3. ObjectOK'
        BY <1>2, ReadCapaFacts, ReadCapaFlags, PlaceConstant DEF Types, ObjectOK
  <1>4. QED
        BY <1>1, <1>3 DEF Types

\* login and its helpers keep them.
LEMMA LoginTypes ==
  ASSUME Types, Capa \/ StartTLS \/ CramMd5 \/ Apop \/ UserPass
  PROVE  Types'
  <1>1. {AfterCapa, AfterTls, AfterCram} \subseteq Place
        BY AfterFacts, Places DEF Commands
  <1>2. unread \in Counts
        BY DEF Types, ObjectOK
  <1>3. CASE Capa
    <2>1. CASE Write("CAPA", "CAPA?") /\ UNCHANGED unread
          BY <1>2, <2>1, Places, CommandTypes DEF Commands
    <2>2. CASE Answered("CAPA?", "capabilities", AfterCapa, 0)
          BY <1>1, <2>2, Places, AnsweredTypes
    <2>3. CASE ReadCapa
          BY <2>3, ReadCapaTypes
    <2>4. QED
          BY <1>3, <2>1, <2>2, <2>3 DEF Capa
  <1>4. CASE StartTLS
    <2>1. CASE Write("STLS", "STLS?") /\ UNCHANGED unread
          BY <1>2, <2>1, Places, CommandTypes DEF Commands
    <2>2. CASE ~Write("STLS", "STLS?")
      <3>1. UNCHANGED <<flags, unread, server>>
            BY <1>4, <2>2 DEF StartTLS
      <3>2. PICK line \in Readable :
              \/ /\ StartClientEncryption(Tail(wire)) /\ Go(AfterTls, 0)
                 /\ UNCHANGED <<m_Socket, cut>>
              \/ ReadLine(line) /\ Go(AfterTls, Unexpected(line))
            BY <1>4, <2>2 DEF StartTLS
      <3>3. CASE /\ StartClientEncryption(Tail(wire)) /\ Go(AfterTls, 0)
                 /\ UNCHANGED <<m_Socket, cut>>
        <4>1. /\ wire' = <<>> /\ secure' = TRUE /\ peer' \in {peer, "gone"}
              /\ UNCHANGED <<m_Socket, cut>>
              BY <3>3 DEF StartClientEncryption
        <4>2. ConnectionOK(Sent)'
              BY <4>1, EmptySeq DEF Types, SocketOK, ConnectionOK
        <4>3. SocketOK(Sent)' /\ place' = AfterTls
              BY <3>3, <4>2, GoType DEF Types, Go
        <4>4. QED
              BY <1>1, <3>1, <4>3, PlaceTypes
      <3>4. CASE ReadLine(line) /\ Go(AfterTls, Unexpected(line))
        <4>1. Unexpected(line) \in 0..3
              BY DEF Unexpected
        <4>2. SocketOK(Sent)' /\ place' = AfterTls
              BY <3>4, <4>1, ReadType
        <4>3. QED
              BY <1>1, <3>1, <4>2, PlaceTypes
      <3>5. QED
            BY <3>2, <3>3, <3>4
    <2>3. QED
          BY <1>4, <2>1, <2>2 DEF StartTLS
  <1>5. CASE CramMd5
    <2>1. CASE /\ Write("AUTH", "AUTH?") \/ Write("RESPONSE", "RESPONSE?")
               /\ UNCHANGED unread
          BY <1>2, <2>1, Places, CommandTypes DEF Commands
    <2>2. CASE Answered("RESPONSE?", "STAT", AfterCram, 0)
          BY <1>1, <2>2, Places, AnsweredTypes DEF Commands
    <2>3. CASE /\ \E line \in Readable :
                    /\ ReadLine(line)
                    /\ IF At(line, 1) = Word("+") THEN Go("RESPONSE", 0)
                       ELSE Go(AfterCram, 1)
               /\ UNCHANGED <<flags, unread, server>>
      <3>1. PICK line \in Readable :
              /\ ReadLine(line)
              /\ \E p \in {"RESPONSE", AfterCram}, n \in {0, 1} : Go(p, n)
            BY <2>3
      <3>2. SocketOK(Sent)' /\ place' \in {"RESPONSE", AfterCram}
            BY <3>1, ReadType
      <3>3. place' \in Place
            BY <1>1, <3>2, Places DEF Commands
      <3>4. QED
            BY <2>3, <3>2, <3>3, PlaceTypes
    <2>4. QED
          BY <1>5, <2>1, <2>2, <2>3 DEF CramMd5
  <1>6. CASE Apop
    <2>1. CASE Write("APOP", "APOP?") /\ UNCHANGED unread
          BY <1>2, <2>1, Places, CommandTypes DEF Commands
    <2>2. CASE Answered("APOP?", "STAT", "USER", 0)
          BY <2>2, Places, AnsweredTypes DEF Commands
    <2>3. QED
          BY <1>6, <2>1, <2>2 DEF Apop
  <1>7. CASE UserPass
    <2>1. CASE /\ Write("USER", "USER?") \/ Write("PASS", "PASS?")
               /\ UNCHANGED unread
          BY <1>2, <2>1, Places, CommandTypes DEF Commands
    <2>2. CASE \/ Answered("USER?", "PASS", "end", 1)
               \/ Answered("PASS?", "STAT", "end", 1)
          BY <2>2, Places, AnsweredTypes DEF Commands
    <2>3. QED
          BY <1>7, <2>1, <2>2 DEF UserPass
  <1>8. QED
        BY <1>3, <1>4, <1>5, <1>6, <1>7

\* getMail keeps them: the number that it reads may have lost its last digit.
LEMMA GetMailTypes ==
  ASSUME Types, GetMail
  PROVE  Types'
  <1>1. -1 \in Counts /\ 0 \in Counts
        BY DEF Counts
  <1>2. CASE Write("STAT", "STAT?") /\ unread' = -1
        BY <1>1, <1>2, Places, CommandTypes DEF Commands
  <1>3. CASE ~(Write("STAT", "STAT?") /\ unread' = -1)
    <2>1. PICK line \in Readable :
            /\ ReadLine(line)
            /\ \E p \in {"result", "end"}, n \in {0, 1} : Go(p, n)
            /\ \/ unread' \in {unread, 0}
               \/ At(line, 2)[1] = "number" /\ unread' = At(line, 2)[2]
          BY <1>3 DEF GetMail, Unexpected
    <2>2. /\ SocketOK(Sent)' /\ place' \in {"result", "end"}
          /\ At(line, 2) \in Token
          BY <2>1, ReadType
    <2>3. unread' \in Counts
          BY <1>1, <2>1, <2>2, Tokens DEF Types, ObjectOK
    <2>4. UNCHANGED <<m_AuthCramMd5, m_AuthApop, m_StartTLS, m_ChallApop,
                      features, session, stated>>
          BY <1>3 DEF GetMail, flags, server
    <2>5. ObjectOK'
          BY <2>2, <2>3, <2>4, Places, PlaceConstant DEF Types, ObjectOK
    <2>6. QED
          BY <2>2, <2>5 DEF Types
  <1>4. QED
        BY <1>2, <1>3

\* So does end, and what comes after a line that is not there or too short.
LEMMA EndTypes ==
  ASSUME Types, End \/ ReadsBeyond \/ ReadFails
  PROVE  Types'
  <1>1. CASE End
    <2>1. /\ Go("close", 0) /\ unread' = -1
          /\ peer' \in {peer, "gone"}
          /\ UNCHANGED <<m_Socket, secure, wire, cut, flags, server>>
          BY <1>1 DEF End
    <2>2. ConnectionOK(Sent)'
          BY <2>1 DEF ConnectionOK, Types, SocketOK
    <2>3. SocketOK(Sent)' /\ place' = "close"
          BY <2>1, <2>2, GoType DEF Types, Go
    <2>4. unread' \in Counts
          BY <2>1 DEF Counts
    <2>5. ObjectOK'
          BY <2>1, <2>3, <2>4, Places, PlaceConstant
          DEF Types, ObjectOK, flags, server
    <2>6. QED
          BY <2>3, <2>5 DEF Types
  <1>2. CASE ReadsBeyond
    <2>1. /\ \E line \in Readable : ReadLine(line)
          /\ Go("dead", 0)
          /\ UNCHANGED <<flags, unread, server>>
          BY <1>2 DEF ReadsBeyond
    <2>2. SocketOK(Sent)' /\ place' = "dead"
          BY <2>1, ReadType
    <2>3. QED
          BY <2>1, <2>2, Places, PlaceTypes
  <1>3. CASE ReadFails
    <2>1. /\ OnFailure[place].next \in Commands \cup {"abandon", "end"}
          /\ OnFailure[place].errs \in 0..3
          BY <1>3, OnFailureFacts DEF ReadFails, Commands
    <2>2. ConnectionOK(Sent)'
          BY <1>3, NoLineType DEF ReadFails, Types, SocketOK
    <2>3. /\ Go(OnFailure[place].next, OnFailure[place].errs)
          /\ UNCHANGED <<flags, unread, server>>
          BY <1>3 DEF ReadFails
    <2>4. SocketOK(Sent)' /\ place' = OnFailure[place].next
          BY <2>1, <2>2, <2>3, GoType DEF Types, Go
    <2>5. QED
          BY <2>1, <2>3, <2>4, Places, PlaceTypes
  <1>4. QED
        BY <1>1, <1>2, <1>3

\* Before the first call all types are right.
LEMMA InitTypes == Init => Types
  <1>1. Init => SocketOK(Sent)
        BY SocketInitType DEF Init
  <1>2. Init => ObjectOK
    <2>1. -1 \in Counts /\ "idle" \in Place
          BY Places DEF Counts
    <2>2. QED
          BY <2>1 DEF Init, SocketInit, ObjectOK
  <1>3. QED
        BY <1>1, <1>2 DEF Types

\* No step breaks a type.
LEMMA NextTypes == Types /\ [Next]_vars => Types'
  <1>1. SUFFICES ASSUME Types, [Next]_vars PROVE Types'
        OBVIOUS
  <1>2. CASE Dialogue \/ ConnectToHost
        BY <1>1, <1>2, GreetingTypes, LoginTypes, GetMailTypes, EndTypes
        DEF Dialogue
  <1>3. CASE (SetError \/ BeginWork \/ Called \/ GuiTakes \/ PeerCloses
                \/ NoticeClose) /\ UNCHANGED <<flags, unread, server>>
    <2>1. SocketOK(Sent)'
          BY <1>1, <1>3, FrameStepType DEF Types
    <2>2. place' \in {place, "connect"}
          BY <1>3 DEF SetError, BeginWork, Called, GuiTakes, PeerCloses,
             NoticeClose
    <2>3. place' \in Place
          BY <1>1, <2>2, Places DEF Types, ObjectOK
    <2>4. QED
          BY <1>1, <1>3, <2>1, <2>3, PlaceTypes
  <1>4. CASE Return /\ Over
    <2>1. SocketOK(Sent)' /\ place' = "idle"
          BY <1>1, <1>4, FrameStepType DEF Types, Return
    <2>2. /\ session' \in {session, "none"} /\ stated' = None
          /\ UNCHANGED <<flags, unread, features>>
          BY <1>4 DEF Over
    <2>3. ObjectOK'
          BY <1>1, <2>1, <2>2, Places, PlaceConstant DEF Types, ObjectOK, flags
    <2>4. QED
          BY <2>1, <2>3 DEF Types
  <1>5. CASE Result
    <2>1. unread \in Int
          BY <1>1, Tokens DEF Types, ObjectOK
    <2>2. SocketOK(Sent)' /\ place' = "end"
          BY <1>1, <1>5, <2>1, ResultType DEF Result, ResultReady, Types
    <2>3. QED
          BY <1>1, <1>5, <2>2, Places, PlaceTypes DEF Result
  <1>6. CASE FeaturesChange \/ UNCHANGED vars
    <2>1. /\ UNCHANGED <<socketVars, flags, unread, session, stated>>
          /\ features' \in Features \cup {features}
          BY <1>6 DEF FeaturesChange, vars, server
    <2>2. SocketOK(Sent)' /\ place' = place
          BY <1>1, <2>1 DEF Types, SocketOK, ConnectionOK, FrameOK, socketVars,
             connection, frame
    <2>3. ObjectOK'
          BY <1>1, <2>1, <2>2, PlaceConstant DEF Types, ObjectOK, flags
    <2>4. QED
          BY <2>2, <2>3 DEF Types
  <1>7. QED
        BY <1>1, <1>2, <1>3, <1>4, <1>5, <1>6 DEF Next, Client, Dialogue

\* All types are right in every state.
LEMMA TypesHold == Spec => []Types
  BY InitTypes, NextTypes, PTL DEF Spec

\* What doWork reads and keeps has the types that the code takes it to have:
\* among them the number that getMail converts, and the places at which a failed
\* login helper lets doWork go on.
THEOREM Pop3Types == Spec => []TypeOK
  <1>1. Types => TypeOK
    <2>1. SUFFICES ASSUME Types PROVE TypeOK
          OBVIOUS
    <2>2. SocketTypeOK(Token)
          BY <2>1, Tokens, SocketTypes DEF Types, Cuttable
    <2>3. \A f \in {m_AuthCramMd5, m_AuthApop, m_StartTLS} : f \in BOOLEAN
          BY <2>1, Zenon DEF Types, ObjectOK
    <2>4. QED
          BY <2>1, <2>2, <2>3 DEF Types, ObjectOK, TypeOK
  <1>2. QED
        BY <1>1, TypesHold, PTL

-----------------------------------------------------------------------------
(* The answers.                                                            *)

\* A line that lets login go on, and one that is taken for a challenge.
OkLine(line) == At(line, 1) = Ok
Challenge(line) == At(line, 1) = Word("+")

\* No line that lets login go on is followed by another: each that is read late
\* stands for a command that was refused or is the answer to the last one.
Spread == \A i \in 1..Len(wire) - 1 : ~(OkLine(wire[i]) /\ OkLine(wire[i + 1]))

NoChallenge == \A i \in 1..Len(wire) : ~Challenge(wire[i])

StartsOk == wire # <<>> /\ OkLine(wire[1])
EndsOk == wire # <<>> /\ OkLine(wire[Len(wire)])

\* No login can succeed any more: the client is logged in, whether it has read so
\* or not, or the server and it do not understand each other.
Spent == session = "open" \/ ~Understood

\* The places of login, but for PASS.
Trying == {"CAPA?", "capabilities", "STLS", "STLS?", "AUTH", "AUTH?",
           "RESPONSE?", "APOP", "APOP?", "USER"}

\* The answers to the commands of login: those that come late are read in the
\* place of later ones, but two +OK are never read in a row, so that the second
\* of USER and PASS fails, and after a login with +OK no +OK is left that STAT
\* could take for its answer.
LoginAnswers ==
  /\ place \in Before => Len(wire) <= 1
  /\ place \in {"CAPA", "RESPONSE"} => wire = <<>>
  /\ place \in Trying => Spread /\ (EndsOk => Spent)
  /\ place \in {"CAPA?", "capabilities", "STLS"} => ~EndsOk
  /\ place \in {"CAPA?", "capabilities", "STLS", "STLS?", "AUTH"} => NoChallenge
  /\ place = "AUTH?" => \A i \in 1..Len(wire) - 1 : ~Challenge(wire[i])
  /\ place = "RESPONSE?" => Len(wire) <= 1
  /\ place = "USER?" => Spread
  /\ place \in {"PASS", "STAT"} => ~StartsOk
  /\ place = "PASS?" => ~StartsOk \/ Len(wire) <= 1

\* The answer to STAT, and what getMail has made of it.
MailAnswers ==
  /\ place = "STAT?" => ~StartsOk \/ wire = <<<<Ok, Number(stated)>>>>
  /\ place = "result" => unread = stated

\* The answers are as they should be unless a line was cut.
AnswersOK == ~cut => LoginAnswers /\ MailAnswers

\* The places that AnswersOK says nothing of.
LEMMA ElsewhereFacts ==
  ASSUME place' \in {"end", "close", "dead"}
  PROVE  AnswersOK'
  BY DEF AnswersOK, LoginAnswers, MailAnswers, Before, Trying

\* The wire and its length.
LEMMA WireFacts ==
  ASSUME Types
  PROVE  /\ wire \in Seq(Seq(Sent)) /\ Len(wire) \in Nat
         /\ wire = <<>> <=> Len(wire) = 0
  <1>1. wire \in Seq(Seq(Sent))
        BY DEF Types, SocketOK, ConnectionOK
  <1>2. QED
        BY <1>1, LenProperties, EmptySeq

\* A line is read whole: the facts about the wire that is left.
LEMMA ReadFacts ==
  ASSUME Types, NEW line, ReadLine(line), ~cut'
  PROVE  /\ ~cut /\ wire # <<>> /\ line = wire[1]
         /\ UNCHANGED <<secure, peer>>
         /\ Len(wire) \in Nat \ {0} /\ Len(wire') = Len(wire) - 1
         /\ \A i \in 1..Len(wire') : wire'[i] = wire[i + 1]
         /\ Len(wire) = 1 => wire' = <<>>
  <1>1. wire \in Seq(Seq(Sent))
        BY WireFacts
  <1>2. /\ ~cut /\ wire # <<>> /\ line = Head(wire) /\ wire' = Tail(wire)
        /\ UNCHANGED <<secure, peer>>
        BY ReadLineWhole
  <1>3. QED
        BY <1>1, <1>2, TailFacts

\* What is left of the wire when n lines are read.
LEMMA SuffixFacts ==
  ASSUME Types, Types', NEW n \in 0..Len(wire), Len(wire') = Len(wire) - n,
         \A i \in 1..Len(wire') : wire'[i] = wire[i + n]
  PROVE  /\ Spread => Spread'
         /\ EndsOk' => EndsOk
         /\ NoChallenge => NoChallenge'
  <1> DEFINE k == Len(wire)
             l == Len(wire')
  <1>1. /\ k \in Nat /\ (wire = <<>> <=> k = 0)
        /\ l \in Nat /\ (wire' = <<>> <=> l = 0)
    <2>1. k \in Nat /\ (wire = <<>> <=> k = 0)
          BY WireFacts
    <2>2. wire' \in Seq(Seq(Sent))
          BY DEF Types, SocketOK, ConnectionOK
    <2>3. l \in Nat /\ (wire' = <<>> <=> l = 0)
          BY <2>2, LenProperties, EmptySeq
    <2>4. QED
          BY <2>1, <2>3
  <1>2. l = k - n /\ n \in 0..k /\ \A i \in 1..l : wire'[i] = wire[i + n]
        OBVIOUS
  <1>3. /\ Spread <=> \A i \in 1..k - 1 :
                        ~(OkLine(wire[i]) /\ OkLine(wire[i + 1]))
        /\ Spread' <=> \A i \in 1..l - 1 :
                         ~(OkLine(wire'[i]) /\ OkLine(wire'[i + 1]))
        /\ EndsOk <=> wire # <<>> /\ OkLine(wire[k])
        /\ EndsOk' <=> wire' # <<>> /\ OkLine(wire'[l])
        /\ NoChallenge <=> \A i \in 1..k : ~Challenge(wire[i])
        /\ NoChallenge' <=> \A i \in 1..l : ~Challenge(wire'[i])
        BY DEF Spread, EndsOk, OkLine, NoChallenge, Challenge
  <1> HIDE DEF k, l
  <1>4. ASSUME Spread PROVE Spread'
    <2>1. SUFFICES ASSUME NEW i \in 1..l - 1
                   PROVE  ~(OkLine(wire'[i]) /\ OkLine(wire'[i + 1]))
          BY <1>3
    <2>2. /\ i + n \in 1..k - 1 /\ (i + n) + 1 = (i + 1) + n
          /\ i \in 1..l /\ i + 1 \in 1..l
          BY <1>1, <1>2
    <2>3. QED
          BY <1>2, <1>3, <1>4, <2>2
  <1>5. ASSUME EndsOk' PROVE EndsOk
    <2>1. l # 0 /\ l \in 1..l /\ l + n = k /\ k # 0
          BY <1>1, <1>2, <1>3, <1>5
    <2>2. QED
          BY <1>1, <1>2, <1>3, <1>5, <2>1
  <1>6. ASSUME NoChallenge PROVE NoChallenge'
    <2>1. SUFFICES ASSUME NEW i \in 1..l PROVE ~Challenge(wire'[i])
          BY <1>3
    <2>2. i + n \in 1..k
          BY <1>1, <1>2
    <2>3. QED
          BY <1>2, <1>3, <1>6, <2>1, <2>2
  <1>7. QED
        BY <1>4, <1>5, <1>6

\* A line is added to the wire.
LEMMA AddedFacts ==
  ASSUME Types, NEW line \in Seq(Sent), wire' = wire \o <<line>>
  PROVE  /\ Spread /\ (OkLine(line) => ~EndsOk) => Spread'
         /\ EndsOk' <=> OkLine(line)
         /\ StartsOk' => StartsOk \/ wire' = <<line>>
         /\ wire = <<>> => wire' = <<line>>
         /\ Len(wire) \in Nat /\ Len(wire') = Len(wire) + 1
         /\ \A i \in 1..Len(wire) : wire'[i] = wire[i]
         /\ NoChallenge => \A i \in 1..Len(wire') - 1 : ~Challenge(wire'[i])
         /\ NoChallenge /\ ~Challenge(line) => NoChallenge'
  <1> DEFINE k == Len(wire)
             l == Len(wire')
  <1>1. k \in Nat /\ (wire = <<>> <=> k = 0) /\ wire \in Seq(Seq(Sent))
        BY WireFacts
  <1>2. /\ l = k + 1 /\ wire'[k + 1] = line
        /\ \A i \in 1..k : wire'[i] = wire[i]
    <2>1. <<line>> \in Seq(Seq(Sent)) /\ Len(<<line>>) = 1 /\ <<line>>[1] = line
          OBVIOUS
    <2>2. /\ Len(wire \o <<line>>) = Len(wire) + 1
          /\ \A i \in 1..Len(wire) + 1 :
               (wire \o <<line>>)[i] = IF i <= Len(wire) THEN wire[i]
                                      ELSE <<line>>[i - Len(wire)]
          BY <1>1, <2>1, ConcatProperties
    <2>3. \A i \in 1..k + 1 : wire'[i] = IF i <= k THEN wire[i]
                                         ELSE <<line>>[i - k]
          BY <2>2
    <2>4. l = k + 1
          BY <2>2
    <2> HIDE DEF k, l
    <2>5. ASSUME NEW i \in 1..k PROVE wire'[i] = wire[i]
      <3>1. i \in 1..k + 1 /\ i <= k
            BY <1>1
      <3>2. QED
            BY <2>3, <3>1
    <2>6. wire'[k + 1] = <<line>>[1]
      <3>1. k + 1 \in 1..k + 1 /\ ~(k + 1 <= k) /\ (k + 1) - k = 1
            BY <1>1
      <3>2. QED
            BY <2>3, <3>1
    <2>7. QED
          BY <2>1, <2>4, <2>5, <2>6
  <1>3. wire = <<>> => wire' = <<line>>
    <2>1. <<line>> \in Seq(Seq(Sent))
          OBVIOUS
    <2>2. QED
          BY <2>1, ConcatEmptySeq
  <1>4. wire' # <<>>
    <2>1. wire' \in Seq(Seq(Sent))
      <3>1. <<line>> \in Seq(Seq(Sent))
            OBVIOUS
      <3>2. QED
            BY <1>1, <3>1, ConcatProperties
    <2>2. l # 0
          <3> HIDE DEF k, l
          <3> QED BY <1>1, <1>2
    <2>3. QED
          BY <2>1, <2>2, EmptySeq
  <1>5. /\ Spread <=> \A i \in 1..k - 1 :
                        ~(OkLine(wire[i]) /\ OkLine(wire[i + 1]))
        /\ Spread' <=> \A i \in 1..l - 1 :
                         ~(OkLine(wire'[i]) /\ OkLine(wire'[i + 1]))
        /\ EndsOk <=> wire # <<>> /\ OkLine(wire[k])
        /\ EndsOk' <=> wire' # <<>> /\ OkLine(wire'[l])
        /\ StartsOk <=> wire # <<>> /\ OkLine(wire[1])
        /\ StartsOk' <=> wire' # <<>> /\ OkLine(wire'[1])
        /\ NoChallenge <=> \A i \in 1..k : ~Challenge(wire[i])
        /\ NoChallenge' <=> \A i \in 1..l : ~Challenge(wire'[i])
        BY DEF Spread, EndsOk, StartsOk, OkLine, NoChallenge, Challenge
  <1> HIDE DEF k, l
  <1>6. ASSUME Spread, OkLine(line) => ~EndsOk PROVE Spread'
    <2>1. SUFFICES ASSUME NEW i \in 1..l - 1
                   PROVE  ~(OkLine(wire'[i]) /\ OkLine(wire'[i + 1]))
          BY <1>5
    <2>2. CASE i = k
      <3>1. k \in 1..k /\ wire # <<>>
            BY <1>1, <2>2
      <3>2. QED
            BY <1>2, <1>5, <1>6, <2>2, <3>1
    <2>3. CASE i # k
      <3>1. i \in 1..k - 1 /\ i \in 1..k /\ i + 1 \in 1..k
            BY <1>1, <1>2, <2>3
      <3>2. QED
            BY <1>2, <1>5, <1>6, <3>1
    <2>4. QED
          BY <2>2, <2>3
  <1>7. StartsOk' => StartsOk \/ wire' = <<line>>
    <2>1. wire # <<>> => 1 \in 1..k
          BY <1>1
    <2>2. QED
          BY <1>2, <1>3, <1>5, <2>1
  <1>8. NoChallenge => \A i \in 1..l - 1 : ~Challenge(wire'[i])
    <2>1. l - 1 = k
          BY <1>1, <1>2
    <2>2. QED
          BY <1>2, <1>5, <2>1
  <1>9. ASSUME NoChallenge, ~Challenge(line) PROVE NoChallenge'
    <2>1. SUFFICES ASSUME NEW i \in 1..l PROVE ~Challenge(wire'[i])
          BY <1>5
    <2>2. i \in 1..k \/ i = k + 1
          BY <1>1, <1>2
    <2>3. QED
          BY <1>2, <1>5, <1>9, <2>2
  <1>10. QED
         BY <1>1, <1>2, <1>3, <1>4, <1>5, <1>6, <1>7, <1>8, <1>9 DEF k, l

\* What is the same if nothing is written or nothing is answered.
LEMMA SilentFacts ==
  ASSUME UNCHANGED <<wire, secure, session>>, peer' \in {peer, "gone"}
  PROVE  /\ Spread' <=> Spread
         /\ EndsOk' <=> EndsOk
         /\ StartsOk' <=> StartsOk
         /\ NoChallenge' <=> NoChallenge
         /\ Spent => Spent'
  <1>1. Understood' => Understood
        BY DEF Understood
  <1>2. QED
        BY <1>1 DEF Spread, EndsOk, StartsOk, NoChallenge, OkLine, Challenge,
           Spent

\* A line that refuses the command, or grants it.
Answer(line, cmd) ==
  \/ ~OkLine(line) /\ ~Challenge(line) /\ UNCHANGED <<peer, stated>>
  \/ Understood /\ Grantable(cmd) /\ cmd = "AUTH" /\ ~OkLine(line)
  \/ /\ Understood /\ Grantable(cmd) /\ cmd # "AUTH"
     /\ OkLine(line) /\ ~Challenge(line)
     /\ cmd = "STLS" => peer' = "tls"
     /\ cmd \in {"RESPONSE", "APOP", "PASS"} => session' = "open"
     /\ cmd = "STAT" => line = <<Ok, Number(stated')>>

\* All commands but CAPA are answered with one line, or with none.
LEMMA AnswerFacts ==
  ASSUME Types, NEW cmd \in Commands \ {"CAPA"}, NEW wait \in Place,
         Write(cmd, wait)
  PROVE  /\ place' \in {wait, Unwritten(cmd).next}
         /\ UNCHANGED <<secure, cut>>
         /\ \/ UNCHANGED <<wire, session, stated>> /\ peer' \in {peer, "gone"}
            \/ /\ place' = wait
               /\ \E line \in Seq(Sent) :
                    wire' = wire \o <<line>> /\ Answer(line, cmd)
  <1>1. /\ place' \in {wait, Unwritten(cmd).next}
        /\ UNCHANGED <<secure, cut>>
        BY CommandFacts
  <1>2. CASE UNCHANGED <<connection, session, stated>>
        BY <1>1, <1>2 DEF connection
  <1>3. ASSUME place' = wait, NEW lines \in Seq(Seq(Sent)),
               wire' = wire \o lines, Adds(lines, cmd)
        PROVE  \/ UNCHANGED <<wire, session, stated>> /\ peer' \in {peer, "gone"}
               \/ \E line \in Seq(Sent) :
                    wire' = wire \o <<line>> /\ Answer(line, cmd)
    <2>1. CASE lines = <<>> /\ UNCHANGED <<session, stated>>
                 /\ peer' \in {peer, "gone"}
      <3>1. wire \o <<>> = wire
            BY WireFacts, ConcatEmptySeq
      <3>2. QED
            BY <1>3, <2>1, <3>1
    <2>2. CASE lines = <<<<Err, Text>>>> /\ UNCHANGED <<peer, stated>>
      <3>1. <<Err, Text>> \in Seq(Sent)
            BY Lines
      <3>2. ~OkLine(<<Err, Text>>) /\ ~Challenge(<<Err, Text>>)
            BY DEF OkLine, Challenge, At, Err, Ok, Word
      <3>3. QED
            BY <1>3, <2>2, <3>1, <3>2 DEF Answer
    <2>3. ASSUME Understood, Grantable(cmd), NEW mails \in Mails,
                 lines = Granted(cmd, mails),
                 stated' = IF cmd = "STAT" THEN mails ELSE stated,
                 peer' = IF cmd = "STLS" THEN "tls" ELSE peer,
                 cmd \in {"RESPONSE", "APOP", "PASS"} => session' = "open"
          PROVE  \E line \in Seq(Sent) :
                    wire' = wire \o <<line>> /\ Answer(line, cmd)
      <3>1. /\ \A w \in {"+OK", "+", "text", "challenge"} : Word(w) \in Sent
            /\ Number(mails) \in Sent
            BY Tokens
      <3>2. CASE cmd = "AUTH"
        <4> DEFINE line == <<Word("+"), Word("challenge")>>
        <4>1. line \in Seq(Sent)
              BY <3>1
        <4>2. ~OkLine(line)
              BY DEF OkLine, At, Ok, Word
        <4>3. lines = <<line>>
              BY <2>3, <3>2 DEF Granted
        <4>4. QED
              BY <1>3, <2>3, <3>2, <4>1, <4>2, <4>3 DEF Answer
      <3>3. CASE cmd \in {"RESPONSE", "APOP", "PASS", "STAT"}
        <4> DEFINE line == <<Ok, Number(mails)>>
        <4>1. line \in Seq(Sent)
          <5>1. Ok \in Sent
                BY <3>1 DEF Ok
          <5>2. QED
                BY <3>1, <5>1
        <4>2. OkLine(line) /\ ~Challenge(line)
              BY DEF OkLine, Challenge, At, Ok, Word
        <4>3. lines = <<line>>
              BY <2>3, <3>3 DEF Granted
        <4>4. cmd = "STAT" => line = <<Ok, Number(stated')>>
              BY <2>3
        <4> HIDE DEF line
        <4>5. QED
              BY <1>3, <2>3, <3>3, <4>1, <4>2, <4>3, <4>4 DEF Answer
      <3>4. CASE cmd \in {"STLS", "USER"}
        <4> DEFINE line == <<Ok, Text>>
        <4>1. line \in Seq(Sent)
              BY <3>1 DEF Ok, Text
        <4>2. OkLine(line) /\ ~Challenge(line)
              BY DEF OkLine, Challenge, At, Ok, Word
        <4>3. lines = <<line>>
              BY <2>3, <3>4 DEF Granted
        <4> HIDE DEF line
        <4>4. QED
              BY <1>3, <2>3, <3>4, <4>1, <4>2, <4>3 DEF Answer
      <3>5. QED
            BY <3>2, <3>3, <3>4 DEF Commands
    <2>4. QED
          BY <1>3, <2>1, <2>2, <2>3 DEF Adds
  <1>4. QED
        BY <1>1, <1>2, <1>3, CommandFacts

\* Nothing is wrong with an empty wire.
LEMMA EmptyFacts ==
  ASSUME wire' = <<>>
  PROVE  Spread' /\ ~EndsOk' /\ ~StartsOk' /\ NoChallenge' /\ Len(wire') <= 1
  BY DEF Spread, EndsOk, StartsOk, NoChallenge

\* A line is read, late or in time, and the server does nothing.
LEMMA LateFacts ==
  ASSUME Types, Types', NEW line, ReadLine(line), UNCHANGED session, ~cut'
  PROVE  /\ ~cut /\ wire # <<>> /\ line = wire[1] /\ (OkLine(line) => StartsOk)
         /\ Spread => Spread'
         /\ EndsOk' => EndsOk
         /\ Spent' <=> Spent
         /\ NoChallenge => NoChallenge'
         /\ Spread /\ OkLine(line) => ~StartsOk'
         /\ Len(wire) <= 1 => wire' = <<>>
         /\ Challenge(line) /\ (\A i \in 1..Len(wire) - 1 : ~Challenge(wire[i]))
              => wire' = <<>>
  <1> DEFINE k == Len(wire)
             l == Len(wire')
  <1>1. /\ ~cut /\ wire # <<>> /\ line = wire[1]
        /\ UNCHANGED <<secure, peer>>
        /\ k \in Nat \ {0} /\ l = k - 1
        /\ \A i \in 1..l : wire'[i] = wire[i + 1]
        /\ k = 1 => wire' = <<>>
        BY ReadFacts
  <1>2. /\ Spread => Spread'
        /\ EndsOk' => EndsOk
        /\ NoChallenge => NoChallenge'
    <2>1. 1 \in 0..k
          <3> HIDE DEF k, l
          <3> QED BY <1>1
    <2>2. QED
          BY <1>1, <2>1, SuffixFacts
  <1>3. OkLine(line) => StartsOk
        BY <1>1 DEF StartsOk
  <1>4. Spent' <=> Spent
        BY <1>1 DEF Spent, Understood
  <1>5. ASSUME Spread, OkLine(line), StartsOk' PROVE FALSE
    <2>1. wire' # <<>> /\ OkLine(wire'[1])
          BY <1>5 DEF StartsOk, OkLine
    <2>2. k # 1
          BY <1>1, <2>1
    <2>3. 1 \in 1..k - 1 /\ 1 \in 1..l /\ 1 + 1 = 2
          <3> HIDE DEF k, l
          <3> QED BY <1>1, <2>2
    <2>4. ~(OkLine(wire[1]) /\ OkLine(wire[1 + 1])) /\ wire'[1] = wire[1 + 1]
          BY <1>1, <1>5, <2>3 DEF Spread
    <2>5. QED
          BY <1>1, <1>5, <2>1, <2>4
  <1>6. k <= 1 => wire' = <<>>
        <2> HIDE DEF k, l
        <2> QED BY <1>1
  <1>7. ASSUME Challenge(line), \A i \in 1..k - 1 : ~Challenge(wire[i])
        PROVE  wire' = <<>>
    <2>1. ~(1 \in 1..k - 1)
          BY <1>1, <1>7
    <2>2. QED
          <3> HIDE DEF k, l
          <3> QED BY <1>1, <2>1
  <1>8. QED
        BY <1>1, <1>2, <1>3, <1>4, <1>5, <1>6, <1>7

\* What login needs to try the next command.
LEMMA OnFacts ==
  ASSUME place' \in {"STLS", "AUTH", "APOP", "USER"},
         ~cut' => /\ Spread' /\ (EndsOk' => Spent')
                  /\ place' = "STLS" => ~EndsOk'
                  /\ place' \in {"STLS", "AUTH"} => NoChallenge'
  PROVE  AnswersOK'
  BY DEF AnswersOK, LoginAnswers, MailAnswers, Before, Trying

\* The greeting is the only line of a new connection.
LEMMA GreetingAnswers ==
  ASSUME Types, Types', AnswersOK, ConnectToHost \/ StartProtocol
  PROVE  AnswersOK'
  <1>1. CASE ConnectToHost
    <2>1. place = "connect" /\ place' \in {"greeting", "abandon"}
          BY <1>1 DEF ConnectToHost, Connect, ConnectFails, HandshakeTimesOut,
             EncryptedAlready, Doing, Go
    <2>2. \/ UNCHANGED <<wire, cut>>
          \/ wire' \in Greetings \cup {<<>>}
          BY <1>1 DEF ConnectToHost, Connect, ConnectFails, HandshakeTimesOut,
             EncryptedAlready, Close, connection
    <2>3. wire' \in Greetings \cup {<<>>} => Len(wire') <= 1
          BY Lines
    <2>4. ~cut' => Len(wire') <= 1
          BY <2>1, <2>2, <2>3 DEF AnswersOK, LoginAnswers, Before
    <2>5. QED
          BY <2>1, <2>4 DEF AnswersOK, LoginAnswers, MailAnswers, Before, Trying
  <1>2. CASE StartProtocol
    <2>1. PICK line \in Readable : ReadLine(line)
          BY <1>2 DEF StartProtocol
    <2>2. /\ place = "greeting" /\ UNCHANGED session
          /\ place' \in {"AUTH", "APOP", "USER", "CAPA", "abandon"}
          BY <1>2, AfterFacts DEF StartProtocol, Doing, Go, server
    <2>3. ~cut' => wire' = <<>>
          BY <2>1, <2>2, LateFacts DEF AnswersOK, LoginAnswers, Before
    <2>4. ~cut' => /\ Spread' /\ ~EndsOk' /\ NoChallenge' /\ wire' = <<>>
                   /\ Len(wire') <= 1
          BY <2>3, EmptyFacts
    <2>5. CASE place' \in {"AUTH", "APOP", "USER"}
          BY <2>4, <2>5, OnFacts
    <2>6. CASE place' \in {"CAPA", "abandon"}
          BY <2>4, <2>6 DEF AnswersOK, LoginAnswers, MailAnswers, Before, Trying
    <2>7. QED
          BY <2>2, <2>5, <2>6
  <1>3. QED
        BY <1>1, <1>2

\* An answer that was read, or was not read in time, lets doWork try something
\* else.
LEMMA AfterAnswer ==
  ASSUME Types, Types', AnswersOK, UNCHANGED session,
         NoLine \/ (\E line \in Readable : ReadLine(line))
  PROVE  ~cut' =>
           /\ place \in Trying \cup {"USER?"} => Spread'
           /\ place \in Trying => (EndsOk' => Spent')
           /\ place = "CAPA?" => ~EndsOk'
           /\ place \in {"CAPA?", "STLS?"} => NoChallenge'
  <1>1. CASE NoLine
    <2>1. UNCHANGED <<secure, peer, wire, cut>>
          BY <1>1 DEF NoLine
    <2>2. /\ Spread' <=> Spread
          /\ EndsOk' <=> EndsOk
          /\ NoChallenge' <=> NoChallenge
          /\ Spent => Spent'
          BY <2>1, SilentFacts
    <2>3. QED
          BY <2>1, <2>2 DEF AnswersOK, LoginAnswers
  <1>2. CASE \E line \in Readable : ReadLine(line)
    <2>1. PICK line \in Readable : ReadLine(line)
          BY <1>2
    <2>2. ~cut' => /\ ~cut
                   /\ Spread => Spread'
                   /\ EndsOk' => EndsOk
                   /\ NoChallenge => NoChallenge'
                   /\ Spent' <=> Spent
          BY <2>1, LateFacts
    <2>3. QED
          BY <2>2 DEF AnswersOK, LoginAnswers
  <1>3. QED
        BY <1>1, <1>2

\* CAPA: its answer ends with other lines than +OK.
LEMMA CapaAnswers ==
  ASSUME Types, Types', AnswersOK, Capa
  PROVE  AnswersOK'
  <1>1. CASE Write("CAPA", "CAPA?")
    <2>1. /\ "CAPA" \in Commands /\ "CAPA?" \in Place
          /\ Unwritten("CAPA").next = "CAPA?"
          BY Places DEF Commands, Unwritten
    <2>2. /\ place = "CAPA" /\ place' = "CAPA?" /\ UNCHANGED cut
          /\ \/ UNCHANGED wire
             \/ \E lines \in Seq(Seq(Sent)) :
                  wire' = wire \o lines /\ Adds(lines, "CAPA")
          BY <1>1, <2>1, CommandFacts DEF connection
    <2>3. SUFFICES ASSUME ~cut' PROVE Spread' /\ ~EndsOk' /\ NoChallenge'
          BY <2>2 DEF AnswersOK, LoginAnswers, MailAnswers, Before, Trying
    <2>4. wire = <<>>
          BY <2>2, <2>3 DEF AnswersOK, LoginAnswers
    <2>5. CASE UNCHANGED wire
          BY <2>4, <2>5, EmptyFacts
    <2>6. ASSUME NEW lines \in Seq(Seq(Sent)),
                 wire' = wire \o lines, Adds(lines, "CAPA")
          PROVE  Spread' /\ ~EndsOk' /\ NoChallenge'
      <3>1. wire' = lines
            BY <2>4, <2>6, ConcatEmptySeq
      <3>2. CASE lines = <<>>
            BY <3>1, <3>2, EmptyFacts
      <3>3. CASE lines = <<<<Err, Text>>>>
        <4>1. /\ Len(wire') = 1 /\ wire'[1] = <<Err, Text>>
              /\ ~OkLine(<<Err, Text>>) /\ ~Challenge(<<Err, Text>>)
              BY <3>1, <3>3 DEF OkLine, Challenge, At, Err, Ok, Word
        <4>2. \A i \in 1..Len(wire') - 1 : FALSE
          <5> DEFINE l == Len(wire')
          <5>1. l = 1
                BY <4>1
          <5>2. \A i \in 1..l - 1 : FALSE
                <6> HIDE DEF l
                <6> QED BY <5>1
          <5>3. QED
                BY <5>2
        <4>3. \A i \in 1..Len(wire') : i = 1
              BY <4>1
        <4>4. Spread'
              BY <4>2 DEF Spread
        <4>5. ~EndsOk'
              BY <4>1 DEF EndsOk, OkLine
        <4>6. NoChallenge'
              BY <4>1, <4>3 DEF NoChallenge, Challenge
        <4>7. QED
              BY <4>4, <4>5, <4>6
      <3>4. CASE lines = <<<<Ok, Text>>>> \o CapaLines
        <4> DEFINE c == Len(CapaLines)
                   l == Len(wire')
        <4>1. /\ CapaLines \in Seq(Seq(Sent)) /\ c \in Nat \ {0}
              /\ \A i \in 1..c : Plain(CapaLines[i])
              BY CapaFacts
        <4>2. /\ <<<<Ok, Text>>>> \in Seq(Seq(Sent))
              /\ Len(<<<<Ok, Text>>>>) = 1
              /\ <<<<Ok, Text>>>>[1] = <<Ok, Text>>
          <5>1. \A w \in {"+OK", "text"} : Word(w) \in Sent
                BY Tokens
          <5>2. <<Ok, Text>> \in Seq(Sent)
                BY <5>1 DEF Ok, Text
          <5>3. QED
                BY <5>2
        <4>3. /\ l = 1 + c
              /\ \A i \in 1..1 + c :
                   wire'[i] = IF i <= 1 THEN <<<<Ok, Text>>>>[i]
                              ELSE CapaLines[i - 1]
              BY <3>1, <3>4, <4>1, <4>2, ConcatProperties
        <4>4. ~Challenge(<<Ok, Text>>)
              BY DEF Challenge, At, Ok, Word
        <4>5. /\ Spread' <=> \A i \in 1..l - 1 :
                               ~(OkLine(wire'[i]) /\ OkLine(wire'[i + 1]))
              /\ EndsOk' <=> wire' # <<>> /\ OkLine(wire'[l])
              /\ NoChallenge' <=> \A i \in 1..l : ~Challenge(wire'[i])
              BY DEF Spread, EndsOk, NoChallenge, OkLine, Challenge
        <4> HIDE DEF c, l
        <4>6. ASSUME NEW i \in 2..l
              PROVE  ~OkLine(wire'[i]) /\ ~Challenge(wire'[i])
          <5>1. i \in 1..1 + c /\ ~(i <= 1) /\ i - 1 \in 1..c
                BY <4>1, <4>3
          <5>2. Plain(wire'[i])
                BY <4>1, <4>3, <5>1
          <5>3. QED
                BY <5>2 DEF Plain, OkLine, Challenge
        <4>7. wire'[1] = <<Ok, Text>>
          <5>1. 1 \in 1..1 + c
                BY <4>1
          <5>2. QED
                BY <4>2, <4>3, <5>1
        <4>8. Spread'
          <5>1. \A i \in 1..l - 1 : i + 1 \in 2..l
                BY <4>1, <4>3
          <5>2. QED
                BY <4>5, <4>6, <5>1
        <4>9. l \in 2..l
              BY <4>1, <4>3
        <4>10. \A i \in 1..l : i = 1 \/ i \in 2..l
               BY <4>1, <4>3
        <4>11. QED
               BY <4>4, <4>5, <4>6, <4>7, <4>8, <4>9, <4>10
      <3>5. QED
            BY <2>6, <3>2, <3>3, <3>4 DEF Adds, Granted
    <2>7. QED
          BY <2>2, <2>5, <2>6
  <1>2. CASE Answered("CAPA?", "capabilities", AfterCapa, 0)
    <2>1. /\ place = "CAPA?" /\ UNCHANGED session
          /\ place' \in {"capabilities", "STLS", "AUTH", "APOP", "USER"}
          /\ \E line \in Readable : ReadLine(line)
          BY <1>2, AfterFacts, AnsweredFacts DEF Answered
    <2>2. ~cut' => Spread' /\ ~EndsOk' /\ NoChallenge'
          BY <2>1, AfterAnswer DEF Trying
    <2>3. CASE place' = "capabilities"
          BY <2>2, <2>3 DEF AnswersOK, LoginAnswers, MailAnswers, Before, Trying
    <2>4. CASE place' # "capabilities"
          BY <2>1, <2>2, <2>4, OnFacts
    <2>5. QED
          BY <2>3, <2>4
  <1>3. CASE ReadCapa
    <2>1. /\ place = "capabilities" /\ UNCHANGED session
          /\ place' \in {"capabilities", "STLS", "AUTH", "APOP", "USER"}
          /\ \/ UNCHANGED connection
             \/ \E line \in Readable : ReadLine(line)
          BY <1>3, ReadCapaFacts, AfterFacts DEF Go
    <2>2. ~cut' => Spread' /\ ~EndsOk' /\ NoChallenge'
      <3>1. CASE UNCHANGED connection
            BY <2>1, <3>1, SilentFacts
            DEF AnswersOK, LoginAnswers, Trying, connection
      <3>2. CASE \E line \in Readable : ReadLine(line)
            BY <2>1, <3>2, LateFacts DEF AnswersOK, LoginAnswers, Trying
      <3>3. QED
            BY <2>1, <3>1, <3>2
    <2>3. CASE place' = "capabilities"
          BY <2>2, <2>3 DEF AnswersOK, LoginAnswers, MailAnswers, Before, Trying
    <2>4. CASE place' # "capabilities"
          BY <2>1, <2>2, <2>4, OnFacts
    <2>5. QED
          BY <2>3, <2>4
  <1>4. QED
        BY <1>1, <1>2, <1>3 DEF Capa

\* A command of login that is not the second of two: if it is granted, the answer
\* to it is the first +OK for the last line, and what comes after it cannot be
\* granted.
LEMMA TryFacts ==
  ASSUME Types, NEW cmd \in {"STLS", "AUTH", "APOP", "USER"}, NEW wait \in Place,
         Write(cmd, wait), Spread, EndsOk => Spent, cmd = "STLS" => ~EndsOk
  PROVE  /\ place' \in {wait, Unwritten(cmd).next} /\ UNCHANGED cut
         /\ Spread'
         /\ cmd # "USER" => (EndsOk' => Spent')
         /\ NoChallenge /\ cmd = "STLS" => NoChallenge'
         /\ NoChallenge => \A i \in 1..Len(wire') - 1 : ~Challenge(wire'[i])
  <1>1. /\ place' \in {wait, Unwritten(cmd).next} /\ UNCHANGED <<secure, cut>>
        /\ \/ UNCHANGED <<wire, session, stated>> /\ peer' \in {peer, "gone"}
           \/ \E line \in Seq(Sent) :
                wire' = wire \o <<line>> /\ Answer(line, cmd)
        BY AnswerFacts DEF Commands
  <1>2. CASE UNCHANGED <<wire, session>> /\ peer' \in {peer, "gone"}
    <2>1. /\ Spread' <=> Spread
          /\ EndsOk' <=> EndsOk
          /\ NoChallenge' <=> NoChallenge
          /\ Spent => Spent'
          BY <1>1, <1>2, SilentFacts
    <2>2. NoChallenge => \A i \in 1..Len(wire') - 1 : ~Challenge(wire'[i])
          <3> DEFINE k == Len(wire)
          <3>1. k \in Nat
                BY WireFacts
          <3>2. \A i \in 1..k - 1 : i \in 1..k
                <4> HIDE DEF k
                <4> QED BY <3>1
          <3>3. QED
                BY <1>2, <3>2 DEF NoChallenge
    <2>3. QED
          BY <1>1, <2>1, <2>2
  <1>3. ASSUME NEW line \in Seq(Sent), wire' = wire \o <<line>>,
               Answer(line, cmd)
        PROVE  /\ Spread'
               /\ cmd # "USER" => (EndsOk' => Spent')
               /\ NoChallenge /\ cmd = "STLS" => NoChallenge'
               /\ NoChallenge =>
                    \A i \in 1..Len(wire') - 1 : ~Challenge(wire'[i])
    <2>1. OkLine(line) => Understood /\ Grantable(cmd)
          BY <1>3 DEF Answer
    <2>2. OkLine(line) => ~EndsOk
          BY <2>1 DEF Grantable, Spent
    <2>3. cmd # "USER" /\ OkLine(line) => Spent'
      <3>1. CASE cmd = "STLS" /\ OkLine(line)
        <4>1. peer = "plain" /\ peer' = "tls" /\ Understood
              BY <1>3, <2>1, <3>1 DEF Answer, Grantable
        <4>2. secure # TRUE
              BY <4>1 DEF Understood
        <4>3. ~Understood'
              BY <1>1, <4>1, <4>2 DEF Understood
        <4>4. QED
              BY <4>3 DEF Spent
      <3>2. CASE cmd \in {"AUTH", "APOP"}
            BY <1>3, <3>2 DEF Answer, Spent
      <3>3. QED
            BY <3>1, <3>2
    <2>4. cmd = "STLS" => ~Challenge(line)
          BY <1>3 DEF Answer
    <2>5. QED
          BY <1>3, <2>2, <2>3, <2>4, AddedFacts
  <1>4. QED
        BY <1>1, <1>2, <1>3

\* STLS and its answer, which leaves no line on the wire.
LEMMA StartTLSAnswers ==
  ASSUME Types, Types', AnswersOK, StartTLS
  PROVE  AnswersOK'
  <1>1. CASE Write("STLS", "STLS?")
    <2>1. /\ "STLS?" \in Place /\ Unwritten("STLS").next = "STLS?"
          /\ place = "STLS"
          BY <1>1, Places DEF Unwritten, Write, Doing
    <2>2. cut' = cut /\ place' = "STLS?"
          BY <1>1, <2>1, AnswerFacts DEF Commands
    <2>3. ~cut' => Spread' /\ (EndsOk' => Spent') /\ NoChallenge'
      <3>1. ~cut' => Spread /\ ~EndsOk /\ NoChallenge
            BY <2>1, <2>2 DEF AnswersOK, LoginAnswers, Trying
      <3>2. QED
            BY <1>1, <2>1, <3>1, TryFacts
    <2>4. QED
          BY <2>2, <2>3 DEF AnswersOK, LoginAnswers, MailAnswers, Before, Trying
  <1>2. CASE ~Write("STLS", "STLS?")
    <2>1. place = "STLS?" /\ UNCHANGED session
          BY <1>2 DEF StartTLS, Doing, server
    <2>2. place' \in {"AUTH", "APOP", "USER"}
          BY <1>2, AfterFacts DEF StartTLS, Go
    <2>3. wire' = <<>> \/ \E line \in Readable : ReadLine(line)
          BY <1>2 DEF StartTLS, StartClientEncryption
    <2>4. ~cut' => Spread' /\ (EndsOk' => Spent') /\ NoChallenge'
          BY <2>1, <2>3, EmptyFacts, AfterAnswer DEF Trying
    <2>5. QED
          BY <2>2, <2>4, OnFacts
  <1>3. QED
        BY <1>1, <1>2

\* AUTH, the response and APOP, after which another login is tried if they fail.
LEMMA CramApopAnswers ==
  ASSUME Types, Types', AnswersOK, CramMd5 \/ Apop
  PROVE  AnswersOK'
  <1>1. CASE Write("AUTH", "AUTH?")
    <2>1. /\ "AUTH?" \in Place /\ Unwritten("AUTH").next = "end"
          /\ place = "AUTH"
          BY <1>1, Places DEF Unwritten, Write, Doing
    <2>2. cut' = cut /\ place' \in {"AUTH?", "end"}
          BY <1>1, <2>1, AnswerFacts DEF Commands
    <2>3. ~cut' => /\ Spread' /\ (EndsOk' => Spent')
                   /\ \A i \in 1..Len(wire') - 1 : ~Challenge(wire'[i])
      <3>1. ~cut' => Spread /\ (EndsOk => Spent) /\ NoChallenge
            BY <2>1, <2>2 DEF AnswersOK, LoginAnswers, Trying
      <3>2. QED
            BY <1>1, <2>1, <3>1, TryFacts
    <2>4. CASE place' = "AUTH?"
      <3>1. ~cut' => \A i \in 1..Len(wire)' - 1 : ~Challenge(wire[i])'
            BY <2>3 DEF Challenge
      <3>2. QED
            BY <2>3, <2>4, <3>1 DEF AnswersOK, LoginAnswers, MailAnswers, Before,
               Trying
    <2>5. QED
          BY <2>2, <2>4, ElsewhereFacts
  <1>2. CASE Write("RESPONSE", "RESPONSE?")
    <2>1. /\ "RESPONSE?" \in Place /\ Unwritten("RESPONSE").next = "end"
          /\ place = "RESPONSE"
          BY <1>2, Places DEF Unwritten, Write, Doing
    <2>2. /\ cut' = cut /\ place' \in {"RESPONSE?", "end"}
          /\ \/ UNCHANGED wire
             \/ \E line \in Seq(Sent) :
                  wire' = wire \o <<line>> /\ Answer(line, "RESPONSE")
          BY <1>2, <2>1, AnswerFacts DEF Commands
    <2>3. CASE place' = "end"
          BY <2>3, ElsewhereFacts
    <2>4. CASE place' = "RESPONSE?"
      <3>1. SUFFICES ASSUME ~cut'
                     PROVE  /\ Spread' /\ (EndsOk' => Spent')
                            /\ Len(wire') <= 1
            BY <2>4 DEF AnswersOK, LoginAnswers, MailAnswers, Before, Trying
      <3>2. wire = <<>>
            BY <2>1, <2>2, <3>1 DEF AnswersOK, LoginAnswers
      <3>3. CASE UNCHANGED wire
            BY <3>2, <3>3, EmptyFacts
      <3>4. ASSUME NEW line \in Seq(Sent), wire' = wire \o <<line>>,
                   Answer(line, "RESPONSE")
            PROVE  Spread' /\ (EndsOk' => Spent') /\ Len(wire') <= 1
        <4>1. Spread /\ ~EndsOk
              BY <3>2 DEF Spread, EndsOk
        <4>2. Spread' /\ (EndsOk' => OkLine(line)) /\ wire' = <<line>>
              BY <3>2, <3>4, <4>1, AddedFacts
        <4>3. OkLine(line) => session' = "open"
              BY <3>4 DEF Answer
        <4>4. Len(wire') <= 1
              BY <4>2
        <4>5. QED
              BY <4>2, <4>3, <4>4 DEF Spent
      <3>5. QED
            BY <2>2, <3>3, <3>4
    <2>5. QED
          BY <2>2, <2>3, <2>4
  <1>3. CASE Write("APOP", "APOP?")
    <2>1. /\ "APOP?" \in Place /\ Unwritten("APOP").next = "USER"
          /\ place = "APOP"
          BY <1>3, Places DEF Unwritten, Write, Doing
    <2>2. cut' = cut /\ place' \in {"APOP?", "USER"}
          BY <1>3, <2>1, AnswerFacts DEF Commands
    <2>3. ~cut' => Spread' /\ (EndsOk' => Spent')
      <3>1. ~cut' => Spread /\ (EndsOk => Spent)
            BY <2>1, <2>2 DEF AnswersOK, LoginAnswers, Trying
      <3>2. QED
            BY <1>3, <2>1, <3>1, TryFacts
    <2>4. QED
          BY <2>2, <2>3 DEF AnswersOK, LoginAnswers, MailAnswers, Before, Trying
  <1>4. CASE CramMd5 /\ Doing("AUTH?")
    <2>1. ~Write("AUTH", "AUTH?") /\ ~Write("RESPONSE", "RESPONSE?")
          BY <1>4 DEF Write, Doing
    <2>2. ~Answered("RESPONSE?", "STAT", AfterCram, 0)
          BY <1>4 DEF Answered, Doing
    <2>3. PICK line \in Readable :
            /\ ReadLine(line)
            /\ IF Challenge(line) THEN Go("RESPONSE", 0) ELSE Go(AfterCram, 1)
          BY <1>4, <2>1, <2>2 DEF CramMd5, Challenge
    <2>4. UNCHANGED session /\ place = "AUTH?"
          BY <1>4, <2>1, <2>2 DEF CramMd5, Doing, server
    <2>5. CASE Challenge(line)
      <3>1. place' = "RESPONSE"
            BY <2>3, <2>5 DEF Go
      <3>2. ~cut' => wire' = <<>>
            BY <2>3, <2>4, <2>5, LateFacts DEF AnswersOK, LoginAnswers
      <3>3. QED
            BY <3>1, <3>2 DEF AnswersOK, LoginAnswers, MailAnswers, Before,
               Trying
    <2>6. CASE ~Challenge(line)
      <3>1. place' \in {"APOP", "USER"}
            BY <2>3, <2>6, AfterFacts DEF Go
      <3>2. ~cut' => Spread' /\ (EndsOk' => Spent')
            BY <2>3, <2>4, AfterAnswer DEF Trying
      <3>3. QED
            BY <3>1, <3>2, OnFacts
    <2>7. QED
          BY <2>5, <2>6
  <1>5. CASE \/ Answered("RESPONSE?", "STAT", AfterCram, 0)
             \/ Answered("APOP?", "STAT", "USER", 0)
    <2>1. PICK line \in Readable :
            /\ ReadLine(line)
            /\ \/ place' = "STAT" /\ OkLine(line)
               \/ place' \in {"APOP", "USER"}
          BY <1>5, AfterFacts DEF Answered, Accepted, OkLine, Go
    <2>2. UNCHANGED session /\ place \in {"RESPONSE?", "APOP?"}
          BY <1>5 DEF Answered, Doing, server
    <2>3. CASE place' \in {"APOP", "USER"}
      <3>1. ~cut' => Spread' /\ (EndsOk' => Spent')
            BY <2>1, <2>2, AfterAnswer DEF Trying
      <3>2. QED
            BY <2>3, <3>1, OnFacts
    <2>4. CASE place' = "STAT" /\ OkLine(line)
      <3>1. ~cut' => ~StartsOk'
            BY <2>1, <2>2, <2>4, LateFacts DEF AnswersOK, LoginAnswers, Trying
      <3>2. QED
            BY <2>4, <3>1 DEF AnswersOK, LoginAnswers, MailAnswers, Before,
               Trying
    <2>5. QED
          BY <2>1, <2>3, <2>4
  <1>6. QED
        BY <1>1, <1>2, <1>3, <1>4, <1>5 DEF CramMd5, Apop

\* USER and PASS: the answer to USER that is read is not followed by another +OK.
LEMMA UserPassAnswers ==
  ASSUME Types, Types', AnswersOK, UserPass
  PROVE  AnswersOK'
  <1>1. CASE Write("USER", "USER?")
    <2>1. /\ "USER?" \in Place /\ Unwritten("USER").next = "USER?"
          /\ place = "USER"
          BY <1>1, Places DEF Unwritten, Write, Doing
    <2>2. cut' = cut /\ place' = "USER?"
          BY <1>1, <2>1, AnswerFacts DEF Commands
    <2>3. ~cut' => Spread'
      <3>1. ~cut' => Spread /\ (EndsOk => Spent)
            BY <2>1, <2>2 DEF AnswersOK, LoginAnswers, Trying
      <3>2. QED
            BY <1>1, <2>1, <3>1, TryFacts
    <2>4. QED
          BY <2>2, <2>3 DEF AnswersOK, LoginAnswers, MailAnswers, Before, Trying
  <1>2. CASE Write("PASS", "PASS?")
    <2>1. /\ "PASS?" \in Place /\ Unwritten("PASS").next = "PASS?"
          /\ place = "PASS"
          BY <1>2, Places DEF Unwritten, Write, Doing
    <2>2. /\ UNCHANGED <<secure, cut>> /\ place' \in {"PASS?"}
          /\ \/ UNCHANGED <<wire, session, stated>> /\ peer' \in {peer, "gone"}
             \/ \E line \in Seq(Sent) :
                  wire' = wire \o <<line>> /\ Answer(line, "PASS")
          BY <1>2, <2>1, AnswerFacts DEF Commands
    <2>3. ~cut' => ~StartsOk
          BY <2>1, <2>2 DEF AnswersOK, LoginAnswers
    <2>4. ~cut' => ~StartsOk' \/ Len(wire') <= 1
      <3>1. CASE UNCHANGED <<wire, session>> /\ peer' \in {peer, "gone"}
            BY <2>2, <2>3, <3>1, SilentFacts
      <3>2. ASSUME NEW line \in Seq(Sent), wire' = wire \o <<line>>, ~cut'
            PROVE  ~StartsOk' \/ Len(wire') <= 1
        <4>1. ~StartsOk' \/ wire' = <<line>>
              BY <2>3, <3>2, AddedFacts
        <4>2. wire' = <<line>> => Len(wire') <= 1
              OBVIOUS
        <4>3. QED
              BY <4>1, <4>2
      <3>3. QED
            BY <2>2, <3>1, <3>2
    <2>5. QED
          BY <2>2, <2>4 DEF AnswersOK, LoginAnswers, MailAnswers, Before, Trying
  <1>3. CASE \/ Answered("USER?", "PASS", "end", 1)
             \/ Answered("PASS?", "STAT", "end", 1)
    <2>1. PICK line \in Readable :
            /\ ReadLine(line)
            /\ \/ place = "USER?" /\ place' = "PASS" /\ OkLine(line)
               \/ place = "PASS?" /\ place' = "STAT" /\ OkLine(line)
               \/ place' = "end"
          BY <1>3 DEF Answered, Accepted, OkLine, Doing, Go
    <2>2. UNCHANGED session
          BY <1>3 DEF Answered, server
    <2>3. CASE place' = "end"
          BY <2>3, ElsewhereFacts
    <2>4. CASE place' \in {"PASS", "STAT"} /\ OkLine(line)
      <3>1. ASSUME ~cut' PROVE ~StartsOk'
        <4>1. /\ ~cut /\ StartsOk
              /\ Spread => ~StartsOk'
              /\ Len(wire) <= 1 => wire' = <<>>
              BY <2>1, <2>2, <2>4, <3>1, LateFacts
        <4>2. place = "USER?" => Spread
              BY <4>1 DEF AnswersOK, LoginAnswers
        <4>3. place = "PASS?" => Len(wire) <= 1
              BY <4>1 DEF AnswersOK, LoginAnswers
        <4>4. QED
              BY <2>1, <2>4, <4>1, <4>2, <4>3, EmptyFacts
      <3>2. QED
            BY <2>4, <3>1 DEF AnswersOK, LoginAnswers, MailAnswers, Before,
               Trying
    <2>5. QED
          BY <2>1, <2>3, <2>4
  <1>4. QED
        BY <1>1, <1>2, <1>3 DEF UserPass

\* STAT: a +OK that is read is its answer, with the number.
LEMMA GetMailAnswers ==
  ASSUME Types, Types', AnswersOK, GetMail
  PROVE  AnswersOK'
  <1>1. CASE Write("STAT", "STAT?")
    <2>1. /\ "STAT?" \in Place /\ Unwritten("STAT").next = "end"
          /\ place = "STAT"
          BY <1>1, Places DEF Unwritten, Write, Doing
    <2>2. /\ UNCHANGED <<secure, cut>> /\ place' \in {"STAT?", "end"}
          /\ \/ UNCHANGED <<wire, session, stated>> /\ peer' \in {peer, "gone"}
             \/ \E line \in Seq(Sent) :
                  wire' = wire \o <<line>> /\ Answer(line, "STAT")
          BY <1>1, <2>1, AnswerFacts DEF Commands
    <2>3. CASE place' = "end"
          BY <2>3, ElsewhereFacts
    <2>4. CASE place' = "STAT?"
      <3>1. SUFFICES ASSUME ~cut'
                     PROVE  ~StartsOk' \/ wire' = <<<<Ok, Number(stated')>>>>
            BY <2>4 DEF AnswersOK, LoginAnswers, MailAnswers, Before, Trying
      <3>2. ~StartsOk
            BY <2>1, <2>2, <3>1 DEF AnswersOK, LoginAnswers
      <3>3. CASE UNCHANGED <<wire, session>> /\ peer' \in {peer, "gone"}
            BY <2>2, <3>2, <3>3, SilentFacts
      <3>4. ASSUME NEW line \in Seq(Sent), wire' = wire \o <<line>>,
                   Answer(line, "STAT"), StartsOk'
            PROVE  wire' = <<<<Ok, Number(stated')>>>>
        <4>1. wire' = <<line>>
              BY <3>2, <3>4, AddedFacts
        <4>2. OkLine(line)
          <5>1. OkLine(wire'[1])
                BY <3>4 DEF StartsOk, OkLine
          <5>2. wire'[1] = line
                BY <4>1
          <5>3. QED
                BY <5>1, <5>2
        <4>3. line = <<Ok, Number(stated')>>
              BY <3>4, <4>2 DEF Answer
        <4>4. QED
              BY <4>1, <4>3
      <3>5. QED
            BY <2>2, <3>3, <3>4
    <2>5. QED
          BY <2>2, <2>3, <2>4
  <1>2. CASE ~Write("STAT", "STAT?")
    <2>1. PICK line \in Readable :
            /\ ReadLine(line)
            /\ \/ place' = "end"
               \/ /\ place' = "result" /\ OkLine(line)
                  /\ unread' = At(line, 2)[2]
          BY <1>2 DEF GetMail, Accepted, OkLine, Go
    <2>2. UNCHANGED <<session, stated>> /\ place = "STAT?"
          BY <1>2 DEF GetMail, Doing, server
    <2>3. CASE place' = "end"
          BY <2>3, ElsewhereFacts
    <2>4. CASE /\ place' = "result" /\ OkLine(line)
               /\ unread' = At(line, 2)[2]
      <3>1. ASSUME ~cut' PROVE unread' = stated'
        <4>1. ~cut /\ StartsOk /\ line = wire[1]
              BY <2>1, <2>2, <2>4, <3>1, LateFacts
        <4>2. wire = <<<<Ok, Number(stated)>>>>
              BY <2>2, <4>1 DEF AnswersOK, MailAnswers
        <4>3. line = <<Ok, Number(stated)>>
              BY <4>1, <4>2
        <4>4. At(line, 2) = Number(stated)
              BY <4>3 DEF At
        <4>5. QED
              BY <2>2, <2>4, <4>4 DEF Number
      <3>2. QED
            BY <2>4, <3>1 DEF AnswersOK, LoginAnswers, MailAnswers, Before,
               Trying
    <2>5. QED
          BY <2>1, <2>3, <2>4
  <1>3. QED
        BY <1>1, <1>2

\* The steps that lead to a return, and the answers that are late.
LEMMA EndAnswers ==
  ASSUME Types, Types', AnswersOK, End \/ ReadsBeyond \/ Result \/ ReadFails
  PROVE  AnswersOK'
  <1>1. CASE End \/ ReadsBeyond \/ Result
    <2>1. place' \in {"end", "close", "dead"}
          BY <1>1 DEF End, ReadsBeyond, Result, ResultReady, Go
    <2>2. QED
          BY <2>1, ElsewhereFacts
  <1>2. CASE ReadFails
    <2>1. /\ NoLine /\ UNCHANGED session /\ place \in DOMAIN OnFailure
          /\ place' = OnFailure[place].next
          BY <1>2 DEF ReadFails, Go, server
    <2>2. ~cut' => /\ place \in Trying \cup {"USER?"} => Spread'
                   /\ place \in Trying => (EndsOk' => Spent')
                   /\ place = "CAPA?" => ~EndsOk'
                   /\ place \in {"CAPA?", "STLS?"} => NoChallenge'
          BY <2>1, AfterAnswer
    <2>3. CASE place = "greeting"
      <3>1. place' = "abandon" /\ UNCHANGED <<wire, cut>>
            BY <2>1, <2>3 DEF OnFailure, NoLine
      <3>2. ~cut' => Len(wire') <= 1
            BY <2>3, <3>1 DEF AnswersOK, LoginAnswers, Before
      <3>3. QED
            BY <3>1, <3>2 DEF AnswersOK, LoginAnswers, MailAnswers, Before,
               Trying
    <2>4. CASE place = "CAPA?"
      <3>1. place' \in {"STLS", "AUTH", "APOP", "USER"}
            BY <2>1, <2>4, AfterFacts DEF OnFailure
      <3>2. QED
            BY <2>2, <2>4, <3>1, OnFacts DEF Trying
    <2>5. CASE place = "STLS?"
      <3>1. place' \in {"AUTH", "APOP", "USER"}
            BY <2>1, <2>5, AfterFacts DEF OnFailure
      <3>2. QED
            BY <2>2, <2>5, <3>1, OnFacts DEF Trying
    <2>6. CASE place \in {"AUTH?", "RESPONSE?", "APOP?"}
      <3>1. place' \in {"APOP", "USER"}
            BY <2>1, <2>6, AfterFacts DEF OnFailure
      <3>2. QED
            BY <2>2, <2>6, <3>1, OnFacts DEF Trying
    <2>7. CASE place \in {"USER?", "PASS?", "STAT?"}
      <3>1. place' = "end"
            BY <2>1, <2>7 DEF OnFailure
      <3>2. QED
            BY <3>1, ElsewhereFacts
    <2>8. QED
          BY <2>1, <2>3, <2>4, <2>5, <2>6, <2>7 DEF OnFailure
  <1>3. QED
        BY <1>1, <1>2

\* The steps that change none of the lines, or all of them between two calls.
LEMMA FrameAnswers ==
  ASSUME AnswersOK,
         \/ /\ SetError \/ BeginWork \/ Called \/ GuiTakes \/ PeerCloses
                 \/ NoticeClose
            /\ UNCHANGED <<flags, unread, server>>
         \/ Return /\ Over
         \/ FeaturesChange
         \/ UNCHANGED vars
  PROVE  AnswersOK'
  <1>1. CASE BeginWork \/ NoticeClose \/ (Return /\ Over)
    <2>1. place' \in {"idle", "connect"}
          BY <1>1 DEF BeginWork, NoticeClose, Return, Doing
    <2>2. \/ place \in Before /\ UNCHANGED <<wire, cut>>
          \/ wire' = <<>>
          BY <1>1 DEF BeginWork, NoticeClose, Return, Close, connection, Doing,
             Before
    <2>3. ~cut' => Len(wire') <= 1
          BY <2>2 DEF AnswersOK, LoginAnswers
    <2>4. QED
          BY <2>1, <2>3 DEF AnswersOK, LoginAnswers, MailAnswers, Before, Trying
  <1>2. CASE ~BeginWork /\ ~NoticeClose /\ ~(Return /\ Over)
    <2>1. /\ UNCHANGED <<place, wire, secure, cut, unread, session, stated>>
          /\ peer' \in {peer, "gone"}
          BY <1>2 DEF SetError, Called, GuiTakes, PeerCloses, FeaturesChange,
             vars, socketVars, connection, server
    <2>2. /\ Spread' <=> Spread
          /\ EndsOk' <=> EndsOk
          /\ StartsOk' <=> StartsOk
          /\ NoChallenge' <=> NoChallenge
          /\ Spent => Spent'
          BY <2>1, SilentFacts
    <2>3. LoginAnswers => LoginAnswers'
          BY <2>1, <2>2 DEF LoginAnswers, Challenge
    <2>4. MailAnswers => MailAnswers'
          BY <2>1, <2>2 DEF MailAnswers
    <2>5. QED
          BY <2>1, <2>3, <2>4 DEF AnswersOK
  <1>3. QED
        BY <1>1, <1>2

\* No step breaks it.
LEMMA NextAnswers == Types /\ Types' /\ AnswersOK /\ [Next]_vars => AnswersOK'
  BY GreetingAnswers, CapaAnswers, StartTLSAnswers, CramApopAnswers,
     UserPassAnswers, GetMailAnswers, EndAnswers, FrameAnswers
  DEF Next, Client

\* The answers are as they should be in every state.
LEMMA AnswersHold == Spec => []AnswersOK
  <1>1. Init => AnswersOK
    <2>1. Init => place = "idle" /\ Len(wire) <= 1
          BY DEF Init, SocketInit
    <2>2. QED
          BY <2>1 DEF AnswersOK, LoginAnswers, MailAnswers, Before, Trying
  <1>2. QED
        BY <1>1, NextAnswers, TypesHold, PTL DEF Spec

\* The tray icon shows the number that the server answered to the STAT of this
\* call: however many answers to the commands of login come late, and whichever
\* of the logins succeed without doWork knowing it, getMail takes none of them
\* for the answer to STAT.
THEOREM StatIsRight == Spec => []ResultIsStat
  <1>1. AnswersOK => ResultIsStat
        BY DEF AnswersOK, MailAnswers, ResultIsStat
  <1>2. QED
        BY <1>1, AnswersHold, PTL

-----------------------------------------------------------------------------
(* The refinement.                                                         *)

\* The call that is taken from the queue.
LEMMA BeginRefines ==
  ASSUME IInv, BeginWork, UNCHANGED unread
  PROVE  Worker!WorkerBegin("this")
  <1>1. /\ place = "idle" /\ place' = "connect" /\ told = FALSE
        /\ pending > 0 /\ pending' = pending - 1
        /\ left' = IF left = "null" THEN "closed" ELSE left
        /\ told' = told /\ events' = events
        /\ unread' = unread
        BY DEF BeginWork, Doing, IInv, Late
  <1>2. QED
        BY <1>1 DEF Worker!WorkerBegin, Worker!ThreadRuns, Work

\* A setError, wherever doWork is.
LEMMA ErrorRefines ==
  ASSUME IInv, SetError, UNCHANGED unread
  PROVE  Worker!WorkerError("this")
  <1>1. /\ place \notin {"idle", "dead"} /\ place' = place /\ told \in BOOLEAN
        /\ Len(events) < MaxEvents
        /\ events' = Append(events, [kind |-> "mailError", server |-> "this"])
        /\ UNCHANGED <<told, pending, left, unread>>
        BY DEF SetError, IInv
  <1>2. QED
        BY <1>1 DEF Worker!WorkerError, Worker!Post, Work

\* The result, with what getMail has found.
LEMMA ResultRefines ==
  ASSUME IInv, Result
  PROVE  Worker!WorkerResult("this")
  <1>1. /\ place = "result" /\ place' = "end" /\ told = FALSE /\ told' = TRUE
        /\ Len(events) < MaxEvents
        /\ events' = Append(events,
                       [kind |-> "resultReady", idx |-> 1,
                        count |-> [unread |-> unread, read |-> 0],
                        from |-> "mailbox"])
        /\ UNCHANGED <<pending, left, unread>>
        BY DEF Result, ResultReady, Doing, IInv, Late
  <1>2. QED
        BY <1>1 DEF Worker!WorkerResult, Worker!Post, Work

\* A return after end(), or one that leaves the socket as it is.
LEMMA ReturnRefines ==
  ASSUME IInv, Return, UNCHANGED unread
  PROVE  Worker!WorkerEnd("this") \/ Worker!WorkerAbandon("this")
  <1>1. /\ place \notin {"idle", "dead"} /\ place' = "idle" /\ told' = FALSE
        /\ told \in BOOLEAN
        /\ left' = m_Socket'
        /\ UNCHANGED <<pending, events, unread>>
        BY DEF Return, Doing, IInv
  <1>2. \/ m_Socket' = "closed"
        \/ m_Socket' = "connected" /\ told = FALSE
        BY DEF Return, Close, Doing, IInv, connection, Late
  <1>3. CASE m_Socket' = "closed"
        BY <1>1, <1>3 DEF Worker!WorkerEnd, Work
  <1>4. CASE m_Socket' = "connected" /\ told = FALSE
        BY <1>1, <1>4 DEF Worker!WorkerAbandon, Work
  <1>5. QED
        BY <1>2, <1>3, <1>4

\* A step of the dialogue, which is not seen unless it ends the process.
LEMMA TalksRefine ==
  ASSUME IInv, Talks
  PROVE  Worker!WorkerDies("this") \/ UNCHANGED <<Work, frame>>
  <1>1. place \notin {"idle", "dead"} /\ told \in BOOLEAN /\ UNCHANGED frame
        BY DEF Talks, IInv
  <1>2. CASE place' = "dead"
    <2>1. ~told
          BY <1>2 DEF Talks, IInv, Late
    <2>2. UNCHANGED <<told, pending, events, left, unread>>
          BY <1>1, <1>2 DEF Talks, frame
    <2>3. QED
          BY <1>1, <1>2, <2>1, <2>2 DEF Worker!WorkerDies, Work
  <1>3. CASE place' # "dead"
    <2>1. place' # "idle" /\ told' = told
          BY <1>1 DEF Talks, frame, Before
    <2>2. QED
          BY <1>1, <1>3, <2>1 DEF Work
  <1>4. QED
        BY <1>2, <1>3

\* Every step is one of the worker's, or of another thread, or is not seen.
LEMMA StepRefines ==
  IInv /\ [Next]_vars =>
    [Worker!WorkerStep("this") \/ Called \/ GuiTakes]_<<Work, frame>>
  <1>1. SUFFICES ASSUME IInv, [Next]_vars
                 PROVE  \/ Worker!WorkerStep("this") \/ Called \/ GuiTakes
                        \/ UNCHANGED <<Work, frame>>
        OBVIOUS
  <1>2. CASE Dialogue
    <2>1. Talks
          BY <1>2, DialogueTalks
    <2>2. QED
          BY <1>1, <2>1, TalksRefine DEF Worker!WorkerStep
  <1>3. CASE (SetError \/ BeginWork \/ Return) /\ UNCHANGED unread
        BY <1>1, <1>3, ErrorRefines, BeginRefines, ReturnRefines
        DEF Worker!WorkerStep
  <1>4. CASE Result
        BY <1>1, <1>4, ResultRefines DEF Worker!WorkerStep
  <1>5. CASE ConnectToHost
        BY <1>1, <1>5, ConnectIInv DEF frame, Work
  <1>6. CASE Called \/ GuiTakes
        BY <1>6
  <1>7. CASE PeerCloses \/ NoticeClose
        BY <1>7 DEF PeerCloses, NoticeClose, frame, Work
  <1>8. CASE FeaturesChange \/ UNCHANGED vars
        BY <1>8 DEF FeaturesChange, vars, socketVars, frame, Work
  <1>9. QED
        BY <1>1, <1>2, <1>3, <1>4, <1>5, <1>6, <1>7, <1>8
        DEF Next, Client, Dialogue, Over

\* CPop3 implements the worker of IMailProtocol, and with it of CMailApp: of what
\* can be seen from outside doWork does nothing else.
THEOREM Pop3ImplementsWorker == Spec => ImplementsWorker
  BY IInvHolds, StepRefines, PTL DEF Spec, ImplementsWorker

-----------------------------------------------------------------------------
(* The response to a challenge.                                            *)

\* A key that fits into a block, copied to zeros, is the key filled up.
LEMMA FilledFacts ==
  ASSUME NEW S, NEW key \in Seq(S), Len(key) <= BlockSize
  PROVE  LET filled == key \o [i \in 1..BlockSize - Len(key) |-> Byte(0)]
         IN \A i \in 1..BlockSize :
              filled[i] = IF i <= Len(key) THEN key[i] ELSE Byte(0)
  <1> DEFINE T == S \cup {Byte(0)}
             zeros == [i \in 1..BlockSize - Len(key) |-> Byte(0)]
  <1>1. /\ BlockSize \in Nat /\ Len(key) \in Nat
        /\ key \in [1..Len(key) -> S]
        BY CryptAssumption, LenProperties
  <1>2. BlockSize - Len(key) \in Nat
        BY <1>1
  <1>3. key \in [1..Len(key) -> T]
        BY <1>1
  <1>4. key \in Seq(T)
        BY <1>1, <1>3, SeqDef
  <1>5. zeros \in [1..BlockSize - Len(key) -> T]
        <2> HIDE DEF T
        <2>1. Byte(0) \in T
              BY DEF T
        <2>2. QED
              BY <2>1
  <1>6. zeros \in Seq(T)
        <2> HIDE DEF zeros, T
        <2> QED BY <1>2, <1>5, SeqDef
  <1>7. Len(zeros) = BlockSize - Len(key)
        <2>1. zeros \in [1..Len(zeros) -> T] /\ Len(zeros) \in Nat
              <3> HIDE DEF zeros, T
              <3> QED BY <1>6, LenProperties
        <2>2. 1..Len(zeros) = 1..BlockSize - Len(key)
              BY <2>1, <1>5
        <2>3. QED
              <3> HIDE DEF zeros
              <3> QED BY <1>2, <2>1, <2>2
  <1>8. \A i \in 1..Len(key) + Len(zeros) :
          (key \o zeros)[i] = IF i <= Len(key) THEN key[i]
                              ELSE zeros[i - Len(key)]
        <2> HIDE DEF zeros, T
        <2> QED BY <1>4, <1>6, ConcatProperties
  <1>9. \A j \in 1..BlockSize - Len(key) : zeros[j] = Byte(0)
        OBVIOUS
  <1>10. ASSUME NEW i \in 1..BlockSize
         PROVE  (key \o zeros)[i] = IF i <= Len(key) THEN key[i] ELSE Byte(0)
         <2> HIDE DEF zeros
         <2> QED BY <1>1, <1>7, <1>8, <1>9
  <1>11. QED
         BY <1>10

\* The digest is a sequence of its length.
LEMMA Md5Facts ==
  ASSUME NEW text
  PROVE  /\ Len(Md5(text)) = DigestSize /\ DigestSize <= BlockSize
         /\ \E S : Md5(text) \in Seq(S)
  <1> DEFINE S == {Md5(text)[i] : i \in 1..DigestSize}
  <1>1. DigestSize \in Nat /\ DigestSize <= BlockSize
        BY CryptAssumption
  <1>2. Md5(text) \in [1..DigestSize -> S]
        BY DEF Md5
  <1>3. Md5(text) \in Seq(S)
        <2> HIDE DEF S
        <2> QED BY <1>1, <1>2, SeqDef
  <1>4. Len(Md5(text)) = DigestSize
        <2> HIDE DEF S
        <2> QED BY <1>1, <1>2, <1>3, LenProperties
  <1>5. QED
        BY <1>1, <1>3, <1>4

\* hmac_md5 is HMAC for keys of any length.
LEMMA HmacFacts ==
  ASSUME NEW S, NEW key \in Seq(S), NEW text
  PROVE  hmac_md5(key, text) = HMAC(key, text)
  <1>1. Len(key) \in Nat /\ BlockSize \in Nat
        BY CryptAssumption, LenProperties
  <1>2. CASE Len(key) <= BlockSize
    <2>1. ~(Len(key) > BlockSize)
          BY <1>1, <1>2
    <2>2. FilledUp(key)
            = key \o [j \in 1..BlockSize - Len(key) |-> Byte(0)]
          BY <1>2 DEF FilledUp
    <2>3. ASSUME NEW pad
          PROVE  Padded(key, pad)
                   = [i \in 1..BlockSize |-> Xor(FilledUp(key)[i], pad)]
      <3>1. \A i \in 1..BlockSize :
              FilledUp(key)[i] = IF i <= Len(key) THEN key[i] ELSE Byte(0)
            BY <1>2, <2>2, FilledFacts
      <3>2. QED
            BY <3>1 DEF Padded
    <2>4. QED
          BY <2>1, <2>3 DEF hmac_md5, HMAC
  <1>3. CASE ~(Len(key) <= BlockSize)
    <2>1. Len(key) > BlockSize
          BY <1>1, <1>3
    <2> DEFINE k == Md5(key)
    <2>2. Len(k) = DigestSize /\ Len(k) <= BlockSize
          BY Md5Facts
    <2>3. PICK T : k \in Seq(T)
          BY Md5Facts
    <2>4. FilledUp(key) = k \o [j \in 1..BlockSize - Len(k) |-> Byte(0)]
          BY <1>3, <2>2 DEF FilledUp
    <2>5. ASSUME NEW pad
          PROVE  Padded(k, pad)
                   = [i \in 1..BlockSize |-> Xor(FilledUp(key)[i], pad)]
      <3> HIDE DEF k
      <3>1. \A i \in 1..BlockSize :
              FilledUp(key)[i] = IF i <= Len(k) THEN k[i] ELSE Byte(0)
            BY <2>2, <2>3, <2>4, FilledFacts
      <3>2. QED
            BY <3>1 DEF Padded
    <2>6. QED
          BY <2>1, <2>5 DEF hmac_md5, HMAC
  <1>4. QED
        BY <1>2, <1>3

\* The response to a challenge is the one that RFC 2195 has for it, for every
\* password, shorter or longer than a block or as long.
THEOREM ResponseIsRight ==
  ASSUME NEW S, Passwords \subseteq Seq(S)
  PROVE  Spec => []ResponseIsHmac
  <1>1. ASSUME NEW password \in Passwords
        PROVE  cram_md5("user", password, ToBase64(<<Byte("text")>>))
                 = Expected("user", password, <<Byte("text")>>)
    <2>1. FromBase64(ToBase64(<<Byte("text")>>)) = <<Byte("text")>>
          BY DEF FromBase64, ToBase64
    <2>2. hmac_md5(password, <<Byte("text")>>)
            = HMAC(password, <<Byte("text")>>)
          BY HmacFacts
    <2>3. QED
          BY <2>1, <2>2 DEF cram_md5, Expected
  <1>2. ResponseIsHmac
        BY <1>1 DEF ResponseIsHmac
  <1>3. QED
        BY <1>2, PTL
=============================================================================
