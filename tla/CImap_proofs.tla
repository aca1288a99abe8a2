----------------------------- MODULE CImap_proofs -----------------------------
(***************************************************************************)
(* Proofs about CImap, for any mailboxes, any garbage in the locals and    *)
(* any bounds: what its doWork does is what IMailProtocol says of one, its *)
(* variables keep their types, and it tells of new mail if and only if its *)
(* SEARCH has found some.                                                  *)
(***************************************************************************)
EXTENDS CImap, CMailSocket_proofs, FiniteSetTheorems, TLAPS

\* Where doWork is when it has told its result.
Late == {"end", "logout?", "close"}

\* Where doWork is when it has no connection that it could use.
Apart == {"idle", "connect", "abandon"}

\* What is visible of doWork agrees with the place where it is: a result is told
\* only on the way to LOGOUT, and before connectToHost and after a return the
\* socket is connected at most with a handshake that is under way.
IInv ==
  /\ told \in BOOLEAN
  /\ told => place \in Late
  /\ m_Socket \in {"null", "closed", "connected"}
  /\ place # "idle" => m_Socket # "null"
  /\ place = "idle" => errs = 0
  /\ place \in Apart => ~secure /\ (m_Socket = "connected" => m_UseSSL)

-----------------------------------------------------------------------------
(* The steps of the dialogue.                                              *)

\* A step of the dialogue with the server, on a connection.
Talks ==
  /\ UNCHANGED <<frame, m_UseSSL>>
  /\ m_Socket' \in {m_Socket, "closed"}
  /\ place \notin Apart
  /\ place' \notin Apart
  /\ place \in Late => place' \in Late
  /\ place # "dead" /\ (place' = "dead" => UNCHANGED object)

\* A command changes neither the socket nor what can be seen from outside.
LEMMA WriteCmdFacts ==
  ASSUME NEW cmd, NEW next, WriteCmd(cmd, next)
  PROVE  UNCHANGED <<frame, m_UseSSL, m_Socket>> /\ place' = next
  BY DEF WriteCmd, Go, connection

\* Where a failed readLine leads.
LEMMA OnFailureFacts ==
  ASSUME NEW p \in DOMAIN OnFailure
  PROVE  /\ p \notin Apart \cup {"dead"}
         /\ OnFailure[p].next \in {"end", "login", "close"}
         /\ OnFailure[p].errs \in 0..3
         /\ p \in Late => OnFailure[p].next = "close"
  <1>1. p \in {"greeting", "starttls?", "login?", "select?", "search?",
               "logout?"}
        BY DEF OnFailure
  <1>2. CASE p \in {"greeting", "login?"}
        BY <1>2 DEF OnFailure, Apart, Late
  <1>3. CASE p = "starttls?"
        BY <1>3 DEF OnFailure, Apart, Late
  <1>4. CASE p \in {"select?", "search?"}
        BY <1>4 DEF OnFailure, Apart, Late
  <1>5. CASE p = "logout?"
        BY <1>5 DEF OnFailure, Apart, Late
  <1>6. QED
        BY <1>1, <1>2, <1>3, <1>4, <1>5

Dialogue ==
  \/ StartProtocol \/ StartTLS \/ Login \/ Select \/ SelectLine \/ Search
  \/ SearchLineRead \/ ReadsBeyond \/ End \/ ReadFails

\* All that doWork does between connectToHost and close, the result excepted.
LEMMA DialogueTalks == ASSUME Dialogue PROVE Talks
  <1>1. CASE StartProtocol
        BY <1>1 DEF StartProtocol, Talks, Doing, ReadLine, Go, Apart, Late
  <1>2. CASE StartTLS
        BY <1>2, WriteCmdFacts DEF StartTLS, Talks, Doing, Go, Apart, Late
  <1>3. CASE Login
        BY <1>3, WriteCmdFacts DEF Login, Talks, Doing, ReadLine, Go, Apart, Late
  <1>4. CASE Select
        BY <1>4, WriteCmdFacts DEF Select, Talks, Doing, Go, connection, Apart,
           Late
  <1>5. CASE SelectLine
        BY <1>5 DEF SelectLine, Talks, Doing, ReadLine, Tagged, Go, Apart, Late
  <1>6. CASE Search
        BY <1>6, WriteCmdFacts DEF Search, Talks, Doing, Apart, Late
  <1>7. CASE SearchLineRead
        BY <1>7 DEF SearchLineRead, Talks, Doing, ReadLine, Tagged, Go, Apart,
           Late
  <1>8. CASE ReadsBeyond
        BY <1>8 DEF ReadsBeyond, Talks, Doing, ReadLine, Go, Apart, Late
  <1>9. CASE End
        BY <1>9, WriteCmdFacts DEF End, Talks, Doing, ReadLine, Tagged, Go,
           connection, Apart, Late
  <1>10. CASE ReadFails
        BY <1>10, OnFailureFacts DEF ReadFails, Talks, NoLine, Go, Apart, Late
  <1>11. QED
        BY <1>1, <1>2, <1>3, <1>4, <1>5, <1>6, <1>7, <1>8, <1>9, <1>10
        DEF Dialogue

-----------------------------------------------------------------------------
(* The invariant.                                                          *)

\* It holds before the first call.
LEMMA InitIInv == Init => IInv
  BY DEF Init, SocketInit, IInv, Apart

\* The connection is made, or not.
LEMMA ConnectIInv ==
  ASSUME IInv, ConnectToHost
  PROVE  /\ IInv' /\ UNCHANGED frame
         /\ place = "connect" /\ place' \in {"greeting", "abandon"}
  <1>1. CASE \E lines \in {<<Greeting>>, <<NoService>>, <<>>} : Connect(lines)
    <2>1. /\ place = "connect" /\ place' = "greeting"
          /\ UNCHANGED frame
          /\ m_Socket' \in {m_Socket, "connected"}
          BY <1>1 DEF Connect, Doing, Go, connection
    <2>2. QED
          BY <2>1 DEF IInv, frame, Apart, Late
  <1>2. CASE ConnectFails \/ HandshakeTimesOut
    <2>1. /\ place = "connect" /\ place' = "abandon"
          /\ UNCHANGED <<frame, m_UseSSL>>
          /\ \/ m_Socket' = "closed" /\ secure' = FALSE
             \/ m_Socket' = "connected" /\ secure' = secure /\ m_UseSSL
          BY <1>2 DEF ConnectFails, HandshakeTimesOut, Close, Doing, Go
    <2>2. QED
          BY <2>1 DEF IInv, frame, Apart, Late
  <1>3. QED
        BY <1>1, <1>2 DEF ConnectToHost

\* No step breaks it: one case per action, the dialogue as a whole.
LEMMA NextIInv == IInv /\ [Next]_vars => IInv'
  <1>1. SUFFICES ASSUME IInv, [Next]_vars PROVE IInv'
        OBVIOUS
  <1>2. CASE Dialogue
    <2>1. Talks
          BY <1>2, DialogueTalks
    <2>2. QED
          BY <1>1, <2>1 DEF Talks, IInv, frame, Apart
  <1>3. CASE SetError
        BY <1>1, <1>3 DEF SetError, IInv, connection
  <1>4. CASE BeginWork
        BY <1>1, <1>4 DEF BeginWork, IInv, Doing, Apart, Late
  <1>5. CASE Return
    <2>1. /\ place' = "idle" /\ told' = FALSE /\ errs' = 0
          /\ m_UseSSL' = m_UseSSL
          BY <1>5 DEF Return, Doing
    <2>2. \/ place = "abandon" /\ UNCHANGED <<m_Socket, secure>>
          \/ m_Socket' = "closed" /\ secure' = FALSE
          BY <1>5 DEF Return, Close, Doing, connection
    <2>3. told' \in BOOLEAN /\ ~told'
          BY <2>1
    <2>4. ~secure' /\ (m_Socket' = "connected" => m_UseSSL')
      <3>1. CASE place = "abandon" /\ UNCHANGED <<m_Socket, secure>>
        <4>1. ~secure /\ (m_Socket = "connected" => m_UseSSL)
              BY <1>1, <3>1 DEF IInv, Apart
        <4>2. QED
              BY <2>1, <3>1, <4>1
      <3>2. CASE m_Socket' = "closed" /\ secure' = FALSE
            BY <3>2
      <3>3. QED
            BY <2>2, <3>1, <3>2
    <2>5. m_Socket' \in {"null", "closed", "connected"}
          BY <1>1, <2>2 DEF IInv
    <2>6. QED
          BY <2>1, <2>3, <2>4, <2>5, Zenon DEF IInv
  <1>6. CASE ConnectToHost
        BY <1>1, <1>6, ConnectIInv
  <1>7. CASE Result
        BY <1>1, <1>7 DEF Result, ResultReady, IInv, Doing, connection, Apart,
           Late
  <1>8. CASE Called \/ GuiTakes
        BY <1>1, <1>8 DEF Called, GuiTakes, IInv, connection
  <1>9. CASE PeerCloses
        BY <1>1, <1>9 DEF PeerCloses, IInv, frame
  <1>10. CASE NoticeClose
         BY <1>1, <1>10 DEF NoticeClose, Close, Doing, IInv, frame
  <1>11. CASE OfferChanges
         BY <1>1, <1>11 DEF OfferChanges, IInv, socketVars, connection, frame
  <1>12. CASE UNCHANGED vars
         BY <1>1, <1>12 DEF vars, IInv, socketVars, connection, frame
  <1>13. QED
         BY <1>1, <1>2, <1>3, <1>4, <1>5, <1>6, <1>7, <1>8, <1>9, <1>10, <1>11,
            <1>12 DEF Next, Client, Dialogue

\* It holds in every state.
LEMMA IInvHolds == Spec => []IInv
  BY InitIInv, NextIInv, PTL DEF Spec

\* After every return of doWork the socket is closed, or the handshake of an
\* encrypted connection is under way.
THEOREM NoConnectionLeft == Spec => []ClosedWhenIdle
  <1>1. IInv => ClosedWhenIdle
        BY DEF IInv, ClosedWhenIdle, Apart
  <1>2. QED
        BY <1>1, IInvHolds, PTL

-----------------------------------------------------------------------------
(* The types.                                                              *)

\* The types that TypeOK does not share with CMailSocket.
ObjectOK ==
  /\ place \in Place
  /\ m_CmdSeq \in 0..MaxSeq
  /\ m_StartTLS \in BOOLEAN
  /\ nummails \in Counts
  /\ unread \in Counts
  /\ offers \in BOOLEAN
  /\ session \in {"none", "login", "selected"}
  /\ searched \in Mails \cup {None}

\* All types, with a wire and a queue of signals that are sequences: TypeOK says
\* what can be read at their indices, and not that of what follows a Tail.
Types == SocketOK(Token) /\ ObjectOK

\* The tokens and the numbers.
LEMMA Tokens ==
  /\ Cuttable(Token, Token)
  /\ \A n \in 0..MaxSeq : Tag(n) \in Token
  /\ \A mail \in Mails : \A n \in 0..mail.total : Number(n) \in Token
  /\ \A w \in {"*", "OK", "NO", "BYE", "IMAP", "STARTTLS", "EXISTS", "SEARCH",
               "CAPABILITY"} : Word(w) \in Token
  /\ \A t \in Token : t[1] = "number" => t[2] \in Counts
  /\ -1 \in Int /\ Counts \subseteq Int
  <1>1. /\ \A n \in 0..MaxSeq : Tag(n) \in Token
        /\ \A mail \in Mails : \A n \in 0..mail.total : Number(n) \in Token
        /\ \A w \in {"*", "OK", "NO", "BYE", "IMAP", "STARTTLS", "EXISTS",
                     "SEARCH", "CAPABILITY"} : Word(w) \in Token
        /\ Junk \in Token
        BY DEF Token
  <1>2. ASSUME NEW t \in Token, t[1] = "number"
        PROVE  \E mail \in Mails : \E n \in 0..mail.total : t = Number(n)
    <2>1. /\ Junk[1] # "number"
          /\ \A n : Tag(n)[1] # "number"
          /\ \A w : Word(w)[1] # "number"
          BY DEF Junk, Tag, Word
    <2>2. t \in {Number(n) : n \in UNION {0..m.total : m \in Mails}}
          BY <1>2, <2>1 DEF Token
    <2>3. QED
          BY <2>2
  <1>3. ASSUME NEW t \in Token, t[1] = "number"
        PROVE  Number(t[2] \div 10) \in Token /\ t[2] \in Counts
    <2> PICK mail \in Mails : \E n \in 0..mail.total : t = Number(n)
          BY <1>2, <1>3
    <2>1. PICK n \in 0..mail.total : t = Number(n)
          OBVIOUS
    <2>2. t[2] = n
          BY <2>1 DEF Number
    <2>3. mail.total \in Nat /\ n \div 10 \in 0..mail.total
          BY ImapAssumption
    <2>4. QED
          BY <1>1, <2>2, <2>3 DEF Counts
  <1>4. ASSUME NEW n \in Counts PROVE n \in Int
    <2>1. CASE n \in Garbage
          BY <2>1, ImapAssumption
    <2>2. CASE \E mail \in Mails : n \in {-1} \cup 0..mail.total
          BY <2>2
    <2>3. QED
          BY <2>1, <2>2 DEF Counts
  <1>5. QED
        BY <1>1, <1>3, <1>4 DEF Cuttable

\* The lines of the server, but for the answer to SEARCH.
LEMMA Lines ==
  ASSUME NEW tag \in Token
  PROVE  /\ Greeting \in Seq(Token) /\ NoService \in Seq(Token)
         /\ \A w \in {"OK", "NO"} : <<tag, Word(w)>> \in Seq(Token)
         /\ \A w \in {"BYE", "CAPABILITY"} : <<Star, Word(w)>> \in Seq(Token)
         /\ \A mail \in Mails :
              <<Star, Number(mail.total), Word("EXISTS")>> \in Seq(Token)
  <1>1. \A w \in {"*", "OK", "NO", "BYE", "IMAP", "STARTTLS", "EXISTS",
                  "CAPABILITY"} : Word(w) \in Token
        BY Tokens
  <1>2. \A mail \in Mails : Number(mail.total) \in Token
        BY Tokens, ImapAssumption
  <1>3. QED
        BY <1>1, <1>2 DEF Greeting, NoService, Star

\* The numbers of the unseen mails.
LEMMA OrderFacts ==
  ASSUME NEW mail \in Mails, NEW order \in SetToSeqs(mail.unseen)
  PROVE  /\ order \in Seq(mail.unseen)
         /\ Len(order) = Cardinality(mail.unseen)
         /\ Len(order) \in Nat
         /\ Len(order) = 0 <=> mail.unseen = {}
  <1> DEFINE unseen == mail.unseen
  <1>1. mail.total \in Nat /\ unseen \subseteq 1..mail.total
        BY ImapAssumption
  <1>2. IsFiniteSet(1..mail.total)
        BY <1>1, FS_Interval
  <1>3. IsFiniteSet(unseen)
        BY <1>1, <1>2, FS_Subset
  <1>4. Cardinality(unseen) \in Nat /\ (Cardinality(unseen) = 0 <=> unseen = {})
        BY <1>3, FS_CardinalityType, FS_EmptySet
  <1>5. order \in [1..Cardinality(unseen) -> unseen]
        BY DEF SetToSeqs
  <1> HIDE DEF unseen
  <1>6. order \in Seq(unseen)
        BY <1>4, <1>5, SeqDef
  <1>7. Len(order) = Cardinality(unseen)
        BY <1>4, <1>5, <1>6, LenProperties
  <1>8. QED
        BY <1>4, <1>6, <1>7 DEF unseen

\* The answer to SEARCH, token by token.
LEMMA SearchLineFacts ==
  ASSUME NEW mail \in Mails, NEW order \in SetToSeqs(mail.unseen)
  PROVE  /\ SearchLine(order) \in Seq(Token)
         /\ Len(SearchLine(order)) = 2 + Cardinality(mail.unseen)
         /\ SearchLine(order)[1] = Star
         /\ SearchLine(order)[2] = Word("SEARCH")
         /\ mail.unseen # {} =>
              \E n \in mail.unseen : SearchLine(order)[3] = Number(n)
  <1> DEFINE head == <<Star, Word("SEARCH")>>
             numbers == [i \in 1..Len(order) |-> Number(order[i])]
  <1>1. /\ Len(order) = Cardinality(mail.unseen) /\ Len(order) \in Nat
        /\ Len(order) = 0 <=> mail.unseen = {}
        /\ \A i \in 1..Len(order) : order[i] \in mail.unseen
        BY OrderFacts, ElementOfSeq
  <1>2. \A n \in mail.unseen : Number(n) \in Token
        BY Tokens, ImapAssumption
  <1>3. numbers \in [1..Len(order) -> Token]
        BY <1>1, <1>2
  <1>4. head \in Seq(Token) /\ Len(head) = 2
        BY Tokens DEF Star
  <1>5. \A i \in 1..Len(order) : numbers[i] = Number(order[i])
        OBVIOUS
  <1>6. SearchLine(order) = head \o numbers /\ head[1] = Star
          /\ head[2] = Word("SEARCH")
        BY DEF SearchLine
  <1> HIDE DEF head, numbers
  <1>7. numbers \in Seq(Token)
        BY <1>1, <1>3, SeqDef
  <1>8. Len(numbers) = Len(order)
        BY <1>1, <1>3, <1>7, LenProperties
  <1>9. /\ head \o numbers \in Seq(Token)
        /\ Len(head \o numbers) = 2 + Len(order)
        /\ (head \o numbers)[1] = head[1] /\ (head \o numbers)[2] = head[2]
        /\ Len(order) > 0 => (head \o numbers)[3] = numbers[1]
    <2>1. /\ head \o numbers \in Seq(Token)
          /\ Len(head \o numbers) = Len(head) + Len(numbers)
          /\ \A i \in 1..Len(head) + Len(numbers) :
               (head \o numbers)[i] = IF i <= Len(head) THEN head[i]
                                      ELSE numbers[i - Len(head)]
          BY <1>4, <1>7, ConcatProperties
    <2>2. QED
          BY <1>1, <1>4, <1>8, <2>1
  <1>10. QED
         BY <1>1, <1>5, <1>6, <1>9

\* What an answer adds to the wire: nothing, a refusal, a login with the
\* capabilities before it, or what grants the command.
Adds(lines, cmd, tag) ==
  \/ lines = <<>> /\ UNCHANGED searched
  \/ Understood /\ lines = <<<<tag, Word("NO")>>>> /\ UNCHANGED searched
  \/ /\ Understood /\ cmd = "LOGIN" /\ UNCHANGED searched
     /\ lines = <<<<Star, Word("CAPABILITY")>>, <<tag, Word("OK")>>>>
  \/ /\ Understood
     /\ \E mail \in Mails : \E order \in SetToSeqs(mail.unseen) :
          /\ lines = Granted(cmd, tag, mail, order)
          /\ searched' = IF cmd = "SEARCH" THEN mail ELSE searched
     /\ cmd = "STARTTLS" => peer = "plain" /\ peer' = "tls"

\* Whatever the server answers, it adds lines to the wire, and keeps the types.
LEMMA AnswersFacts ==
  ASSUME Types, NEW cmd, NEW tag \in Token, Answers(cmd, tag)
  PROVE  /\ \E lines \in Seq(Seq(Token)) :
              wire' = wire \o lines /\ Adds(lines, cmd, tag)
         /\ wire' \in Seq(Seq(Token))
         /\ peer' \in {"none", "plain", "tls", "gone"}
         /\ session' \in {"none", "login", "selected"}
         /\ searched' \in Mails \cup {None}
  <1>1. /\ wire \in Seq(Seq(Token))
        /\ peer \in {"none", "plain", "tls", "gone"}
        /\ session \in {"none", "login", "selected"}
        /\ searched \in Mails \cup {None}
        BY DEF Types, SocketOK, ConnectionOK, ObjectOK
  <1>2. /\ peer' \in {"tls", "gone", peer}
        /\ session' \in {"login", "selected", session}
        BY DEF Answers, Grants, Refuses
  <1>3. \E lines \in Seq(Seq(Token)) :
          wire' = wire \o lines /\ Adds(lines, cmd, tag)
    <2>1. CASE Understood /\ Grants(cmd, tag)
      <3>1. PICK mail \in Mails :
              \E order \in SetToSeqs(mail.unseen) :
                /\ wire' = wire \o Granted(cmd, tag, mail, order)
                /\ searched' = IF cmd = "SEARCH" THEN mail ELSE searched
            BY <2>1 DEF Grants
      <3>2. PICK order \in SetToSeqs(mail.unseen) :
              /\ wire' = wire \o Granted(cmd, tag, mail, order)
              /\ searched' = IF cmd = "SEARCH" THEN mail ELSE searched
            BY <3>1
      <3>3. Granted(cmd, tag, mail, order) \in Seq(Seq(Token))
            BY SearchLineFacts, Lines DEF Granted
      <3>4. cmd = "STARTTLS" => peer = "plain" /\ peer' = "tls"
            BY <2>1 DEF Grants
      <3>5. QED
            BY <2>1, <3>2, <3>3, <3>4 DEF Adds
    <2>2. CASE Understood /\ Refuses(cmd, tag)
      <3>1. <<<<tag, Word("NO")>>>> \in Seq(Seq(Token))
            BY Lines
      <3>2. <<<<Star, Word("CAPABILITY")>>, <<tag, Word("OK")>>>>
              \in Seq(Seq(Token))
            BY Lines
      <3>3. Append(wire, <<tag, Word("NO")>>) = wire \o <<<<tag, Word("NO")>>>>
            BY <1>1, Lines, AppendIsConcat
      <3>4. QED
            BY <2>2, <3>1, <3>2, <3>3 DEF Refuses, Adds
    <2>3. CASE UNCHANGED <<wire, session, searched>>
      <3>1. <<>> \in Seq(Seq(Token)) /\ wire \o <<>> = wire
            BY <1>1, EmptySeq, ConcatEmptySeq
      <3>2. QED
            BY <2>3, <3>1 DEF Adds
    <2>4. QED
          BY <2>1, <2>2, <2>3 DEF Answers
  <1>4. wire' \in Seq(Seq(Token))
        BY <1>1, <1>3, ConcatProperties
  <1>5. searched' \in Mails \cup {None}
        BY <1>1, <1>3 DEF Adds
  <1>6. QED
        BY <1>1, <1>2, <1>3, <1>4, <1>5

\* writeCmd keeps them, and its number is in its range again.
LEMMA WriteCmdType ==
  ASSUME Types, NEW cmd, NEW next \in Place, WriteCmd(cmd, next)
  PROVE  /\ SocketOK(Token)'
         /\ place' \in Place
         /\ m_CmdSeq' \in 0..MaxSeq
         /\ offers' \in BOOLEAN
         /\ session' \in {"none", "login", "selected"}
         /\ searched' \in Mails \cup {None}
  <1>1. m_CmdSeq' \in 0..MaxSeq
        BY ImapAssumption DEF WriteCmd, Types, ObjectOK
  <1>2. place' = next /\ offers' = offers /\ \E n \in {0, 1} : Go(next, n)
        BY DEF WriteCmd, Go
  <1>3. CASE m_Socket = "connected"
    <2>1. Answers(cmd, Tag(m_CmdSeq')) /\ UNCHANGED <<m_Socket, secure, cut>>
          BY <1>3 DEF WriteCmd
    <2>2. Tag(m_CmdSeq') \in Token
          BY <1>1, Tokens
    <2>3. /\ wire' \in Seq(Seq(Token))
          /\ peer' \in {"none", "plain", "tls", "gone"}
          /\ session' \in {"none", "login", "selected"}
          /\ searched' \in Mails \cup {None}
          BY <2>1, <2>2, AnswersFacts
    <2>4. ConnectionOK(Token)'
          BY <2>1, <2>3 DEF ConnectionOK, Types, SocketOK
    <2>5. QED
          BY <1>1, <1>2, <2>3, <2>4, GoType DEF Types, ObjectOK
  <1>4. CASE m_Socket # "connected"
    <2>1. UNCHANGED <<connection, session, searched>>
          BY <1>4 DEF WriteCmd
    <2>2. ConnectionOK(Token)'
          BY <2>1 DEF connection, ConnectionOK, Types, SocketOK
    <2>3. QED
          BY <1>1, <1>2, <2>1, <2>2, GoType DEF Types, ObjectOK
  <1>5. QED
        BY <1>3, <1>4

\* A line is read, and doWork goes on.
LEMMA ReadType ==
  ASSUME Types, NEW line \in Readable, ReadLine(line),
         NEW p, NEW n \in 0..3, Go(p, n)
  PROVE  /\ SocketOK(Token)' /\ place' = p
         /\ \A i \in Nat \ {0} : At(line, i) \in Token
  <1>1. Junk \in Token /\ wire \in Seq(Seq(Token))
        BY Tokens DEF Cuttable, Types, SocketOK, ConnectionOK
  <1>2. line \in Seq(Token)
        BY <1>1, Tokens, ReadableType
  <1>3. ConnectionOK(Token)'
        BY <1>1, ReadLineType DEF Types, SocketOK
  <1>4. SocketOK(Token)'
        BY <1>3, GoType DEF Types
  <1>5. QED
        BY <1>1, <1>2, <1>4, AtType DEF Go

\* A tagged line leads on.
LEMMA TaggedFacts ==
  ASSUME NEW next, NEW line, Tagged(next, line)
  PROVE  At(line, 1) # Star /\ \E n \in {0, 1} : Go(next, n)
  BY DEF Tagged

\* The counts that the code sets itself.
LEMMA CountFacts == {-1, 0} \cup Garbage \subseteq Counts
  BY ImapAssumption DEF Counts

\* Before the first call all types are right.
LEMMA InitTypes == Init => Types
  <1>1. Init => SocketOK(Token)
        BY SocketInitType DEF Init
  <1>2. Init => ObjectOK
    <2>1. 0 \in 0..MaxSeq /\ 0 \in Counts /\ -1 \in Counts /\ "idle" \in Place
          BY CountFacts, ImapAssumption DEF Place
    <2>2. QED
          BY <2>1 DEF Init, SocketInit, ObjectOK
  <1>3. QED
        BY <1>1, <1>2 DEF Types

\* The connection and the greeting keep them.
LEMMA GreetingTypes ==
  ASSUME Types, ConnectToHost \/ StartProtocol
  PROVE  Types'
  <1>1. CASE ConnectToHost
    <2>1. \A lines \in {<<Greeting>>, <<NoService>>, <<>>} :
            lines \in Seq(Seq(Token))
      <3>1. Greeting \in Seq(Token) /\ NoService \in Seq(Token)
            BY Tokens, Lines DEF Cuttable
      <3>2. <<Greeting>> \in Seq(Seq(Token)) /\ <<NoService>> \in Seq(Seq(Token))
            BY <3>1
      <3>3. QED
            BY <3>2, EmptySeq
    <2>2. SocketOK(Token)'
          BY <1>1, <2>1, ConnectType, UnconnectedType DEF ConnectToHost, Types
    <2>3. /\ place' \in {"greeting", "abandon"}
          /\ UNCHANGED <<object, offers, searched>>
          /\ session' \in {"none", session}
          BY <1>1 DEF ConnectToHost, Connect, ConnectFails, HandshakeTimesOut,
             Go, server
    <2>4. QED
          BY <2>2, <2>3 DEF Types, ObjectOK, Place, object
  <1>2. CASE StartProtocol
    <2>1. PICK line \in Readable :
            /\ ReadLine(line)
            /\ \E p \in {"starttls", "login", "end"}, n \in {0, 1} : Go(p, n)
            /\ m_StartTLS' \in {m_StartTLS, m_StartTLS
                                  \/ Word("STARTTLS") \in Range(line)}
          BY <1>2 DEF StartProtocol
    <2>2. SocketOK(Token)' /\ place' \in {"starttls", "login", "end"}
          BY <2>1, ReadType
    <2>3. m_StartTLS' \in BOOLEAN
          BY <2>1 DEF Types, ObjectOK
    <2>4. UNCHANGED <<m_CmdSeq, nummails, unread, server>>
          BY <1>2 DEF StartProtocol
    <2>5. QED
          BY <2>2, <2>3, <2>4 DEF Types, ObjectOK, Place, server
  <1>3. QED
        BY <1>1, <1>2

\* login keeps them.
LEMMA LoginTypes ==
  ASSUME Types, StartTLS \/ Login
  PROVE  Types'
  <1>1. CASE (StartTLS \/ Login) /\ (Doing("starttls") \/ Doing("login"))
    <2>1. /\ \/ WriteCmd("STARTTLS", "starttls?")
             \/ WriteCmd("LOGIN", "login?")
          /\ UNCHANGED <<m_StartTLS, nummails, unread>>
          BY <1>1 DEF StartTLS, Login, Doing
    <2>2. "starttls?" \in Place /\ "login?" \in Place
          BY DEF Place
    <2>3. QED
          BY <2>1, <2>2, WriteCmdType DEF Types, ObjectOK
  <1>2. CASE StartTLS /\ Doing("starttls?")
    <2>1. /\ StartClientEncryption(Tail(wire)) /\ Go("login", 0)
          /\ UNCHANGED <<m_Socket, cut, object, server>>
          BY <1>2 DEF StartTLS, Doing
    <2>2. ConnectionOK(Token)'
      <3>1. /\ wire' = <<>> /\ secure' = TRUE /\ peer' \in {peer, "gone"}
            /\ UNCHANGED <<m_Socket, cut>>
            BY <2>1 DEF StartClientEncryption
      <3>2. QED
            BY <3>1, EmptySeq DEF Types, SocketOK, ConnectionOK
    <2>3. SocketOK(Token)' /\ place' = "login"
          BY <2>1, <2>2, GoType DEF Types, Go
    <2>4. QED
          BY <2>1, <2>3 DEF Types, ObjectOK, Place, object, server
  <1>3. CASE Login /\ Doing("login?")
    <2>1. /\ \E line \in Readable :
               /\ ReadLine(line)
               /\ \E p \in {"select", "end"}, n \in {0, 1} : Go(p, n)
          /\ UNCHANGED <<object, server>>
          BY <1>3 DEF Login, Doing
    <2>2. SocketOK(Token)' /\ place' \in {"select", "end"}
          BY <2>1, ReadType
    <2>3. QED
          BY <2>1, <2>2 DEF Types, ObjectOK, Place, object, server
  <1>4. QED
        BY <1>1, <1>2, <1>3 DEF StartTLS, Login, Doing

\* getMail keeps them.
LEMMA GetMailTypes ==
  ASSUME Types, Select \/ SelectLine \/ Search \/ SearchLineRead
  PROVE  Types'
  <1>1. CASE Select
    <2>1. m_StartTLS' = m_StartTLS /\ nummails' \in Counts /\ unread' \in Counts
          BY <1>1, CountFacts DEF Select
    <2>2. CASE isConnected
      <3>1. WriteCmd("SELECT", "select?")
            BY <1>1, <2>2 DEF Select
      <3>2. "select?" \in Place
            BY DEF Place
      <3>3. QED
            BY <2>1, <3>1, <3>2, WriteCmdType DEF Types, ObjectOK
    <2>3. CASE ~isConnected
      <3>1. Go("end", 1) /\ UNCHANGED <<m_CmdSeq, connection, server>>
            BY <1>1, <2>3 DEF Select
      <3>2. ConnectionOK(Token)'
            BY <3>1 DEF connection, ConnectionOK, Types, SocketOK
      <3>3. SocketOK(Token)' /\ place' = "end"
            BY <3>1, <3>2, GoType DEF Types, Go
      <3>4. QED
            BY <2>1, <3>1, <3>3 DEF Types, ObjectOK, Place, server
    <2>4. QED
          BY <2>2, <2>3
  <1>2. CASE SelectLine
    <2>1. PICK line \in Readable :
            /\ ReadLine(line)
            /\ \E p \in {"search", "select?", "end"}, n \in {0, 1} : Go(p, n)
            /\ nummails' = nummails
                 \/ (At(line, 2)[1] = "number" /\ nummails' = At(line, 2)[2])
          BY <1>2, TaggedFacts DEF SelectLine
    <2>2. /\ SocketOK(Token)' /\ place' \in {"search", "select?", "end"}
          /\ At(line, 2) \in Token
          BY <2>1, ReadType
    <2>3. nummails' \in Counts
          BY <2>1, <2>2, Tokens DEF Types, ObjectOK
    <2>4. UNCHANGED <<m_CmdSeq, m_StartTLS, unread, server>>
          BY <1>2 DEF SelectLine
    <2>5. QED
          BY <2>2, <2>3, <2>4 DEF Types, ObjectOK, Place, server
  <1>3. CASE Search
    <2>1. /\ WriteCmd("SEARCH", "search?")
          /\ UNCHANGED <<m_StartTLS, nummails, unread>>
          BY <1>3 DEF Search
    <2>2. "search?" \in Place
          BY DEF Place
    <2>3. QED
          BY <2>1, <2>2, WriteCmdType DEF Types, ObjectOK
  <1>4. CASE SearchLineRead
    <2>1. PICK line \in Readable :
            /\ ReadLine(line)
            /\ \E p \in {"result", "search?", "end"}, n \in {0, 1} : Go(p, n)
            /\ unread' \in {unread, 0}
                 \/ (At(line, 3)[1] = "number" /\ unread' = At(line, 3)[2])
          BY <1>4, TaggedFacts DEF SearchLineRead
    <2>2. /\ SocketOK(Token)' /\ place' \in {"result", "search?", "end"}
          /\ At(line, 3) \in Token
          BY <2>1, ReadType
    <2>3. unread' \in Counts
          BY <2>1, <2>2, Tokens, CountFacts DEF Types, ObjectOK
    <2>4. UNCHANGED <<m_CmdSeq, m_StartTLS, nummails, server>>
          BY <1>4 DEF SearchLineRead
    <2>5. QED
          BY <2>2, <2>3, <2>4 DEF Types, ObjectOK, Place, server
  <1>5. QED
        BY <1>1, <1>2, <1>3, <1>4

\* So does end.
LEMMA EndTypes ==
  ASSUME Types, End
  PROVE  Types'
  <1>1. CASE Doing("end")
    <2>1. m_StartTLS' = m_StartTLS /\ nummails' \in Counts /\ unread' \in Counts
          BY <1>1, CountFacts DEF End, Doing
    <2>2. CASE WriteCmd("LOGOUT", "logout?")
      <3>1. "logout?" \in Place
            BY DEF Place
      <3>2. QED
            BY <2>1, <2>2, <3>1, WriteCmdType DEF Types, ObjectOK
    <2>3. CASE Go("close", 0) /\ UNCHANGED <<m_CmdSeq, connection, server>>
      <3>1. ConnectionOK(Token)'
            BY <2>3 DEF connection, ConnectionOK, Types, SocketOK
      <3>2. SocketOK(Token)' /\ place' = "close"
            BY <2>3, <3>1, GoType DEF Types, Go
      <3>3. QED
            BY <2>1, <2>3, <3>2 DEF Types, ObjectOK, Place, server
    <2>4. QED
          BY <1>1, <2>2, <2>3 DEF End, Doing
  <1>2. CASE Doing("logout?")
    <2>1. /\ \E line \in Readable :
               /\ ReadLine(line)
               /\ \E p \in {"close", "logout?"}, n \in {0, 1} : Go(p, n)
          /\ UNCHANGED <<object, server>>
          BY <1>2, TaggedFacts DEF End, Doing
    <2>2. SocketOK(Token)' /\ place' \in {"close", "logout?"}
          BY <2>1, ReadType
    <2>3. QED
          BY <2>1, <2>2 DEF Types, ObjectOK, Place, object, server
  <1>3. QED
        BY <1>1, <1>2 DEF End

\* And the answers that fail, whatever doWork waits for.
LEMMA FailureTypes ==
  ASSUME Types, ReadsBeyond \/ ReadFails
  PROVE  Types'
  <1>1. CASE ReadsBeyond
    <2>1. /\ \E line \in Readable : ReadLine(line)
          /\ Go("dead", 0)
          /\ UNCHANGED <<object, server>>
          BY <1>1 DEF ReadsBeyond
    <2>2. SocketOK(Token)' /\ place' = "dead"
          BY <2>1, ReadType
    <2>3. QED
          BY <2>1, <2>2 DEF Types, ObjectOK, Place, object, server
  <1>2. CASE ReadFails
    <2>1. /\ OnFailure[place].next \in {"end", "login", "close"}
          /\ OnFailure[place].errs \in 0..3
          BY <1>2, OnFailureFacts DEF ReadFails
    <2>2. ConnectionOK(Token)'
          BY <1>2, NoLineType DEF ReadFails, Types, SocketOK
    <2>3. SocketOK(Token)' /\ place' \in {"end", "login", "close"}
          BY <1>2, <2>1, <2>2, GoType DEF ReadFails, Types, Go
    <2>4. QED
          BY <1>2, <2>3 DEF ReadFails, Types, ObjectOK, Place, object, server
  <1>3. QED
        BY <1>1, <1>2

\* No step breaks a type.
LEMMA NextTypes == Types /\ [Next]_vars => Types'
  <1>1. SUFFICES ASSUME Types, [Next]_vars PROVE Types'
        OBVIOUS
  <1>2. CASE Dialogue \/ ConnectToHost
        BY <1>1, <1>2, GreetingTypes, LoginTypes, GetMailTypes, EndTypes,
           FailureTypes DEF Dialogue
  <1>3. CASE (SetError \/ BeginWork \/ Called \/ GuiTakes \/ PeerCloses
                \/ NoticeClose) /\ UNCHANGED <<object, server>>
    <2>1. SocketOK(Token)'
          BY <1>1, <1>3, FrameStepType DEF Types
    <2>2. place' \in {place, "connect"}
          BY <1>3 DEF SetError, BeginWork, Called, GuiTakes, PeerCloses,
             NoticeClose
    <2>3. QED
          BY <1>1, <1>3, <2>1, <2>2 DEF Types, ObjectOK, Place, object, server
  <1>4. CASE Return /\ Over
    <2>1. SocketOK(Token)' /\ place' = "idle"
          BY <1>1, <1>4, FrameStepType DEF Types, Return
    <2>2. QED
          BY <1>1, <1>4, <2>1 DEF Over, Types, ObjectOK, Place, object
  <1>5. CASE Result
    <2>1. unread \in Int /\ nummails - unread \in Int
          BY <1>1, Tokens DEF Types, ObjectOK
    <2>2. SocketOK(Token)' /\ place' = "end"
          BY <1>1, <1>5, <2>1, ResultType DEF Result, ResultReady, Types
    <2>3. QED
          BY <1>1, <1>5, <2>2 DEF Result, Types, ObjectOK, Place, object, server
  <1>6. CASE OfferChanges
        BY <1>1, <1>6 DEF OfferChanges, Types, SocketOK, ConnectionOK, FrameOK,
           ObjectOK, socketVars, connection, frame, object
  <1>7. CASE UNCHANGED vars
        BY <1>1, <1>7 DEF vars, Types, SocketOK, ConnectionOK, FrameOK,
           ObjectOK, socketVars, connection, frame, object, server
  <1>8. QED
        BY <1>1, <1>2, <1>3, <1>4, <1>5, <1>6, <1>7 DEF Next, Client, Dialogue

\* All types are right in every state.
LEMMA TypesHold == Spec => []Types
  BY InitTypes, NextTypes, PTL DEF Spec

\* What doWork reads and keeps has the types that the code takes it to have:
\* among them the tags after 999 commands (writeCmd) and the counts.
THEOREM ImapTypes == Spec => []TypeOK
  <1>1. Types => TypeOK
        BY SocketTypes DEF Types, ObjectOK, TypeOK
  <1>2. QED
        BY <1>1, TypesHold, PTL

-----------------------------------------------------------------------------
(* The answers.                                                            *)

\* A line that lets login go on.
Grant(line) == At(line, 2) = Word("OK")

\* The next line, if there is one, is none.
Quiet == wire = <<>> \/ ~Grant(Head(wire))

\* The answers to the commands before LOGIN: a greeting that is late, or an
\* answer to STARTTLS that is, can be taken for the answer to LOGIN only if there
\* will be no other, because the client and the server do not understand each
\* other any more.
LoginAnswers ==
  /\ place = "greeting" => Len(wire) <= 1
  /\ place = "starttls" => wire = <<>>
  /\ place = "starttls?" => Len(wire) <= 1 /\ (Quiet \/ ~Understood)
  /\ place = "login" => Quiet \/ (Len(wire) = 1 /\ ~Understood)
  /\ place = "login?" => Quiet \/ Len(wire) = 1

\* The count that getMail has agrees with what was there at the SEARCH.
Right == unread > 0 <=> searched.unseen # {}

\* The answer to the SEARCH is still to be read.
Unread ==
  /\ Len(wire) = 2
  /\ \E order \in SetToSeqs(searched.unseen) : wire[1] = SearchLine(order)
  /\ At(wire[2], 1) # Star

\* The answers in getMail: a command is written to an empty wire, so that the
\* lines that are read are those of its answer.
MailAnswers ==
  /\ place \in {"select", "search"} => wire = <<>>
  /\ place = "select?" => \A i \in 1..Len(wire) - 1 : At(wire[i], 1) = Star
  /\ place = "search?" /\ searched # None =>
       \/ Unread
       \/ Right /\ \A i \in 1..Len(wire) : At(wire[i], 1) # Star
  /\ place = "result" /\ searched # None => Right

\* A SEARCH is one of this call, and the answers are as they should be unless a
\* line was cut.
AnswersOK ==
  /\ searched # None =>
       place \in {"search?", "result", "end", "logout?", "close", "dead"}
  /\ ~cut => LoginAnswers /\ MailAnswers

\* The places that AnswersOK says nothing of, once there is a SEARCH or before.
LEMMA ElsewhereFacts ==
  ASSUME place' \in {"end", "logout?", "close", "dead"}
           \/ (searched' = None /\ place' \in {"idle", "connect", "abandon"})
  PROVE  AnswersOK'
  BY DEF AnswersOK, LoginAnswers, MailAnswers

\* A sequence that is added to an empty wire is the wire, and one that is added
\* to another leaves its head.
LEMMA AddedFacts ==
  ASSUME Types, NEW lines \in Seq(Seq(Token)), wire' = wire \o lines
  PROVE  /\ wire = <<>> => wire' = lines
         /\ wire # <<>> => wire' # <<>> /\ Head(wire') = Head(wire)
         /\ lines = <<>> => wire' = wire
  <1>1. wire \in Seq(Seq(Token))
        BY DEF Types, SocketOK, ConnectionOK
  <1>2. /\ wire = <<>> => wire' = lines
        /\ lines = <<>> => wire' = wire
        BY <1>1, ConcatEmptySeq
  <1>3. ASSUME wire # <<>>
        PROVE  wire' # <<>> /\ Head(wire') = Head(wire)
    <2>1. /\ Len(wire) \in Nat \ {0} /\ Len(lines) \in Nat
          /\ Head(wire) = wire[1]
          BY <1>1, <1>3, TailFacts, LenProperties
    <2>2. /\ wire' \in Seq(Seq(Token))
          /\ Len(wire') = Len(wire) + Len(lines)
          /\ wire'[1] = wire[1]
          BY <1>1, <2>1, ConcatProperties
    <2>3. wire' # <<>>
          BY <2>1, <2>2, EmptySeq
    <2>4. Head(wire') = wire'[1]
          BY <2>2, <2>3, TailFacts
    <2>5. QED
          BY <2>1, <2>2, <2>3, <2>4
  <1>4. QED
        BY <1>2, <1>3

\* A command: what its answer, if there is one, adds to the wire.
LEMMA CommandFacts ==
  ASSUME Types, NEW cmd, NEW next, WriteCmd(cmd, next)
  PROVE  /\ place' = next /\ UNCHANGED <<secure, cut>>
         /\ cmd # "SEARCH" => searched' = searched
         /\ \/ UNCHANGED <<connection, searched>>
            \/ \E lines \in Seq(Seq(Token)), n \in 0..MaxSeq :
                 wire' = wire \o lines /\ Adds(lines, cmd, Tag(n))
  <1>1. m_CmdSeq' \in 0..MaxSeq
        BY ImapAssumption DEF WriteCmd, Types, ObjectOK
  <1>2. Tag(m_CmdSeq') \in Token
        BY <1>1, Tokens
  <1>3. QED
        BY <1>1, <1>2, AnswersFacts DEF WriteCmd, Go, connection, Adds

\* The tag of an answer is no star.
LEMMA TagFacts ==
  ASSUME NEW n, NEW w
  PROVE  At(<<Tag(n), w>>, 1) # Star /\ At(<<Tag(n), w>>, 2) = w
  BY DEF At, Tag, Star, Word

\* A line is read whole: the facts about the wire that is left.
LEMMA ReadFacts ==
  ASSUME Types, NEW line, ReadLine(line), ~cut'
  PROVE  /\ ~cut /\ wire # <<>> /\ line = Head(wire) /\ line = wire[1]
         /\ Len(wire) \in Nat \ {0} /\ Len(wire') = Len(wire) - 1
         /\ \A i \in 1..Len(wire') : wire'[i] = wire[i + 1]
         /\ Len(wire) = 1 => wire' = <<>>
  <1>1. wire \in Seq(Seq(Token))
        BY DEF Types, SocketOK, ConnectionOK
  <1>2. /\ ~cut /\ wire # <<>> /\ line = Head(wire) /\ wire' = Tail(wire)
        BY ReadLineWhole
  <1>3. QED
        BY <1>1, <1>2, TailFacts

\* The greeting is the only line of a new connection.
LEMMA GreetingAnswers ==
  ASSUME IInv, Types, AnswersOK, ConnectToHost \/ StartProtocol
  PROVE  AnswersOK'
  <1>1. CASE ConnectToHost
    <2>1. /\ searched' = None /\ place = "connect"
          BY <1>1 DEF ConnectToHost, Connect, ConnectFails, HandshakeTimesOut,
             Doing, AnswersOK, server
    <2>2. CASE place' = "abandon"
          BY <2>1, <2>2, ElsewhereFacts
    <2>3. CASE \E lines \in {<<Greeting>>, <<NoService>>, <<>>} : Connect(lines)
      <3>1. ~(m_Socket = "connected" /\ ~m_UseSSL)
            BY <2>1 DEF IInv, Apart
      <3>2. PICK lines \in {<<Greeting>>, <<NoService>>, <<>>} :
              wire' = lines /\ place' = "greeting"
            BY <2>3, <3>1 DEF Connect, Go
      <3>3. Len(wire') <= 1
            BY <3>2
      <3>4. QED
            BY <2>1, <3>2, <3>3 DEF AnswersOK, LoginAnswers, MailAnswers
    <2>4. QED
          BY <1>1, <2>2, <2>3
          DEF ConnectToHost, ConnectFails, HandshakeTimesOut, Go
  <1>2. CASE StartProtocol
    <2>1. PICK line \in Readable :
            ReadLine(line) /\ place' \in {"starttls", "login", "end"}
          BY <1>2 DEF StartProtocol, Go
    <2>2. searched' = None /\ place = "greeting"
          BY <1>2 DEF StartProtocol, Doing, AnswersOK, server
    <2>3. ASSUME ~cut' PROVE wire' = <<>>
      <3>1. Len(wire) <= 1
            BY <2>1, <2>2, <2>3, ReadFacts DEF AnswersOK, LoginAnswers
      <3>2. QED
            BY <2>1, <2>3, <3>1, ReadFacts
    <2>4. QED
          BY <2>1, <2>2, <2>3 DEF AnswersOK, LoginAnswers, MailAnswers, Quiet
  <1>3. QED
        BY <1>1, <1>2

\* STARTTLS and its answer, which leaves no line on the wire.
LEMMA StartTLSAnswers ==
  ASSUME Types, AnswersOK, StartTLS
  PROVE  AnswersOK'
  <1>1. CASE Doing("starttls")
    <2>1. WriteCmd("STARTTLS", "starttls?") /\ place = "starttls"
          BY <1>1 DEF StartTLS, Doing
    <2>2. searched = None /\ searched' = None /\ place' = "starttls?"
          BY <2>1, CommandFacts DEF AnswersOK
    <2>3. SUFFICES ASSUME ~cut' PROVE Len(wire') <= 1 /\ (Quiet' \/ ~Understood')
          BY <2>2 DEF AnswersOK, LoginAnswers, MailAnswers
    <2>4. wire = <<>> /\ ~cut
          BY <2>1, <2>3, CommandFacts DEF AnswersOK, LoginAnswers
    <2>5. CASE UNCHANGED <<connection, searched>>
          BY <2>2, <2>4, <2>5 DEF connection, Quiet
    <2>6. ASSUME NEW lines \in Seq(Seq(Token)), NEW n \in 0..MaxSeq,
                 wire' = wire \o lines, Adds(lines, "STARTTLS", Tag(n))
          PROVE  Len(wire') <= 1 /\ (Quiet' \/ ~Understood')
      <3>1. wire' = lines
            BY <2>4, <2>6, AddedFacts
      <3>2. CASE lines = <<>>
            BY <3>1, <3>2 DEF Quiet
      <3>3. CASE lines = <<<<Tag(n), Word("NO")>>>>
        <4>1. Head(lines) = <<Tag(n), Word("NO")>> /\ Len(lines) = 1
              BY <3>3
        <4>2. ~Grant(Head(lines))
              BY <4>1, TagFacts DEF Grant, Word
        <4>3. QED
              BY <3>1, <4>1, <4>2 DEF Quiet
      <3>4. CASE /\ Understood
                 /\ peer = "plain" /\ peer' = "tls"
                 /\ lines = <<<<Tag(n), Word("OK")>>>>
        <4>1. secure # TRUE /\ secure' = secure
              BY <2>1, <3>4, CommandFacts DEF Understood
        <4>2. ~Understood'
              BY <3>4, <4>1 DEF Understood
        <4>3. Len(lines) = 1
              BY <3>4
        <4>4. QED
              BY <3>1, <4>2, <4>3
      <3>5. QED
            BY <2>6, <3>2, <3>3, <3>4 DEF Adds, Granted
    <2>7. QED
          BY <2>1, <2>5, <2>6, CommandFacts
  <1>2. CASE Doing("starttls?")
    <2>1. /\ wire' = <<>> /\ place' = "login" /\ searched' = searched
          /\ place = "starttls?"
          BY <1>2 DEF StartTLS, Doing, StartClientEncryption, Go, server
    <2>2. QED
          BY <2>1 DEF AnswersOK, LoginAnswers, MailAnswers, Quiet
  <1>3. QED
        BY <1>1, <1>2 DEF StartTLS

\* LOGIN: if its answer is taken for the one that grants it, nothing else is to
\* be read.
LEMMA LoginAnswersStep ==
  ASSUME Types, AnswersOK, Login
  PROVE  AnswersOK'
  <1>1. CASE Doing("login")
    <2>1. WriteCmd("LOGIN", "login?") /\ place = "login"
          BY <1>1 DEF Login, Doing
    <2>2. searched = None /\ searched' = None /\ place' = "login?"
          BY <2>1, CommandFacts DEF AnswersOK
    <2>3. SUFFICES ASSUME ~cut' PROVE Quiet' \/ Len(wire') = 1
          BY <2>2 DEF AnswersOK, LoginAnswers, MailAnswers
    <2>4. Quiet \/ (Len(wire) = 1 /\ ~Understood)
          BY <2>1, <2>3, CommandFacts DEF AnswersOK, LoginAnswers
    <2>5. CASE UNCHANGED <<connection, searched>>
          BY <2>2, <2>4, <2>5 DEF connection, Quiet
    <2>6. ASSUME NEW lines \in Seq(Seq(Token)), NEW n \in 0..MaxSeq,
                 wire' = wire \o lines, Adds(lines, "LOGIN", Tag(n))
          PROVE  Quiet' \/ Len(wire') = 1
      <3>1. CASE lines = <<>>
            BY <2>4, <2>6, <3>1, AddedFacts DEF Quiet
      <3>2. CASE lines # <<>> /\ wire # <<>>
        <4>1. Understood
              BY <2>6, <3>2 DEF Adds
        <4>2. ~Grant(Head(wire))
              BY <2>4, <3>2, <4>1 DEF Quiet
        <4>3. QED
              BY <2>6, <3>2, <4>2, AddedFacts DEF Quiet
      <3>3. CASE lines # <<>> /\ wire = <<>>
        <4>1. wire' = lines
              BY <2>6, <3>3, AddedFacts
        <4>2. CASE lines = <<<<Tag(n), Word("NO")>>>>
              BY <4>1, <4>2, TagFacts DEF Quiet, Grant, Word
        <4>3. CASE lines = <<<<Star, Word("CAPABILITY")>>,
                             <<Tag(n), Word("OK")>>>>
              BY <4>1, <4>3 DEF Quiet, Grant, Word, At
        <4>4. CASE lines = <<<<Tag(n), Word("OK")>>>>
              BY <4>1, <4>4
        <4>5. QED
              BY <2>6, <3>3, <4>2, <4>3, <4>4 DEF Adds, Granted
      <3>4. QED
            BY <3>1, <3>2, <3>3
    <2>7. QED
          BY <2>1, <2>5, <2>6, CommandFacts
  <1>2. CASE Doing("login?")
    <2>1. PICK line \in Readable :
            /\ ReadLine(line)
            /\ place' = IF Grant(line) THEN "select" ELSE "end"
          BY <1>2 DEF Login, Doing, Grant, Go
    <2>2. searched' = None /\ place = "login?"
          BY <1>2 DEF Login, Doing, AnswersOK, server
    <2>3. CASE ~Grant(line)
          BY <2>1, <2>3, ElsewhereFacts
    <2>4. CASE Grant(line)
      <3>1. ASSUME ~cut' PROVE wire' = <<>>
        <4>1. Quiet \/ Len(wire) = 1
              BY <2>1, <2>2, <3>1, ReadFacts DEF AnswersOK, LoginAnswers
        <4>2. QED
              BY <2>1, <2>4, <3>1, <4>1, ReadFacts DEF Quiet
      <3>2. QED
            BY <2>1, <2>2, <2>4, <3>1 DEF AnswersOK, LoginAnswers, MailAnswers
    <2>5. QED
          BY <2>3, <2>4
  <1>3. QED
        BY <1>1, <1>2 DEF Login

\* SELECT: its answer ends with the tagged line.
LEMMA SelectAnswers ==
  ASSUME Types, AnswersOK, Select \/ SelectLine
  PROVE  AnswersOK'
  <1>1. CASE Select
    <2>1. /\ place = "select" /\ searched' = None
          /\ WriteCmd("SELECT", "select?") \/ Go("end", 1)
          BY <1>1, CommandFacts DEF Select, Doing, AnswersOK, server
    <2>2. CASE Go("end", 1)
          BY <2>2, ElsewhereFacts DEF Go
    <2>3. CASE WriteCmd("SELECT", "select?")
      <3>1. SUFFICES ASSUME ~cut'
                     PROVE  \A i \in 1..Len(wire') - 1 : At(wire'[i], 1) = Star
            BY <2>1, <2>3, CommandFacts DEF AnswersOK, LoginAnswers, MailAnswers
      <3>2. wire = <<>>
            BY <2>1, <2>3, <3>1, CommandFacts DEF AnswersOK, MailAnswers
      <3>3. CASE UNCHANGED <<connection, searched>>
            BY <3>2, <3>3 DEF connection
      <3>4. ASSUME NEW lines \in Seq(Seq(Token)), NEW n \in 0..MaxSeq,
                   wire' = wire \o lines, Adds(lines, "SELECT", Tag(n))
            PROVE  \A i \in 1..Len(wire') - 1 : At(wire'[i], 1) = Star
        <4>1. wire' = lines
              BY <3>2, <3>4, AddedFacts
        <4>2. CASE lines = <<>> \/ lines = <<<<Tag(n), Word("NO")>>>>
          <5> DEFINE k == Len(lines)
          <5>1. k = 0 \/ k = 1
                BY <4>2
          <5>2. \A i \in 1..k - 1 : FALSE
                <6> HIDE DEF k
                <6> QED BY <5>1
          <5>3. QED
                BY <4>1, <5>2
        <4>3. CASE \E mail \in Mails :
                     lines = <<<<Star, Number(mail.total), Word("EXISTS")>>,
                               <<Tag(n), Word("OK")>>>>
          <5>1. Len(lines) = 2 /\ At(lines[1], 1) = Star
                BY <4>3 DEF At
          <5>2. 1..Len(lines) - 1 = {1}
                BY <5>1
          <5>3. QED
                BY <4>1, <5>1, <5>2
        <4>4. QED
              BY <3>4, <4>2, <4>3 DEF Adds, Granted
      <3>5. QED
            BY <2>3, <3>3, <3>4, CommandFacts
    <2>4. QED
          BY <2>1, <2>2, <2>3
  <1>2. CASE SelectLine
    <2>1. PICK line \in Readable :
            /\ ReadLine(line)
            /\ \/ place' = "search" /\ At(line, 1) # Star
               \/ place' \in {"select?", "end"} /\ At(line, 1) = Star
          BY <1>2 DEF SelectLine, Tagged, Go
    <2>2. searched' = None /\ place = "select?"
          BY <1>2 DEF SelectLine, Doing, AnswersOK, server
    <2>3. ASSUME ~cut'
          PROVE  /\ Len(wire) \in Nat \ {0} /\ Len(wire') = Len(wire) - 1
                 /\ line = wire[1]
                 /\ Len(wire) = 1 => wire' = <<>>
                 /\ \A i \in 1..Len(wire) - 1 : At(wire[i], 1) = Star
                 /\ \A i \in 1..Len(wire') : wire'[i] = wire[i + 1]
          BY <2>1, <2>2, <2>3, ReadFacts DEF AnswersOK, MailAnswers
    <2>4. CASE place' = "search"
      <3>1. ASSUME ~cut' PROVE wire' = <<>>
        <4>1. ~(1 \in 1..Len(wire) - 1)
              BY <2>1, <2>3, <2>4, <3>1
        <4>2. QED
              BY <2>3, <3>1, <4>1
      <3>2. QED
            BY <2>2, <2>4, <3>1 DEF AnswersOK, LoginAnswers, MailAnswers
    <2>5. CASE place' = "select?"
      <3>1. ASSUME ~cut', NEW i \in 1..Len(wire') - 1
            PROVE  At(wire'[i], 1) = Star
        <4>1. i \in 1..Len(wire') /\ i + 1 \in 1..Len(wire) - 1
              BY <2>3, <3>1
        <4>2. QED
              BY <2>3, <3>1, <4>1
      <3>2. QED
            BY <2>2, <2>5, <3>1 DEF AnswersOK, LoginAnswers, MailAnswers
    <2>6. CASE place' = "end"
          BY <2>6, ElsewhereFacts
    <2>7. QED
          BY <2>1, <2>4, <2>5, <2>6
  <1>3. QED
        BY <1>1, <1>2

\* SEARCH: the answer is on the wire, or the server has handled no SEARCH.
LEMMA SearchAnswers ==
  ASSUME Types, AnswersOK, Search
  PROVE  AnswersOK'
  <1>1. /\ WriteCmd("SEARCH", "search?") /\ place = "search"
        /\ place' = "search?" /\ searched = None
        BY CommandFacts DEF Search, Doing, AnswersOK
  <1>2. SUFFICES ASSUME ~cut' PROVE searched' # None => Unread'
        BY <1>1 DEF AnswersOK, LoginAnswers, MailAnswers
  <1>3. wire = <<>>
        BY <1>1, <1>2, CommandFacts DEF AnswersOK, MailAnswers
  <1>4. CASE UNCHANGED <<connection, searched>>
        BY <1>1, <1>4
  <1>5. ASSUME NEW lines \in Seq(Seq(Token)), NEW n \in 0..MaxSeq,
               wire' = wire \o lines, Adds(lines, "SEARCH", Tag(n)),
               searched' # None
        PROVE  Unread'
    <2>1. wire' = lines
          BY <1>3, <1>5, AddedFacts
    <2>2. PICK mail \in Mails :
            \E order \in SetToSeqs(mail.unseen) :
              /\ lines = Granted("SEARCH", Tag(n), mail, order)
              /\ searched' = mail
          BY <1>1, <1>5 DEF Adds
    <2>3. PICK order \in SetToSeqs(mail.unseen) :
            /\ lines = Granted("SEARCH", Tag(n), mail, order)
            /\ searched' = mail
          BY <2>2
    <2>4. lines = <<SearchLine(order), <<Tag(n), Word("OK")>>>>
          BY <2>3 DEF Granted
    <2>5. /\ Len(lines) = 2 /\ lines[1] = SearchLine(order)
          /\ At(lines[2], 1) # Star
          BY <2>4, TagFacts
    <2>6. QED
          BY <2>1, <2>3, <2>5 DEF Unread
  <1>6. QED
        BY <1>1, <1>4, <1>5, CommandFacts

\* The answer to SEARCH gives the count: 0 if nothing follows the word, and the
\* number of the first unseen mail otherwise, which is none of 0.
LEMMA SearchLineAnswers ==
  ASSUME Types, AnswersOK, SearchLineRead
  PROVE  AnswersOK'
  <1>1. PICK line \in Readable :
          /\ ReadLine(line)
          /\ \/ place' = "result" /\ At(line, 1) # Star /\ unread' = unread
             \/ At(line, 1) = Star /\ place' = "end"
             \/ /\ At(line, 1) = Star /\ place' = "search?"
                /\ At(line, 2) = Word("SEARCH") =>
                     unread' = IF Len(line) = 2 THEN 0 ELSE At(line, 3)[2]
        BY DEF SearchLineRead, Tagged, Go
  <1>2. searched' = searched /\ place = "search?"
        BY DEF SearchLineRead, Doing, server
  <1>3. CASE place' = "end"
        BY <1>3, ElsewhereFacts
  <1>4. CASE place' # "end"
    <2>1. SUFFICES ASSUME ~cut', searched # None
                   PROVE  /\ place' = "result" => Right'
                          /\ place' = "search?" =>
                               \/ Unread'
                               \/ /\ Right'
                                  /\ \A i \in 1..Len(wire') :
                                       At(wire'[i], 1) # Star
          BY <1>1, <1>2, <1>4 DEF AnswersOK, LoginAnswers, MailAnswers
    <2>2. /\ ~cut /\ line = wire[1]
          /\ Len(wire) \in Nat \ {0} /\ Len(wire') = Len(wire) - 1
          /\ \A i \in 1..Len(wire') : wire'[i] = wire[i + 1]
          BY <1>1, <2>1, ReadFacts
    <2>3. CASE Right /\ \A i \in 1..Len(wire) : At(wire[i], 1) # Star
      <3>1. At(line, 1) # Star
            BY <2>2, <2>3
      <3>2. place' = "result" /\ unread' = unread
            BY <1>1, <1>4, <3>1
      <3>3. QED
            BY <1>2, <2>3, <3>2 DEF Right
    <2>4. CASE Unread
      <3>1. searched \in Mails
            BY <2>1 DEF Types, ObjectOK
      <3>2. PICK order \in SetToSeqs(searched.unseen) : line = SearchLine(order)
            BY <2>2, <2>4 DEF Unread
      <3>3. /\ line[1] = Star /\ line[2] = Word("SEARCH")
            /\ Len(line) = 2 + Cardinality(searched.unseen)
            /\ searched.unseen # {} =>
                 \E n \in searched.unseen : line[3] = Number(n)
            /\ Cardinality(searched.unseen) \in Nat
            /\ Cardinality(searched.unseen) = 0 <=> searched.unseen = {}
            BY <3>1, <3>2, SearchLineFacts, OrderFacts
      <3>4. At(line, 1) = Star /\ At(line, 2) = Word("SEARCH")
            BY <3>3 DEF At
      <3>5. /\ place' = "search?"
            /\ unread' = IF Len(line) = 2 THEN 0 ELSE At(line, 3)[2]
            BY <1>1, <1>4, <3>4
      <3>6. CASE searched.unseen = {}
        <4>1. unread' = 0
              BY <3>3, <3>5, <3>6
        <4>2. Right'
              BY <1>2, <3>6, <4>1 DEF Right
        <4>3. QED
              BY <2>2, <2>4, <3>5, <4>2 DEF Unread
      <3>7. CASE searched.unseen # {}
        <4>1. PICK n \in searched.unseen : line[3] = Number(n)
              BY <3>3, <3>7
        <4>2. n \in Nat /\ n > 0
              BY <3>1, ImapAssumption
        <4>3. Len(line) # 2 /\ 3 <= Len(line)
              BY <3>3, <3>7
        <4>4. unread' = n
              BY <3>5, <4>1, <4>3 DEF At, Number
        <4>5. Right'
              BY <1>2, <3>7, <4>2, <4>4 DEF Right
        <4>6. QED
              BY <2>2, <2>4, <3>5, <4>5 DEF Unread
      <3>8. QED
            BY <3>6, <3>7
    <2>5. QED
          BY <1>2, <2>1, <2>2, <2>3, <2>4 DEF AnswersOK, MailAnswers
  <1>5. QED
        BY <1>3, <1>4

\* The steps that lead to a return, and an answer to STARTTLS that is late.
LEMMA EndAnswers ==
  ASSUME Types, AnswersOK,
         End \/ ReadsBeyond \/ Result \/ ReadFails \/ (Return /\ Over)
  PROVE  AnswersOK'
  <1>1. CASE End \/ ReadsBeyond \/ Result
    <2>1. place' \in {"end", "logout?", "close", "dead"}
          BY <1>1, CommandFacts DEF End, ReadsBeyond, Result, ResultReady,
             Tagged, Go
    <2>2. QED
          BY <2>1, ElsewhereFacts
  <1>2. CASE ReadFails /\ place # "starttls?"
    <2>1. place' \in {"end", "close"}
          BY <1>2 DEF ReadFails, OnFailure, Go
    <2>2. QED
          BY <2>1, ElsewhereFacts
  <1>3. CASE ReadFails /\ place = "starttls?"
    <2>1. /\ place' = "login" /\ UNCHANGED <<secure, peer, wire, cut, searched>>
          BY <1>3 DEF ReadFails, OnFailure, NoLine, Go, server
    <2>2. ~cut => Len(wire) <= 1 /\ (Quiet \/ ~Understood)
          BY <1>3 DEF AnswersOK, LoginAnswers
    <2>3. searched = None
          BY <1>3 DEF AnswersOK
    <2>4. wire # <<>> => Len(wire) \in Nat \ {0}
          BY EmptySeq DEF Types, SocketOK, ConnectionOK
    <2>5. ~cut => Quiet \/ (Len(wire) = 1 /\ ~Understood)
      <3>1. ASSUME ~cut, ~Quiet PROVE Len(wire) = 1 /\ ~Understood
        <4>1. wire # <<>>
              BY <3>1 DEF Quiet
        <4>2. Len(wire) <= 1
              BY <2>2, <3>1
        <4>3. Len(wire) = 1
          <5> DEFINE k == Len(wire)
          <5>1. k \in Nat \ {0} /\ k <= 1
                BY <2>4, <4>1, <4>2
          <5>2. k = 1
                <6> HIDE DEF k
                <6> QED BY <5>1
          <5>3. QED
                BY <5>2
        <4>4. ~Understood
              BY <2>2, <3>1
        <4>5. QED
              BY <4>3, <4>4
      <3>2. QED
            BY <3>1
    <2>6. ~cut' => (Quiet \/ (Len(wire) = 1 /\ ~Understood))'
          BY <2>1, <2>5 DEF Quiet, Understood
    <2>7. QED
          BY <2>1, <2>3, <2>6 DEF AnswersOK, LoginAnswers, MailAnswers
  <1>4. CASE Return /\ Over
        BY <1>4, ElsewhereFacts DEF Return, Over
  <1>5. QED
        BY <1>1, <1>2, <1>3, <1>4

\* The steps that change none of the lines, or all of them between two calls.
LEMMA FrameAnswers ==
  ASSUME AnswersOK,
         \/ /\ SetError \/ BeginWork \/ Called \/ GuiTakes \/ PeerCloses
                 \/ NoticeClose
            /\ UNCHANGED <<object, server>>
         \/ OfferChanges
         \/ UNCHANGED vars
  PROVE  AnswersOK'
  <1>1. UNCHANGED <<unread, searched>>
        BY DEF OfferChanges, vars, object, server
  <1>2. CASE BeginWork \/ NoticeClose
    <2>1. place = "idle" /\ place' \in {"idle", "connect"}
          BY <1>2 DEF BeginWork, NoticeClose, Doing
    <2>2. searched' = None
          BY <1>1, <2>1 DEF AnswersOK
    <2>3. QED
          BY <2>1, <2>2, ElsewhereFacts
  <1>3. CASE ~BeginWork /\ ~NoticeClose
    <2>1. /\ UNCHANGED <<place, wire, secure, cut>>
          /\ peer' \in {peer, "gone"}
          BY <1>3 DEF SetError, Called, GuiTakes, PeerCloses, OfferChanges, vars,
             socketVars, connection
    <2>2. Understood' => Understood
          BY <2>1 DEF Understood
    <2>3. LoginAnswers => LoginAnswers'
          BY <2>1, <2>2 DEF LoginAnswers, Quiet
    <2>4. MailAnswers => MailAnswers'
          BY <1>1, <2>1 DEF MailAnswers, Unread, Right
    <2>5. QED
          BY <1>1, <2>1, <2>3, <2>4 DEF AnswersOK
  <1>4. QED
        BY <1>2, <1>3

\* No step breaks it.
LEMMA NextAnswers ==
  IInv /\ Types /\ AnswersOK /\ [Next]_vars => AnswersOK'
  BY GreetingAnswers, StartTLSAnswers, LoginAnswersStep, SelectAnswers,
     SearchAnswers, SearchLineAnswers, EndAnswers, FrameAnswers
  DEF Next, Client

\* The answers are as they should be in every state.
LEMMA AnswersHold == Spec => []AnswersOK
  <1>1. Init => AnswersOK
        BY DEF Init, SocketInit, AnswersOK, LoginAnswers, MailAnswers
  <1>2. QED
        BY <1>1, NextAnswers, IInvHolds, TypesHold, PTL DEF Spec

\* The tray icon shows new mail when there is some, and only then: however many
\* lines came late or not at all, and in whatever order the server tells the
\* numbers of the mails, a result is one of the SEARCH of its call.
THEOREM UnreadIsRight == Spec => []UnreadIffUnseen
  <1>1. AnswersOK => UnreadIffUnseen
        BY DEF AnswersOK, MailAnswers, Right, UnreadIffUnseen
  <1>2. QED
        BY <1>1, AnswersHold, PTL

-----------------------------------------------------------------------------
(* The refinement.                                                         *)

\* The call that is taken from the queue.
LEMMA BeginRefines ==
  ASSUME IInv, BeginWork, UNCHANGED object
  PROVE  Worker!WorkerBegin("this")
  <1>1. /\ place = "idle" /\ place' = "connect" /\ told = FALSE
        /\ pending > 0 /\ pending' = pending - 1
        /\ left' = IF left = "null" THEN "closed" ELSE left
        /\ told' = told /\ events' = events
        /\ unread' = unread /\ nummails' = nummails
        BY DEF BeginWork, Doing, IInv, Late, object
  <1>2. QED
        BY <1>1 DEF Worker!WorkerBegin, Worker!ThreadRuns, Work

\* A setError, wherever doWork is.
LEMMA ErrorRefines ==
  ASSUME IInv, SetError, UNCHANGED object
  PROVE  Worker!WorkerError("this")
  <1>1. /\ place \notin {"idle", "dead"} /\ place' = place /\ told \in BOOLEAN
        /\ Len(events) < MaxEvents
        /\ events' = Append(events, [kind |-> "mailError", server |-> "this"])
        /\ UNCHANGED <<told, pending, left, unread, nummails>>
        BY DEF SetError, IInv, object
  <1>2. QED
        BY <1>1 DEF Worker!WorkerError, Worker!Post, Work

\* The result, with what getMail has found.
LEMMA ResultRefines ==
  ASSUME IInv, Result
  PROVE  Worker!WorkerResult("this")
  <1>1. /\ place = "result" /\ place' = "end" /\ told = FALSE /\ told' = TRUE
        /\ Len(events) < MaxEvents
        /\ events' = Append(events,
                       [kind |-> "resultReady", idx |-> 1,
                        count |-> [unread |-> unread,
                                   read |-> nummails - unread],
                        from |-> "mailbox"])
        /\ UNCHANGED <<pending, left, unread, nummails>>
        BY DEF Result, ResultReady, Doing, IInv, Late, object
  <1>2. QED
        BY <1>1 DEF Worker!WorkerResult, Worker!Post, Work

\* A return after end(), or one that leaves the socket as it is.
LEMMA ReturnRefines ==
  ASSUME IInv, Return, UNCHANGED object
  PROVE  Worker!WorkerEnd("this") \/ Worker!WorkerAbandon("this")
  <1>1. /\ place \notin {"idle", "dead"} /\ place' = "idle" /\ told' = FALSE
        /\ told \in BOOLEAN
        /\ left' = m_Socket'
        /\ UNCHANGED <<pending, events, unread, nummails>>
        BY DEF Return, Doing, IInv, object
  <1>2. \/ m_Socket' = "closed"
        \/ m_Socket' = "connected" /\ told = FALSE
        BY DEF Return, Close, Doing, IInv, connection, Late
  <1>3. CASE m_Socket' = "closed"
        BY <1>1, <1>3 DEF Worker!WorkerEnd, Work
  <1>4. CASE m_Socket' = "connected" /\ told = FALSE
        BY <1>1, <1>4 DEF Worker!WorkerAbandon, Work
  <1>5. QED
        BY <1>2, <1>3, <1>4

\* A step of the dialogue, which is not seen unless it ends the process.
LEMMA TalksRefine ==
  ASSUME IInv, Talks
  PROVE  Worker!WorkerDies("this") \/ UNCHANGED <<Work, frame>>
  <1>1. place \notin {"idle", "dead"} /\ told \in BOOLEAN /\ UNCHANGED frame
        BY DEF Talks, IInv, Apart
  <1>2. CASE place' = "dead"
    <2>1. ~told
          BY <1>2 DEF Talks, IInv, Late
    <2>2. UNCHANGED <<told, pending, events, left, unread, nummails>>
          BY <1>1, <1>2 DEF Talks, frame, object
    <2>3. QED
          BY <1>1, <1>2, <2>1, <2>2 DEF Worker!WorkerDies, Work
  <1>3. CASE place' # "dead"
    <2>1. place' # "idle" /\ told' = told
          BY <1>1 DEF Talks, frame, Apart
    <2>2. QED
          BY <1>1, <1>3, <2>1 DEF Work
  <1>4. QED
        BY <1>2, <1>3

\* Every step is one of the worker's, or of another thread, or is not seen.
LEMMA StepRefines ==
  IInv /\ [Next]_vars =>
    [Worker!WorkerStep("this") \/ Called \/ GuiTakes]_<<Work, frame>>
  <1>1. SUFFICES ASSUME IInv, [Next]_vars
                 PROVE  \/ Worker!WorkerStep("this") \/ Called \/ GuiTakes
                        \/ UNCHANGED <<Work, frame>>
        OBVIOUS
  <1>2. CASE Dialogue
    <2>1. Talks
          BY <1>2, DialogueTalks
    <2>2. QED
          BY <1>1, <2>1, TalksRefine DEF Worker!WorkerStep
  <1>3. CASE (SetError \/ BeginWork \/ Return) /\ UNCHANGED object
        BY <1>1, <1>3, ErrorRefines, BeginRefines, ReturnRefines
        DEF Worker!WorkerStep
  <1>4. CASE Result
        BY <1>1, <1>4, ResultRefines DEF Worker!WorkerStep
  <1>5. CASE ConnectToHost
        BY <1>1, <1>5, ConnectIInv DEF frame, Work
  <1>6. CASE Called \/ GuiTakes
        BY <1>6
  <1>7. CASE PeerCloses \/ NoticeClose
        BY <1>7 DEF PeerCloses, NoticeClose, frame, Work
  <1>8. CASE OfferChanges \/ UNCHANGED vars
        BY <1>8 DEF OfferChanges, vars, socketVars, frame, Work
  <1>9. QED
        BY <1>1, <1>2, <1>3, <1>4, <1>5, <1>6, <1>7, <1>8
        DEF Next, Client, Dialogue, Over

\* CImap implements the worker of IMailProtocol, and with it of CMailApp: of what
\* can be seen from outside doWork does nothing else.
THEOREM ImapImplementsWorker == Spec => ImplementsWorker
  BY IInvHolds, StepRefines, PTL DEF Spec, ImplementsWorker
=============================================================================
