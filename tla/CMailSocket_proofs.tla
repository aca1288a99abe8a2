-------------------------- MODULE CMailSocket_proofs --------------------------
(***************************************************************************)
(* What the proofs about CImap and CPop3 share: the lines and the steps of *)
(* CMailSocket, for any tokens and any bounds.                             *)
(*                                                                         *)
(* S is the set of the tokens that a server sends, and Token the set of    *)
(* those that can be read: a number that is cut has lost its last digit.   *)
(***************************************************************************)
EXTENDS CMailSocket, SequenceTheorems, TLAPS

\* The signals of a worker.
Event ==
  [kind : {"mailError"}, server : {"this"}]
    \cup [kind : {"resultReady"}, idx : {1},
          count : [unread : Int, read : Int], from : {"mailbox"}]

\* The types of the connection, with a wire that is a sequence of lines.
ConnectionOK(S) ==
  /\ m_Socket \in {"null", "closed", "connected"}
  /\ secure \in BOOLEAN
  /\ peer \in {"none", "plain", "tls", "gone"}
  /\ wire \in Seq(Seq(S))
  /\ cut \in BOOLEAN

\* The types of the frame, with a queue that is a sequence of signals.
FrameOK ==
  /\ told \in BOOLEAN
  /\ pending \in 0..MaxQueue
  /\ events \in Seq(Event) /\ Len(events) <= MaxEvents
  /\ left \in {"null", "closed", "connected"}

SocketOK(S) ==
  /\ m_UseSSL \in BOOLEAN
  /\ errs \in 0..3
  /\ ConnectionOK(S)
  /\ FrameOK

\* What is known of the tokens.
Cuttable(S, Token) ==
  /\ Junk \in S
  /\ S \subseteq Token
  /\ \A t \in S : t[1] = "number" => Number(t[2] \div 10) \in Token

-----------------------------------------------------------------------------
(* Lines.                                                                  *)

\* What is read at an index is a token.
LEMMA AtType ==
  ASSUME NEW Token, Junk \in Token, NEW line \in Seq(Token), NEW i \in Nat \ {0}
  PROVE  At(line, i) \in Token
  <1>1. Len(line) \in Nat /\ \A j \in 1..Len(line) : line[j] \in Token
        BY LenProperties, ElementOfSeq
  <1>2. QED
        BY <1>1 DEF At

\* A piece of a line is a sequence of tokens.
LEMMA PiecesType ==
  ASSUME NEW S, NEW Token, Cuttable(S, Token),
         NEW line \in Seq(S), NEW piece \in Pieces(line)
  PROVE  piece \in Seq(Token)
  <1>1. /\ Junk \in Token /\ line \in Seq(Token) /\ Len(line) \in Nat
        /\ \A i \in 1..Len(line) : line[i] \in Token /\ line[i] \in S
        BY LenProperties, ElementOfSeq, SeqMonotonic DEF Cuttable
  <1>2. ASSUME NEW k \in 0..Len(line)
        PROVE  SubSeq(line, 1, k) \in Seq(Token)
    <2>1. \A i \in 1..k : line[i] \in Token
          BY <1>1, <1>2
    <2>2. QED
          BY <1>1, <1>2, <2>1, SubSeqProperties
  <1>3. CASE \E k \in 1..Len(line) : piece = SubSeq(line, 1, k)
        BY <1>1, <1>2, <1>3
  <1>4. CASE \E k \in 0..Len(line) - 1 :
               piece = Append(SubSeq(line, 1, k), Junk)
        BY <1>1, <1>2, <1>4, AppendProperties
  <1>5. CASE \E k \in {k \in 1..Len(line) :
                        line[k][1] = "number" /\ line[k][2] >= 10} :
               piece = Append(SubSeq(line, 1, k - 1),
                              Number(line[k][2] \div 10))
    <2>1. PICK k \in 1..Len(line) :
            /\ line[k][1] = "number"
            /\ piece = Append(SubSeq(line, 1, k - 1),
                              Number(line[k][2] \div 10))
          BY <1>5
    <2>2. Number(line[k][2] \div 10) \in Token
          BY <1>1, <2>1 DEF Cuttable
    <2>3. k - 1 \in 0..Len(line)
          BY <1>1
    <2>4. SubSeq(line, 1, k - 1) \in Seq(Token)
          BY <1>2, <2>3
    <2>5. QED
          BY <2>1, <2>2, <2>4, AppendProperties
  <1>6. QED
        BY <1>3, <1>4, <1>5 DEF Pieces

\* A sequence that is not empty, without its head.
LEMMA TailFacts ==
  ASSUME NEW T, NEW s \in Seq(T), s # <<>>
  PROVE  /\ Len(s) \in Nat \ {0} /\ Head(s) \in T /\ Head(s) = s[1]
         /\ Tail(s) \in Seq(T)
         /\ Len(Tail(s)) = Len(s) - 1
         /\ \A i \in 1..Len(s) - 1 : Tail(s)[i] = s[i + 1]
         /\ Len(s) = 1 => Tail(s) = <<>>
  <1>1. /\ Len(s) \in Nat \ {0} /\ Head(s) \in T /\ Tail(s) \in Seq(T)
        /\ Len(Tail(s)) = Len(s) - 1
        /\ \A i \in 1..Len(s) - 1 : Tail(s)[i] = s[i + 1]
        BY EmptySeq, HeadTailProperties
  <1>2. Len(s) = 1 => Tail(s) = <<>>
    <2> DEFINE t == Tail(s)
    <2>1. t # <<>> => Len(t) \in Nat \ {0}
          <3> HIDE DEF t
          <3> QED BY <1>1, EmptySeq DEF t
    <2>2. QED
          BY <1>1, <2>1
  <1>3. QED
        BY <1>1, <1>2

\* What readLine can return.
LEMMA ReadableType ==
  ASSUME NEW S, NEW Token, Cuttable(S, Token), wire \in Seq(Seq(S)),
         NEW line \in Readable
  PROVE  wire # <<>> /\ line \in Seq(Token)
  <1>1. wire # <<>> /\ line \in {Head(wire)} \cup Pieces(Head(wire))
        BY DEF Readable
  <1>2. Head(wire) \in Seq(S)
        BY <1>1, TailFacts
  <1>3. Head(wire) \in Seq(Token)
        BY <1>2, SeqMonotonic DEF Cuttable
  <1>4. QED
        BY <1>1, <1>2, <1>3, PiecesType

\* readLine keeps the types.
LEMMA ReadLineType ==
  ASSUME NEW S, Junk \in S, ConnectionOK(S), NEW line, ReadLine(line)
  PROVE  ConnectionOK(S)'
  <1>1. wire \in Seq(Seq(S)) /\ wire # <<>>
        BY DEF ConnectionOK, ReadLine
  <1>2. Tail(wire) \in Seq(Seq(S))
        BY <1>1, TailFacts
  <1>3. <<Rest>> \in Seq(Seq(S))
        BY DEF Rest
  <1>4. <<Rest>> \o Tail(wire) \in Seq(Seq(S))
        BY <1>2, <1>3, ConcatProperties
  <1>5. wire' \in Seq(Seq(S))
        BY <1>2, <1>4 DEF ReadLine
  <1>6. QED
        BY <1>5 DEF ConnectionOK, ReadLine

\* A line that is not cut is read whole, and the wire loses it.
LEMMA ReadLineWhole ==
  ASSUME NEW line, ReadLine(line), ~cut'
  PROVE  /\ ~cut /\ wire # <<>>
         /\ line = Head(wire) /\ wire' = Tail(wire)
         /\ UNCHANGED <<m_Socket, secure, peer>>
  BY DEF ReadLine

\* A wait that ends without a line keeps them, too.
LEMMA NoLineType ==
  ASSUME NEW S, ConnectionOK(S), NoLine
  PROVE  ConnectionOK(S)'
  BY DEF NoLine, ConnectionOK

-----------------------------------------------------------------------------
(* The steps.                                                              *)

\* They are right before the first call.
LEMMA SocketInitType == ASSUME NEW S, SocketInit PROVE SocketOK(S)
  <1>1. /\ <<>> \in Seq(Seq(S)) /\ <<>> \in Seq(Event) /\ Len(<<>>) = 0
        /\ 0 \in 0..MaxQueue /\ 0 <= MaxEvents
        BY EmptySeq, SocketAssumption
  <1>2. ConnectionOK(S)
        BY <1>1 DEF SocketInit, ConnectionOK
  <1>3. FrameOK
        BY <1>1 DEF SocketInit, FrameOK
  <1>4. QED
        BY <1>2, <1>3 DEF SocketInit, SocketOK

\* A signal is appended to the queue.
LEMMA PostType ==
  ASSUME FrameOK, NEW event \in Event, Len(events) < MaxEvents,
         events' = Append(events, event)
  PROVE  events' \in Seq(Event) /\ Len(events') <= MaxEvents
  <1>1. events \in Seq(Event) /\ Len(events) \in Nat
        BY LenProperties DEF FrameOK
  <1>2. events' \in Seq(Event) /\ Len(events') = Len(events) + 1
        BY <1>1, AppendProperties
  <1>3. QED
        BY <1>1, <1>2, SocketAssumption

\* A step that only goes on, on a connection that keeps its types.
LEMMA GoType ==
  ASSUME NEW S, SocketOK(S), ConnectionOK(S)', NEW p, NEW n \in 0..3, Go(p, n)
  PROVE  SocketOK(S)'
  BY DEF SocketOK, FrameOK, Go, frame

\* The connection is made, with a greeting or without one.
LEMMA ConnectType ==
  ASSUME NEW S, SocketOK(S), NEW lines \in Seq(Seq(S)), Connect(lines)
  PROVE  SocketOK(S)'
  <1>1. UNCHANGED connection => ConnectionOK(S)'
        BY DEF SocketOK, ConnectionOK, connection
  <1>2. ASSUME ~UNCHANGED connection PROVE ConnectionOK(S)'
    <2>1. /\ m_Socket' = "connected" /\ secure' = m_UseSSL
          /\ peer' \in {"tls", "plain"} /\ wire' = lines /\ cut' = FALSE
          BY <1>2 DEF Connect
    <2>2. secure' \in BOOLEAN
          BY <2>1 DEF SocketOK
    <2>3. QED
          BY <2>1, <2>2 DEF ConnectionOK
  <1>3. ConnectionOK(S)'
        BY <1>1, <1>2
  <1>4. QED
        BY <1>3, GoType DEF Connect

\* The connection is not made.
LEMMA UnconnectedType ==
  ASSUME NEW S, SocketOK(S),
         ConnectFails \/ HandshakeTimesOut \/ EncryptedAlready
  PROVE  SocketOK(S)'
  <1>1. ConnectFails => ConnectionOK(S)'
        BY EmptySeq DEF ConnectFails, Close, ConnectionOK
  <1>2. HandshakeTimesOut \/ EncryptedAlready => ConnectionOK(S)'
        BY DEF HandshakeTimesOut, EncryptedAlready, SocketOK, ConnectionOK,
           connection
  <1>3. ConnectionOK(S)' /\ Go("abandon", 1)
        BY <1>1, <1>2 DEF ConnectFails, HandshakeTimesOut, EncryptedAlready
  <1>4. QED
        BY <1>3, GoType

\* The steps that CImap and CPop3 take over as they are.
LEMMA FrameStepType ==
  ASSUME NEW S, SocketOK(S),
         SetError \/ BeginWork \/ Return \/ Called \/ GuiTakes \/ PeerCloses
           \/ NoticeClose
  PROVE  SocketOK(S)'
  <1> USE DEF SocketOK
  <1>1. MaxQueue \in Nat \ {0} /\ MaxEvents \in Nat \ {0}
        BY SocketAssumption
  <1>2. Close => ConnectionOK(S)'
        BY EmptySeq DEF Close, ConnectionOK
  <1>3. CASE SetError
    <2>1. [kind |-> "mailError", server |-> "this"] \in Event
          BY DEF Event
    <2>2. events' \in Seq(Event) /\ Len(events') <= MaxEvents
          BY <1>3, <2>1, PostType DEF SetError
    <2>3. QED
          BY <1>3, <2>2 DEF SetError, ConnectionOK, FrameOK, connection
  <1>4. CASE BeginWork
        BY <1>1, <1>4 DEF BeginWork, ConnectionOK, FrameOK
  <1>5. CASE Return
    <2>1. ConnectionOK(S)'
          BY <1>2, <1>5 DEF Return, ConnectionOK, connection
    <2>2. QED
          BY <1>5, <2>1 DEF Return, ConnectionOK, FrameOK
  <1>6. CASE Called
        BY <1>1, <1>6 DEF Called, ConnectionOK, FrameOK, connection
  <1>7. CASE GuiTakes
    <2>1. events \in Seq(Event) /\ events # <<>> /\ events' = Tail(events)
          BY <1>7 DEF GuiTakes, FrameOK
    <2>2. events' \in Seq(Event) /\ Len(events') <= MaxEvents
          BY <1>1, <2>1, TailFacts DEF FrameOK
    <2>3. QED
          BY <1>7, <2>2 DEF GuiTakes, ConnectionOK, FrameOK, connection
  <1>8. CASE PeerCloses
        BY <1>8 DEF PeerCloses, ConnectionOK, FrameOK, frame
  <1>9. CASE NoticeClose
        BY <1>2, <1>9 DEF NoticeClose, FrameOK, frame
  <1>10. QED
         BY <1>3, <1>4, <1>5, <1>6, <1>7, <1>8, <1>9

\* The result is a signal.
LEMMA ResultType ==
  ASSUME NEW S, SocketOK(S), NEW u \in Int, NEW r \in Int, ResultReady(u, r)
  PROVE  SocketOK(S)'
  <1>1. [kind |-> "resultReady", idx |-> 1,
         count |-> [unread |-> u, read |-> r], from |-> "mailbox"] \in Event
        BY DEF Event
  <1>2. events' \in Seq(Event) /\ Len(events') <= MaxEvents
        BY <1>1, PostType DEF ResultReady, SocketOK
  <1>3. QED
        BY <1>2 DEF ResultReady, SocketOK, ConnectionOK, FrameOK, connection

\* All of this is the type invariant that a run checks, the place excepted.
LEMMA SocketTypes ==
  ASSUME NEW S, NEW Token, S \subseteq Token, SocketOK(S)
  PROVE  SocketTypeOK(Token)
  <1>1. ASSUME NEW i \in 1..Len(wire), NEW j \in 1..Len(wire[i])
        PROVE  wire[i][j] \in Token
    <2>1. wire[i] \in Seq(S)
          BY ElementOfSeq DEF SocketOK, ConnectionOK
    <2>2. QED
          BY <2>1, ElementOfSeq
  <1>2. QED
        BY <1>1 DEF SocketOK, ConnectionOK, FrameOK, SocketTypeOK

=============================================================================
