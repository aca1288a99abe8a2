---------------------------- MODULE CMailSocket ----------------------------
(***************************************************************************)
(* What CImap and CPop3 share: the socket with its line reading and        *)
(* writing (CMailSocket), the connection to the server, and the frame of   *)
(* a doWork call: it is queued, it runs, it tells errors and at most one   *)
(* result to the GUI thread, it returns.                                   *)
(*                                                                         *)
(* A line is a sequence of tokens, what split(' ') gives.  The server      *)
(* answers a command when it is written, and the lines wait on the wire.   *)
(* How late they arrive, and how many of them at once, is free at every    *)
(* wait; so the wire and the socket's buffer are one sequence, and every   *)
(* read can time out.                                                      *)
(***************************************************************************)
EXTENDS Integers, Sequences

CONSTANTS
  MaxQueue,   \* bound: doWork calls that are queued or under way
  MaxEvents,  \* bound: signals queued to the GUI thread
  Cuts        \* may a line arrive in two pieces?

ASSUME SocketAssumption ==
  /\ MaxQueue \in Nat \ {0}
  /\ MaxEvents \in Nat \ {0}
  /\ Cuts \in BOOLEAN

VARIABLES
  m_UseSSL,  \* the configuration: encrypted from the start
  m_Socket,  \* "null", "closed" or "connected"
  secure,    \* the client encrypts (isEncrypted() while connected)
  peer,      \* the server's side: "none", "plain", "tls" or "gone"
  wire,      \* the lines sent by the server and not yet read
  place,     \* how far doWork has got
  errs,      \* calls of setError that are still to be made here
  told,      \* this doWork has emitted resultReady
  pending,   \* doWork calls queued
  events,    \* signals queued to the GUI thread
  left,      \* history: the socket as the last doWork left it
  cut        \* history: a line of this connection was read in pieces

connection == <<m_Socket, secure, peer, wire, cut>>
frame == <<told, pending, events, left>>
socketVars == <<m_UseSSL, connection, frame, place, errs>>

\* How far doWork has got, seen from outside (IMailProtocol's work).
Work == IF place \in {"idle", "dead"} THEN place
        ELSE IF told THEN "ending" ELSE "busy"

-----------------------------------------------------------------------------
(* Lines.                                                                  *)

Word(w) == <<"word", w>>
Number(n) == <<"number", n>>
Tag(n) == <<"tag", n>>
Junk == <<"junk", "">>

\* list.at(i), from 1; what lies beyond the list is anything.
At(line, i) == IF i <= Len(line) THEN line[i] ELSE Junk

\* What readLine returns of a line whose end has not arrived: chop(2) takes two
\* characters of the text, so that the last token can be damaged or lost, and
\* digits of a number.
Pieces(line) ==
  {SubSeq(line, 1, k) : k \in 1..Len(line)}
    \cup {Append(SubSeq(line, 1, k), Junk) : k \in 0..Len(line) - 1}
    \cup {Append(SubSeq(line, 1, k - 1), Number(line[k][2] \div 10)) :
            k \in {k \in 1..Len(line) :
                    line[k][1] = "number" /\ line[k][2] >= 10}}

\* The other piece, which the next call takes for a line.  Its first word is
\* none that is looked for; what follows is not told apart from nothing.
Rest == <<Junk>>

\* readLine: the line is read, whole or the part that is there.  Bound: one
\* line of a connection is cut.
ReadLine(line) ==
  /\ wire # <<>>
  /\ \/ /\ line = Head(wire)
        /\ wire' = Tail(wire)
        /\ cut' = cut
     \/ /\ Cuts /\ ~cut
        /\ line \in Pieces(Head(wire))
        /\ wire' = <<Rest>> \o Tail(wire)
        /\ cut' = TRUE
  /\ UNCHANGED <<m_Socket, secure, peer>>

Readable == IF wire = <<>> THEN {} ELSE {Head(wire)} \cup Pieces(Head(wire))

\* readLine: the wait has timed out, or the connection was closed.
NoLine ==
  /\ m_Socket' = IF peer \in {"none", "gone"} /\ wire = <<>>
                 THEN "closed" ELSE m_Socket
  /\ UNCHANGED <<secure, peer, wire, cut>>

isConnected == m_Socket = "connected" /\ (m_UseSSL => secure)

\* The server and the client agree on how they talk.
Understood == peer # "gone" /\ (peer = "tls") = secure

\* m_Socket->startClientEncryption(): the handshake goes wrong if the server
\* does not expect it or if lines in clear text are still to be read.
StartClientEncryption(lines) ==
  /\ secure' = TRUE
  /\ wire' = <<>>
  /\ peer' = IF peer = "tls" /\ lines = <<>> THEN peer ELSE "gone"

\* m_Socket->close().
Close ==
  /\ m_Socket' = "closed"
  /\ secure' = FALSE
  /\ peer' = "none"
  /\ wire' = <<>>
  /\ cut' = FALSE

-----------------------------------------------------------------------------
(* A doWork call.                                                          *)

\* doWork goes on at p, after n calls of setError.
Go(p, n) ==
  /\ UNCHANGED <<frame, m_UseSSL>>
  /\ place' = p
  /\ errs' = n

\* The client is at p and has told its errors.
Doing(p) == place = p /\ errs = 0

\* doWork returns: without end(), or after close().
Return ==
  /\ \/ Doing("abandon") /\ UNCHANGED connection
     \/ Doing("close") /\ Close
  /\ place' = "idle"
  /\ told' = FALSE
  /\ left' = m_Socket'
  /\ UNCHANGED <<errs, pending, events, m_UseSSL>>

\* CMailMonitor's operate arrives.
Called ==
  /\ place # "dead"
  /\ pending + (IF place = "idle" THEN 0 ELSE 1) < MaxQueue
  /\ pending' = pending + 1
  /\ UNCHANGED <<m_UseSSL, connection, place, errs, told, events, left>>

\* The GUI thread handles a signal.
GuiTakes ==
  /\ place # "dead"
  /\ events # <<>>
  /\ events' = Tail(events)
  /\ UNCHANGED <<m_UseSSL, connection, place, errs, told, pending, left>>

\* setError: the signal is emitted, then the thread sleeps for a second.
SetError ==
  /\ place # "dead"
  /\ errs > 0
  /\ Len(events) < MaxEvents
  /\ events' = Append(events, [kind |-> "mailError", server |-> "this"])
  /\ errs' = errs - 1
  /\ UNCHANGED <<m_UseSSL, connection, place, told, pending, left>>

\* Mutant: doWork begins without a call.
BeginUnasked ==
  /\ Doing("idle")
  /\ pending' = pending - 1
  /\ m_Socket' = IF m_Socket = "null" THEN "closed" ELSE m_Socket
  /\ left' = IF left = "null" THEN "closed" ELSE left
  /\ place' = "connect"
  /\ UNCHANGED <<m_UseSSL, secure, peer, wire, cut, errs, told, events>>

\* doWork begins: createConnection makes the socket on the first call.
BeginWork ==
  /\ Doing("idle")
  /\ pending > 0
  /\ pending' = pending - 1
  /\ m_Socket' = IF m_Socket = "null" THEN "closed" ELSE m_Socket
  /\ left' = IF left = "null" THEN "closed" ELSE left
  /\ place' = "connect"
  /\ UNCHANGED <<m_UseSSL, secure, peer, wire, cut, errs, told, events>>

\* connectToHost and waitForConnected, or connectToHostEncrypted and
\* waitForEncrypted, succeed, and the server sends a greeting or stays silent
\* (lines is a sequence of at most one line).  On a socket
\* that is still connected connectToHost does nothing: in clear text the wait
\* returns at once and nothing is sent; encrypted, the wait goes on for a
\* handshake that is still under way.
Connect(lines) ==
  /\ Doing("connect")
  /\ IF m_Socket = "connected" /\ ~m_UseSSL
     THEN UNCHANGED connection
     ELSE /\ m_Socket = "closed" \/ (~secure /\ peer = "tls")
          /\ m_Socket' = "connected"
          /\ secure' = m_UseSSL
          /\ peer' = IF m_UseSSL THEN "tls" ELSE "plain"
          /\ wire' = lines
          /\ cut' = FALSE
  /\ Go("greeting", 0)

\* The host cannot be reached, or the handshake goes wrong: the socket closes.
\* doWork returns without end().
ConnectFails ==
  /\ Doing("connect")
  /\ m_Socket = "closed" \/ (m_UseSSL /\ ~secure)
  /\ Close
  /\ Go("abandon", 1)

\* The handshake takes longer than TIMEOUT: the TCP connection stays open.
HandshakeTimesOut ==
  /\ Doing("connect")
  /\ m_UseSSL
  /\ m_Socket = "closed" \/ (~secure /\ peer = "tls")
  /\ m_Socket' = "connected"
  /\ peer' = "tls"
  /\ UNCHANGED <<secure, wire, cut>>
  /\ Go("abandon", 1)

\* waitForEncrypted returns false when the connection is encrypted already.
EncryptedAlready ==
  /\ Doing("connect")
  /\ m_UseSSL
  /\ secure
  /\ UNCHANGED connection
  /\ Go("abandon", 1)

\* The server closes the connection, or the network does.
PeerCloses ==
  /\ place # "dead"
  /\ peer \in {"plain", "tls"}
  /\ peer' = "gone"
  /\ UNCHANGED <<m_UseSSL, m_Socket, secure, wire, cut, place, errs, frame>>

\* Between two calls the thread's event loop learns of it.
NoticeClose ==
  /\ Doing("idle")
  /\ peer = "gone"
  /\ Close
  /\ UNCHANGED <<m_UseSSL, place, errs, frame>>

\* emit resultReady(getConfigurationIndex(), unread, read)
ResultReady(unread, read) ==
  /\ Doing("result")
  /\ Len(events) < MaxEvents
  /\ events' = Append(events, [kind |-> "resultReady", idx |-> 1,
                               count |-> [unread |-> unread, read |-> read],
                               from |-> "mailbox"])
  /\ place' = "end"
  /\ told' = TRUE
  /\ UNCHANGED <<m_UseSSL, connection, errs, pending, left>>

SocketInit ==
  /\ m_UseSSL \in BOOLEAN
  /\ m_Socket = "null"
  /\ secure = FALSE
  /\ peer = "none"
  /\ wire = <<>>
  /\ place = "idle"
  /\ errs = 0
  /\ told = FALSE
  /\ pending = 0
  /\ events = <<>>
  /\ left = "null"
  /\ cut = FALSE

\* The type of everything here, "place" excepted.
SocketTypeOK(Token) ==
  /\ m_UseSSL \in BOOLEAN
  /\ m_Socket \in {"null", "closed", "connected"}
  /\ secure \in BOOLEAN
  /\ peer \in {"none", "plain", "tls", "gone"}
  /\ \A i \in 1..Len(wire) : \A j \in 1..Len(wire[i]) : wire[i][j] \in Token
  /\ errs \in 0..3
  /\ told \in BOOLEAN
  /\ pending \in 0..MaxQueue
  /\ Len(events) <= MaxEvents
  /\ left \in {"null", "closed", "connected"}
  /\ cut \in BOOLEAN

=============================================================================
