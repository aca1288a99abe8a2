--------------------------- MODULE CPasswords_keys ---------------------------
(***************************************************************************)
(* Proofs about the keychain below CPasswords: the types of the dialog and *)
(* of the three jobs, what a deletion leaves, and what it takes to keep    *)
(* empty texts out of the keychain.                                        *)
(***************************************************************************)
EXTENDS CPasswords_proofs, WellFoundedInduction

\* A job that waits for its turn has the key of a mailbox.
Keyed == \A i \in 1..Len(queue) : jobKey[queue[i]] \in Mailbox

\* The variables have their types, which needs the keys of the jobs and that
\* the names in the list are those of entries.
TInv == TypeOK /\ Keyed

-----------------------------------------------------------------------------
(* Jobs and requests.                                                      *)

\* What can be under way.
Jobs == [kind : Kinds \cup {"none"}, ok : BOOLEAN, data : Text]

\* How a job turns out in a keychain that holds texts from P.
LEMMA OutcomesFacts ==
  ASSUME NEW P, P \subseteq Text, NEW kind \in Kinds,
         NEW entry \in P \cup {Absent}, NEW o \in Outcomes(kind, entry)
  PROVE  /\ o \in Jobs
         /\ o.kind = kind
         /\ o.kind = "read" /\ o.ok => o.data \in P
  <1>1. /\ o \in [kind : {kind}, ok : BOOLEAN, data : Text]
        /\ o.ok => /\ kind = "write" \/ entry # Absent
                   /\ o.data = IF kind = "read" THEN entry ELSE Blank
        BY Zenon DEF Outcomes
  <1>2. o.kind = kind /\ o.ok \in BOOLEAN /\ o.data \in Text
        BY <1>1
  <1>3. o \in Jobs
        BY <1>1 DEF Jobs
  <1>4. ASSUME kind = "read", o.ok
        PROVE  o.data \in P
    <2>1. entry # Absent /\ o.data = entry
          BY <1>1, <1>4
    <2>2. QED
          BY <2>1
  <1>5. QED
        BY <1>2, <1>3, <1>4

\* What a job does to a keychain that holds texts from P, if it writes one.
LEMMA ExecutedFacts ==
  ASSUME NEW P, P \subseteq Text, store \in [Mailbox -> P \cup {Absent}],
         NEW kind \in Kinds, NEW key \in Mailbox, NEW text,
         kind = "write" => text \in P,
         Executed(kind, key, text)
  PROVE  /\ running' \in Jobs
         /\ running'.kind = kind
         /\ running'.kind = "read" /\ running'.ok => running'.data \in P
         /\ store' \in [Mailbox -> P \cup {Absent}]
  <1>1. running' \in Outcomes(kind, store[key])
        BY DEF Executed
  <1>2. /\ running' \in Jobs
        /\ running'.kind = kind
        /\ running'.kind = "read" /\ running'.ok => running'.data \in P
        BY <1>1, OutcomesFacts
  <1>3. \/ store' = store
        \/ kind = "write" /\ store' = [store EXCEPT ![key] = text]
        \/ store' = [store EXCEPT ![key] = Absent]
        BY DEF Executed
  <1>4. store' \in [Mailbox -> P \cup {Absent}]
        BY <1>3
  <1>5. QED
        BY <1>2, <1>4

\* What a job does to any keychain.
LEMMA ExecutedTypes ==
  ASSUME KeyChainTypeOK, NEW kind \in Kinds, NEW key \in Mailbox,
         NEW text \in Text, Executed(kind, key, text)
  PROVE  /\ running' \in Jobs
         /\ running'.kind = kind
         /\ store' \in [Mailbox -> Text \cup {Absent}]
  <1>1. store \in [Mailbox -> Text \cup {Absent}]
        BY DEF KeyChainTypeOK
  <1>2. QED
        BY <1>1, ExecutedFacts

\* A nonempty set of numbers has a least one.
LEMMA LeastNumber ==
  ASSUME NEW T, T \subseteq Nat, T # {}
  PROVE  \E x \in T : \A y \in T : ~ (y < x)
  <1> DEFINE R == OpToRel(<, Nat)
  <1>1. IsWellFoundedOn(R, Nat)
        BY NatLessThanWellFounded
  <1>2. \A x, y \in Nat : y < x => <<y, x>> \in R
        BY DEF OpToRel
  <1> HIDE DEF R
  <1>3. PICK x \in T : \A y \in T : ~ (<<y, x>> \in R)
        BY <1>1, WFMin
  <1>4. \A y \in T : ~ (y < x)
        BY <1>2, <1>3, Zenon
  <1>5. QED
        BY <1>4

\* If there is a request for a kind of job there is a last one.
LEMMA LastFacts ==
  ASSUME NEW requests, Len(requests) \in Nat, NEW kind, Asks(requests, kind)
  PROVE  \E i \in 1..Len(requests) :
           requests[i].kind = kind /\ LastOf(requests, kind) = requests[i]
  <1> DEFINE n == Len(requests)
             T == {k \in Nat : \E i \in 1..n :
                                 requests[i].kind = kind /\ k = n - i}
  <1>1. PICK i \in 1..n : requests[i].kind = kind
        BY DEF Asks
  <1>2. PICK k \in T : \A j \in T : ~ (j < k)
    <2>1. n - i \in T
          BY <1>1
    <2>2. QED
          BY <2>1, LeastNumber
  <1>3. PICK l \in 1..n : requests[l].kind = kind /\ k = n - l
        BY <1>2
  <1>4. \A j \in l+1..n : requests[j].kind # kind
    <2>1. ASSUME NEW j \in l+1..n, requests[j].kind = kind
          PROVE  FALSE
      <3>1. j \in 1..n /\ n - j \in Nat /\ n - j < k
            BY <1>3
      <3>2. n - j \in T
            BY <2>1, <3>1
      <3>3. QED
            BY <1>2, <3>1, <3>2
    <2>2. QED
          BY <2>1
  <1>5. QED
        BY <1>3, <1>4 DEF LastOf

\* A request of a handler, to write only texts from P.
Request(P) ==
  {r \in [kind : Kinds, key : Mailbox, text : Text] :
     r.kind = "write" => r.text \in P}

\* What a handler's requests do to the queue and the jobs, in a keychain that
\* holds texts from P.
LEMMA RequestedFacts ==
  ASSUME KeyChainTypeOK, NEW P, P \subseteq Text,
         NEW requests \in Seq(Request(P)), Requested(requests)
  PROVE  /\ KeyChainTypeOK'
         /\ \A i \in 1..Len(queue') :
              \/ i \in 1..Len(queue) /\ queue'[i] = queue[i]
              \/ \E j \in 1..Len(requests) : queue'[i] = requests[j].kind
         /\ \/ UNCHANGED <<store, running>>
            \/ /\ Idle
               /\ \E j \in 1..Len(requests) :
                    running'.kind = requests[j].kind
               /\ store \in [Mailbox -> P \cup {Absent}] =>
                    /\ store' \in [Mailbox -> P \cup {Absent}]
                    /\ Restored' => running'.data \in P
         /\ Keyed => Keyed'
         /\ \A kind \in Kinds : ~Asks(requests, kind) =>
              jobKey'[kind] = jobKey[kind]
         /\ \A kind \in Kinds : Asks(requests, kind) =>
              \E j \in 1..Len(requests) :
                requests[j].kind = kind /\ jobKey'[kind] = requests[j].key
         /\ IF Asks(requests, "write") THEN jobText' \in P
            ELSE jobText' = jobText
  <1> DEFINE kinds == JobsOf(requests)
  <1>1. /\ Len(requests) \in Nat
        /\ \A i \in 1..Len(requests) : requests[i] \in Request(P)
        BY LenProperties
  <1>2. queue \in Seq(Kinds) /\ Len(queue) \in Nat
        BY LenProperties DEF KeyChainTypeOK
  <1>3. /\ kinds \in Seq(Kinds) /\ Len(kinds) = Len(requests)
        /\ \A i \in 1..Len(requests) : kinds[i] = requests[i].kind
    <2>1. kinds \in [1..Len(requests) -> Kinds]
          BY <1>1 DEF Request, JobsOf
    <2>2. \A i \in 1..Len(requests) : kinds[i] = requests[i].kind
          BY DEF JobsOf
    <2> HIDE DEF kinds
    <2>3. QED
          BY <1>1, <2>1, <2>2, SeqDef, LenProperties
  <1>4. /\ queue' \in Seq(Kinds)
        /\ \A i \in 1..Len(queue') :
             \/ i \in 1..Len(queue) /\ queue'[i] = queue[i]
             \/ \E j \in 1..Len(requests) : queue'[i] = requests[j].kind
        /\ \/ UNCHANGED <<store, running>>
           \/ /\ Idle
              /\ \E j \in 1..Len(requests) : running'.kind = requests[j].kind
              /\ store \in [Mailbox -> P \cup {Absent}] =>
                   /\ store' \in [Mailbox -> P \cup {Absent}]
                   /\ Restored' => running'.data \in P
        /\ running' \in Jobs /\ store' \in [Mailbox -> Text \cup {Absent}]
    <2>1. (queue' = queue \o kinds /\ UNCHANGED <<store, running>>)
          \/ /\ Idle /\ requests # <<>>
             /\ queue' = Tail(kinds)
             /\ Executed(requests[1].kind, requests[1].key, requests[1].text)
          BY DEF Requested
    <2>2. CASE queue' = queue \o kinds /\ UNCHANGED <<store, running>>
      <3> HIDE DEF kinds
      <3>1. /\ queue \o kinds \in Seq(Kinds)
            /\ Len(queue \o kinds) = Len(queue) + Len(kinds)
            /\ \A i \in 1..Len(queue) + Len(kinds) :
                 (queue \o kinds)[i] = IF i <= Len(queue) THEN queue[i]
                                       ELSE kinds[i - Len(queue)]
            BY <1>2, <1>3, ConcatProperties
      <3>2. ASSUME NEW i \in 1..Len(queue')
            PROVE  \/ i \in 1..Len(queue) /\ queue'[i] = queue[i]
                   \/ \E j \in 1..Len(requests) : queue'[i] = requests[j].kind
        <4>1. CASE i <= Len(queue)
              BY <1>1, <1>2, <1>3, <2>2, <3>1, <4>1
        <4>2. CASE ~ (i <= Len(queue))
          <5>1. i - Len(queue) \in 1..Len(requests)
                BY <1>1, <1>2, <1>3, <2>2, <3>1, <4>2
          <5>2. queue'[i] = kinds[i - Len(queue)]
                BY <1>3, <2>2, <3>1, <4>2
          <5>3. QED
                BY <1>3, <5>1, <5>2
        <4>3. QED
              BY <4>1, <4>2
      <3>3. running' \in Jobs /\ store' \in [Mailbox -> Text \cup {Absent}]
            BY <2>2 DEF KeyChainTypeOK, Jobs
      <3>4. QED
            BY <2>2, <3>1, <3>2, <3>3
    <2>3. CASE /\ Idle /\ requests # <<>>
               /\ queue' = Tail(kinds)
               /\ Executed(requests[1].kind, requests[1].key, requests[1].text)
      <3>1. Len(requests) # 0 /\ 1 \in 1..Len(requests)
            BY <1>1, <2>3, EmptySeq
      <3> HIDE DEF kinds
      <3>2. kinds # <<>>
            BY <1>3, <3>1, EmptySeq
      <3>3. /\ Tail(kinds) \in Seq(Kinds)
            /\ Len(Tail(kinds)) = Len(requests) - 1
            /\ \A i \in 1..Len(Tail(kinds)) : Tail(kinds)[i] = kinds[i + 1]
            BY <1>3, <3>2, HeadTailProperties
      <3>4. ASSUME NEW i \in 1..Len(queue')
            PROVE  \E j \in 1..Len(requests) : queue'[i] = requests[j].kind
        <4>1. i + 1 \in 1..Len(requests) /\ queue'[i] = kinds[i + 1]
              BY <1>1, <2>3, <3>3
        <4>2. QED
              BY <1>3, <4>1
      <3>5. /\ requests[1].kind \in Kinds /\ requests[1].key \in Mailbox
            /\ requests[1].text \in Text
            /\ requests[1].kind = "write" => requests[1].text \in P
            BY <1>1, <3>1 DEF Request
      <3>6. /\ running' \in Jobs /\ running'.kind = requests[1].kind
            /\ store' \in [Mailbox -> Text \cup {Absent}]
            BY <2>3, <3>5, ExecutedTypes
      <3>7. store \in [Mailbox -> P \cup {Absent}] =>
              /\ store' \in [Mailbox -> P \cup {Absent}]
              /\ Restored' => running'.data \in P
            BY <2>3, <3>5, ExecutedFacts DEF Restored
      <3>8. QED
            BY <2>3, <3>1, <3>3, <3>4, <3>6, <3>7
    <2>4. QED
          BY <2>1, <2>2, <2>3
  <1>5. ASSUME NEW kind \in Kinds
        PROVE  IF Asks(requests, kind)
               THEN \E j \in 1..Len(requests) :
                      /\ requests[j].kind = kind
                      /\ LastOf(requests, kind) = requests[j]
                      /\ jobKey'[kind] = requests[j].key
               ELSE jobKey'[kind] = jobKey[kind]
        BY <1>1, LastFacts DEF Requested
  <1>6. IF Asks(requests, "write") THEN jobText' \in P /\ jobText' \in Text
        ELSE jobText' = jobText
    <2>1. CASE Asks(requests, "write")
      <3>1. PICK j \in 1..Len(requests) :
              requests[j].kind = "write" /\ LastOf(requests, "write") = requests[j]
            BY <1>1, <2>1, LastFacts
      <3>2. jobText' = requests[j].text
            BY <2>1, <3>1 DEF Requested
      <3>3. QED
            BY <1>1, <2>1, <3>1, <3>2 DEF Request
    <2>2. CASE ~Asks(requests, "write")
          BY <2>2 DEF Requested
    <2>3. QED
          BY <2>1, <2>2
  <1>7. jobKey' \in [Kinds -> Mailbox \cup {NoMailbox}]
    <2>1. jobKey' = [kind \in Kinds |-> jobKey'[kind]]
          BY DEF Requested
    <2>2. ASSUME NEW kind \in Kinds
          PROVE  jobKey'[kind] \in Mailbox \cup {NoMailbox}
          BY <1>1, <1>5 DEF Request, KeyChainTypeOK
    <2>3. QED
          BY <2>1, <2>2
  <1>8. KeyChainTypeOK'
         BY <1>4, <1>6, <1>7 DEF KeyChainTypeOK, Requested, Jobs
  <1>9. ASSUME Keyed PROVE Keyed'
    <2>1. SUFFICES ASSUME NEW i \in 1..Len(queue')
                   PROVE  jobKey'[queue'[i]] \in Mailbox
          BY DEF Keyed
    <2>2. queue'[i] \in Kinds
          BY <1>4, LenProperties
    <2>3. CASE Asks(requests, queue'[i])
          BY <1>1, <1>5, <2>2, <2>3 DEF Request
    <2>4. CASE ~Asks(requests, queue'[i])
      <3>1. i \in 1..Len(queue) /\ queue'[i] = queue[i]
            BY <1>4, <2>4 DEF Asks
      <3>2. QED
            BY <1>5, <1>9, <2>2, <2>4, <3>1 DEF Keyed
    <2>5. QED
          BY <2>3, <2>4
  <1>10. /\ \A kind \in Kinds : ~Asks(requests, kind) =>
              jobKey'[kind] = jobKey[kind]
         /\ \A kind \in Kinds : Asks(requests, kind) =>
              \E j \in 1..Len(requests) :
                requests[j].kind = kind /\ jobKey'[kind] = requests[j].key
         BY <1>5
  <1>11. IF Asks(requests, "write") THEN jobText' \in P
         ELSE jobText' = jobText
         BY <1>6
  <1>12. Keyed => Keyed'
         BY <1>9
  <1>13. QED
         BY <1>4, <1>8, <1>10, <1>11, <1>12

-----------------------------------------------------------------------------
(* The passwords of a list, and what the handlers ask of the keychain.     *)

\* All passwords of a list are from P.
Passwords(c, P) == \A i \in 1..Len(c) : c[i].m_Password \in P

\* A list of entries with passwords is a configuration.
LEMMA ConfigByPasswords ==
  ASSUME NEW c, WellFormed(c)
  PROVE  c \in Seq(MailboxConfig) <=> Passwords(c, Text)
  <1>1. /\ Len(c) \in Nat
        /\ c = [i \in 1..Len(c) |-> c[i]]
        /\ \A i \in 1..Len(c) :
             /\ c[i].m_MailboxName \in Mailbox
             /\ c[i] = [m_MailboxName |-> c[i].m_MailboxName,
                        m_Password |-> c[i].m_Password]
        BY ListFacts
  <1>2. ASSUME c \in Seq(MailboxConfig) PROVE Passwords(c, Text)
    <2>1. \A i \in 1..Len(c) : c[i] \in MailboxConfig
          BY <1>2, LenProperties
    <2>2. QED
          BY <2>1 DEF Passwords, MailboxConfig
  <1>3. ASSUME Passwords(c, Text) PROVE c \in Seq(MailboxConfig)
    <2>1. \A i \in 1..Len(c) : c[i] \in MailboxConfig
          BY <1>1, <1>3 DEF Passwords, MailboxConfig
    <2>2. c \in [1..Len(c) -> MailboxConfig]
          BY <1>1, <2>1
    <2>3. QED
          BY <1>1, <2>2, SeqDef
  <1>4. QED
        BY <1>2, <1>3

\* save() leaves the list with passwords if the fields show one.
LEMMA SavedPasswords ==
  ASSUME NEW c, WellFormed(c), NEW f, f.name \in Mailbox \cup {NoMailbox},
         NEW P, Passwords(c, P), InputOk(f) => f.password \in P
  PROVE  Passwords(SavedConfig(c, f), P)
  <1> DEFINE d == SavedConfig(c, f)
  <1>1. CASE ~InputOk(f)
    <2>1. d = c
          BY <1>1, SavedConfigFacts
    <2>2. QED
          BY <2>1
  <1>2. CASE InputOk(f)
    <2>1. /\ Adds(c, d, f.name)
          /\ \A j \in 1..Len(d) :
               d[j].m_MailboxName = f.name => d[j].m_Password = f.password
          BY <1>2, SavedConfigFacts
    <2> HIDE DEF d
    <2>2. Passwords(d, P)
          BY <1>2, <2>1 DEF Adds, Passwords
    <2>3. QED
          BY <2>2 DEF d
  <1>3. QED
        BY <1>1, <1>2

\* A deletion brings no other passwords.
LEMMA DeletedPasswords ==
  ASSUME NEW c, WellFormed(c), NEW name, NEW P, Passwords(c, P)
  PROVE  Passwords(DeleteConfig(c, name), P)
  BY DeleteConfigFacts DEF Passwords

\* An answer brings no passwords but its text.
LEMMA RestoredPasswords ==
  ASSUME NEW c, WellFormed(c), NEW N, NEW P, Passwords(c, P), NEW text \in P
  PROVE  Passwords(KeyRestored(c, N, text), P)
  <1> DEFINE d == KeyRestored(c, N, text)
  <1>1. /\ Len(d) = Len(c)
        /\ \A i \in 1..Len(c) :
             /\ c[i].m_MailboxName \in N => d[i].m_Password = text
             /\ c[i].m_MailboxName \notin N => d[i] = c[i]
        BY KeyRestoredFacts
  <1> HIDE DEF d
  <1>2. Passwords(d, P)
        BY <1>1 DEF Passwords
  <1>3. QED
        BY <1>2 DEF d

\* A new process knows no password.
LEMMA LoadedPasswords ==
  ASSUME NEW names \in Seq(Mailbox)
  PROVE  Passwords(Loaded(names), {Blank})
  <1>1. Loaded(names) = [i \in 1..Len(names) |-> Unanswered(names[i])]
        BY DEF Loaded
  <1>2. Len(names) \in Nat
        BY LenProperties
  <1>3. Len(Loaded(names)) = Len(names)
    <2>1. Loaded(names) \in [1..Len(names) -> {Unanswered(n) : n \in Mailbox}]
          BY <1>1, LenProperties
    <2>2. Loaded(names) \in Seq({Unanswered(n) : n \in Mailbox})
          BY <1>2, <2>1, SeqDef
    <2>3. QED
          BY <1>2, <2>1, <2>2, LenProperties
  <1>4. QED
        BY <1>1, <1>3 DEF Passwords, Unanswered

\* The fields show the password of the mailbox that is selected.
LEMMA DisplayedFacts ==
  ASSUME NEW c, WellFormed(c), NEW P, Passwords(c, P),
         NEW n \in ToSet(Names(c))
  PROVE  Displayed(c, n) \in [name : Mailbox, password : P]
  <1>1. PICK i \in 1..Len(c) : n = c[i].m_MailboxName
        BY NamesFacts
  <1>2. FindMailbox(c, n) = i
        BY <1>1, FindFacts
  <1>3. n \in Mailbox
        BY NamesFacts
  <1>4. QED
        BY <1>1, <1>2, <1>3 DEF Displayed, Passwords

\* The input fields, whatever the user has done.
Fields == [name : Mailbox \cup {NoMailbox}, password : Text]

\* Input that is not dropped has a password.
LEMMA InputIsSecret ==
  ASSUME NEW f \in Fields, InputOk(f)
  PROVE  f.name \in Mailbox /\ f.password \in Secret
  BY DEF InputOk, Fields, Text

\* save() asks for a password to be written, or for nothing.
LEMMA SavedRequestsFacts ==
  ASSUME NEW f \in Fields, NEW P, InputOk(f) => f.password \in P
  PROVE  /\ SavedRequests(f) \in Seq(Request(P))
         /\ \A i \in 1..Len(SavedRequests(f)) :
              SavedRequests(f)[i].kind = "write"
  <1>1. CASE ~InputOk(f)
    <2>1. SavedRequests(f) = <<>>
          BY <1>1 DEF SavedRequests
    <2>2. QED
          BY <2>1
  <1>2. CASE InputOk(f)
    <2> DEFINE r == WriteKey(f.name, f.password)
    <2>1. r.kind = "write" /\ r \in Request(P)
          BY <1>2, InputIsSecret DEF WriteKey, Request, Text, Kinds
    <2>2. SavedRequests(f) = <<r>>
          BY <1>2 DEF SavedRequests
    <2> HIDE DEF r
    <2>3. QED
          BY <2>1, <2>2
  <1>3. QED
        BY <1>1, <1>2

\* Everything is asked to be written when all is saved.
LEMMA SaveRequestsFacts ==
  ASSUME NEW c, WellFormed(c), NEW P, P \subseteq Text, Passwords(c, P)
  PROVE  /\ SaveRequests(c) \in Seq(Request(P))
         /\ \A i \in 1..Len(SaveRequests(c)) :
              SaveRequests(c)[i].kind = "write"
  <1> DEFINE s == SaveRequests(c)
  <1>1. /\ Len(c) \in Nat
        /\ \A i \in 1..Len(c) : c[i].m_MailboxName \in Mailbox
        BY ListFacts
  <1>2. \A i \in 1..Len(c) : s[i] \in Request(P) /\ s[i].kind = "write"
        BY <1>1 DEF SaveRequests, WriteKey, Request, Passwords, Kinds
  <1>3. s \in [1..Len(c) -> Request(P)]
        BY <1>2 DEF SaveRequests
  <1> HIDE DEF s
  <1>4. s \in Seq(Request(P)) /\ Len(s) = Len(c)
        BY <1>1, <1>3, SeqDef, LenProperties
  <1>5. QED
        BY <1>2, <1>4 DEF s

\* A mailbox that is configured is asked to be deleted, and no other.
LEMMA DeleteRequestFacts ==
  ASSUME NEW c, NEW name, Configured(c, name) => name \in Mailbox, NEW P
  PROVE  /\ DeleteRequest(c, name) \in Seq(Request(P))
         /\ \A i \in 1..Len(DeleteRequest(c, name)) :
              /\ DeleteRequest(c, name)[i].kind = "delete"
              /\ DeleteRequest(c, name)[i].key = name
  <1>1. CASE ~Configured(c, name)
    <2>1. DeleteRequest(c, name) = <<>>
          BY <1>1 DEF DeleteRequest
    <2>2. QED
          BY <2>1
  <1>2. CASE Configured(c, name)
    <2> DEFINE r == DeleteKey(name)
    <2>1. r.kind = "delete" /\ r.key = name /\ r \in Request(P)
          BY <1>2 DEF DeleteKey, Request, Text, Kinds
    <2>2. DeleteRequest(c, name) = <<r>>
          BY <1>2 DEF DeleteRequest
    <2> HIDE DEF r
    <2>3. QED
          BY <2>1, <2>2
  <1>3. QED
        BY <1>1, <1>2

-----------------------------------------------------------------------------
(* The types.                                                              *)

\* What the lists of the configuration have to do with their types.
LEMMA ConfigTypes ==
  ASSUME IInv
  PROVE  ConfigTypeOK <=> /\ Passwords(m_MailboxConfig, Text)
                          /\ Passwords(m_OldConfig, Text)
                          /\ m_isConfigured \in BOOLEAN
  <1>1. /\ m_MailboxConfig \in Seq(MailboxConfig)
             <=> Passwords(m_MailboxConfig, Text)
        /\ m_OldConfig \in Seq(MailboxConfig) <=> Passwords(m_OldConfig, Text)
        /\ settings \in Seq(Mailbox)
        BY ConfigByPasswords DEF IInv, Lists
  <1>2. QED
        BY <1>1 DEF ConfigTypeOK

\* What the dialog shows is of mailboxes.
LEMMA ShownTypes ==
  ASSUME IInv, dialog = "open"
  PROVE  /\ list = ToSet(Names(m_MailboxConfig))
         /\ list \subseteq Mailbox
  <1>1. WellFormed(m_MailboxConfig) /\ list = ToSet(Names(m_MailboxConfig))
        BY DEF IInv, Lists, Shown
  <1>2. QED
        BY <1>1, NamesFacts

\* Reading jobs, one for each name.
LEMMA ReadsFacts ==
  ASSUME NEW names \in Seq(Mailbox)
  PROVE  /\ Reads(names) \in Seq(Kinds)
         /\ Len(Reads(names)) = Len(names)
         /\ \A i \in 1..Len(names) : Reads(names)[i] = "read"
  <1>1. Len(names) \in Nat
        BY LenProperties
  <1>2. Reads(names) \in [1..Len(names) -> Kinds]
        BY DEF Reads, Kinds
  <1>3. \A i \in 1..Len(names) : Reads(names)[i] = "read"
        BY DEF Reads
  <1>4. QED
        BY <1>1, <1>2, <1>3, SeqDef, LenProperties

\* A new process asks for the password of each mailbox.
LEMMA FirstKeysFacts ==
  ASSUME NEW names \in Seq(Mailbox)
  PROVE  /\ FirstKeys(names) \in [Kinds -> Mailbox \cup {NoMailbox}]
         /\ Len(names) # 0 => FirstKeys(names)["read"] \in Mailbox
         /\ ToSet(names) \subseteq Mailbox
  <1>1. Len(names) \in Nat /\ \A i \in 1..Len(names) : names[i] \in Mailbox
        BY LenProperties
  <1>2. names # <<>> => Last(names) \in Mailbox
        BY <1>1, EmptySeq, LenProperties DEF Last
  <1>3. FirstKeys(names) \in [Kinds -> Mailbox \cup {NoMailbox}]
        BY <1>2 DEF FirstKeys
  <1>4. Len(names) # 0 => FirstKeys(names)["read"] \in Mailbox
    <2>1. Len(names) # 0 => names # <<>>
          BY EmptySeq
    <2>2. "read" \in Kinds
          BY DEF Kinds
    <2>3. QED
          BY <1>2, <2>1, <2>2 DEF FirstKeys
  <1>5. ToSet(names) \subseteq Mailbox
        BY <1>1, LenProperties DEF ToSet
  <1>6. QED
        BY <1>3, <1>4, <1>5

\* Its jobs read, and so does the first one if its turn came at once; what that
\* one brings is in the keychain, which holds texts from P.
LEMMA FirstFacts ==
  ASSUME NEW names \in Seq(Mailbox), NEW P, P \subseteq Text,
         store \in [Mailbox -> P \cup {Absent}],
         NEW first \in FirstJobs(names)
  PROVE  /\ first.queue \in Seq(Kinds)
         /\ \A i \in 1..Len(first.queue) :
              /\ first.queue[i] = "read"
              /\ FirstKeys(names)[first.queue[i]] \in Mailbox
         /\ first.running \in Jobs
         /\ first.running.kind \in {"none", "read"}
         /\ first.running.kind = "read" /\ first.running.ok
              => first.running.data \in P
  <1>1. Len(names) \in Nat /\ \A i \in 1..Len(names) : names[i] \in Mailbox
        BY LenProperties
  <1>2. CASE first = [queue |-> Reads(names), running |-> NoJob]
    <2>1. /\ first.queue = Reads(names)
          /\ first.running = NoJob
          BY <1>2
    <2>2. NoJob \in Jobs /\ NoJob.kind = "none"
          BY DEF NoJob, Jobs, Text
    <2>3. \A i \in 1..Len(first.queue) :
            /\ first.queue[i] = "read"
            /\ FirstKeys(names)[first.queue[i]] \in Mailbox
          BY <1>1, <2>1, ReadsFacts, FirstKeysFacts
    <2>4. QED
          BY <2>1, <2>2, <2>3, ReadsFacts
  <1>3. CASE /\ names # <<>>
             /\ \E o \in Outcomes("read", store[Head(names)]) :
                  first = [queue |-> Reads(Tail(names)), running |-> o]
    <2>1. PICK o \in Outcomes("read", store[Head(names)]) :
            first = [queue |-> Reads(Tail(names)), running |-> o]
          BY <1>3
    <2>2. first.queue = Reads(Tail(names)) /\ first.running = o
          BY <2>1
    <2>3. Tail(names) \in Seq(Mailbox) /\ Head(names) \in Mailbox
          BY <1>3, HeadTailProperties
    <2>4. Len(names) # 0
          BY <1>3, EmptySeq
    <2>5. \A i \in 1..Len(first.queue) :
            /\ first.queue[i] = "read"
            /\ FirstKeys(names)[first.queue[i]] \in Mailbox
          BY <2>2, <2>3, <2>4, ReadsFacts, FirstKeysFacts
    <2>6. "read" \in Kinds /\ store[Head(names)] \in P \cup {Absent}
          BY <2>3 DEF Kinds
    <2>7. /\ o \in Jobs
          /\ o.kind = "read"
          /\ o.kind = "read" /\ o.ok => o.data \in P
          BY <2>6, OutcomesFacts
    <2>8. QED
          BY <2>2, <2>3, <2>5, <2>7, ReadsFacts
  <1>4. QED
        BY <1>2, <1>3, Zenon DEF FirstJobs

\* The lists after a step are typed if their passwords are.
LEMMA ConfigTypesNext ==
  ASSUME IInv', Passwords(m_MailboxConfig', Text),
         Passwords(m_OldConfig', Text), m_isConfigured' \in BOOLEAN
  PROVE  ConfigTypeOK'
  <1>1. /\ WellFormed(m_MailboxConfig') /\ WellFormed(m_OldConfig')
        /\ settings' \in Seq(Mailbox)
        BY DEF IInv, Lists
  <1>2. /\ m_MailboxConfig' \in Seq(MailboxConfig)
        /\ m_OldConfig' \in Seq(MailboxConfig)
        BY <1>1, ConfigByPasswords
  <1>3. QED
        BY <1>1, <1>2 DEF ConfigTypeOK

\* So is the list that is shown.
LEMMA ShownTypesNext ==
  ASSUME IInv', dialog' = "open"
  PROVE  list' \subseteq Mailbox
  <1>1. WellFormed(m_MailboxConfig') /\ list' = ToSet(Names(m_MailboxConfig'))
        BY DEF IInv, Lists, Shown
  <1>2. QED
        BY <1>1, NamesFacts

\* A program starts with typed variables.
LEMMA InitTypes == ServedInit /\ IInv => TInv
  <1>1. SUFFICES ASSUME ServedInit, IInv PROVE TInv
        OBVIOUS
  <1>2. /\ settings \in Seq(Mailbox)
        /\ m_MailboxConfig = Loaded(settings) /\ m_OldConfig = <<>>
        /\ jobKey = FirstKeys(settings) /\ readers = ToSet(settings)
        BY <1>1 DEF ServedInit, Init, IInv, Lists
  <1>3. store \in [Mailbox -> Text \cup {Absent}]
    <2>1. store \in [Mailbox -> Secret \cup {Absent}]
          BY <1>1 DEF ServedInit, Init
    <2>2. QED
          BY <2>1 DEF Text
  <1>4. KeyChainTypeOK /\ Keyed
    <2>1. PICK first \in FirstJobs(settings) :
            queue = first.queue /\ running = first.running
          BY <1>1 DEF ServedInit, Init
    <2>2. /\ first.queue \in Seq(Kinds)
          /\ \A i \in 1..Len(first.queue) :
               FirstKeys(settings)[first.queue[i]] \in Mailbox
          /\ first.running \in Jobs
          BY <1>2, <1>3, FirstFacts
    <2>3. queue \in Seq(Kinds) /\ running \in Jobs /\ Keyed
          BY <1>2, <2>1, <2>2 DEF Keyed
    <2>4. jobText \in Text
          BY <1>1 DEF ServedInit, Init, Text
    <2>5. QED
          BY <1>2, <1>3, <2>3, <2>4, FirstKeysFacts DEF KeyChainTypeOK, Jobs
  <1>5. ConfigTypeOK
    <2>1. Passwords(m_MailboxConfig, Text)
          BY <1>2, LoadedPasswords DEF Passwords, Text
    <2>2. Passwords(m_OldConfig, Text)
          BY <1>2 DEF Passwords
    <2>3. m_isConfigured \in BOOLEAN
          BY <1>1 DEF ServedInit, Init
    <2>4. QED
          BY <1>1, <2>1, <2>2, <2>3, ConfigTypes
  <1>6. DialogTypeOK
        BY <1>1 DEF ServedInit, Init, DialogTypeOK, EmptyFields, Text
  <1>7. QED
        BY <1>4, <1>5, <1>6 DEF TInv, TypeOK

\* A handler's requests are typed.
LEMMA RequestedTypes ==
  ASSUME TInv, NEW P, P \subseteq Text, NEW requests \in Seq(Request(P)), Requested(requests)
  PROVE  KeyChainTypeOK' /\ Keyed'
  BY RequestedFacts DEF TInv, TypeOK

\* save(), from the list or with Add.
LEMMA TypedTypes ==
  ASSUME TInv, IInv, IInv', Typed
  PROVE  TInv'
  <1> DEFINE c == SavedConfig(m_MailboxConfig, fields)
  <1>1. /\ fields \in Fields
        /\ WellFormed(m_MailboxConfig)
        /\ Passwords(m_MailboxConfig, Text) /\ Passwords(m_OldConfig, Text)
        /\ m_isConfigured \in BOOLEAN
        BY ConfigTypes DEF TInv, TypeOK, DialogTypeOK, Fields, IInv, Lists
  <1>2. Requested(SavedRequests(fields))
        BY DEF Typed, Select, Add
  <1>3. KeyChainTypeOK' /\ Keyed'
    <2>1. SavedRequests(fields) \in Seq(Request(Text))
          BY <1>1, SavedRequestsFacts DEF Fields
    <2>2. QED
          BY <1>2, <2>1, RequestedTypes
  <1>4. Passwords(c, Text)
        BY <1>1, SavedPasswords DEF Fields
  <1>5. /\ m_MailboxConfig' = c /\ m_OldConfig' = m_OldConfig
        /\ m_isConfigured' = (m_isConfigured \/ InputOk(fields))
        /\ dialog = "open" /\ dialog' = "open"
        BY DEF Typed, Select, Add, SelectionChanged
  <1>6. ConfigTypeOK'
    <2>1. m_isConfigured' \in BOOLEAN
          BY <1>1, <1>5 DEF InputOk
    <2>2. QED
          BY <1>1, <1>4, <1>5, <2>1, ConfigTypesNext
  <1>7. DialogTypeOK'
    <2>1. list' \subseteq Mailbox
          BY <1>5, ShownTypesNext
    <2>2. CASE \E n \in Mailbox : Select(n)
      <3>1. PICK n \in Mailbox : Select(n)
            BY <2>2
      <3>2. WellFormed(c) /\ n \in ToSet(Names(c))
        <4>1. n \in ToSet(Names(m_MailboxConfig))
              BY <1>5, <3>1, ShownTypes DEF Select
        <4>2. ToSet(Names(c)) = SavedList(ToSet(Names(m_MailboxConfig)), fields)
              BY <1>1, SavedConfigFacts DEF Fields
        <4>3. WellFormed(c)
              BY <1>1, SavedConfigFacts DEF Fields
        <4>4. QED
              BY <4>1, <4>2, <4>3 DEF SavedList
      <3>3. fields' \in [name : Mailbox, password : Text]
            BY <1>4, <3>1, <3>2, DisplayedFacts DEF Select, SelectionChanged
      <3>4. current' = n /\ enabled' = InputOk(fields')
            BY <3>1 DEF Select, SelectionChanged
      <3>5. enabled' \in BOOLEAN
            BY <3>4 DEF InputOk
      <3>6. QED
            BY <1>5, <2>1, <3>3, <3>4, <3>5 DEF DialogTypeOK
    <2>3. CASE Add
      <3>1. fields' = EmptyFields /\ UNCHANGED <<current, enabled>>
            BY <2>3 DEF Add
      <3>2. QED
            BY <1>5, <2>1, <3>1
            DEF DialogTypeOK, EmptyFields, Text, TInv, TypeOK
    <2>4. QED
          BY <2>2, <2>3 DEF Typed
  <1>8. QED
        BY <1>3, <1>6, <1>7 DEF TInv, TypeOK

\* What a deletion does, the cleared fields being dropped.
LEMMA DeleteFacts ==
  ASSUME TInv, IInv, Delete
  PROVE  LET c == DeleteConfig(m_MailboxConfig, fields.name)
         IN /\ dialog = "open" /\ dialog' = "open" /\ enabled
            /\ m_MailboxConfig' = c /\ m_OldConfig' = m_OldConfig
            /\ Requested(DeleteRequest(m_MailboxConfig, fields.name))
            /\ m_isConfigured' \in BOOLEAN
            /\ \/ \E n \in ToSet(Names(c)) :
                    /\ current' = n
                    /\ fields' = Displayed(c, n)
                    /\ enabled' = InputOk(fields')
               \/ /\ current' \in {current, NoMailbox}
                  /\ fields' = EmptyFields
                  /\ enabled' = enabled
  <1> DEFINE c == DeleteConfig(m_MailboxConfig, fields.name)
             request == DeleteRequest(m_MailboxConfig, fields.name)
             rest == list \ {fields.name}
  <1>1. ~InputOk(EmptyFields)
        BY DEF InputOk, EmptyFields
  <1>2. SavedConfig(c, EmptyFields) = c /\ SavedRequests(EmptyFields) = <<>>
        BY <1>1 DEF SavedConfig, SavedRequests
  <1>3. request \o <<>> = request
    <2>1. Configured(m_MailboxConfig, fields.name) => fields.name \in Mailbox
          BY ListFacts DEF Configured, IInv, Lists
    <2>2. request \in Seq(Request(Text))
          BY <2>1, DeleteRequestFacts
    <2> HIDE DEF request
    <2>3. QED
          BY <2>2, ConcatEmptySeq
  <1>4. /\ dialog = "open" /\ enabled
        /\ UNCHANGED <<m_OldConfig, dialog>>
        BY DEF Delete, DeletedWith
  <1>5. rest = ToSet(Names(c))
    <2>1. list = ToSet(Names(m_MailboxConfig)) /\ WellFormed(m_MailboxConfig)
          BY <1>4, ShownTypes DEF IInv, Lists
    <2>2. QED
          BY <2>1, DeleteConfigFacts
  <1>6. m_isConfigured \in BOOLEAN
        BY DEF TInv, TypeOK, ConfigTypeOK
  <1>7. CASE /\ \E n \in rest : SelectionChanged(n, c, EmptyFields)
             /\ Requested(request \o SavedRequests(EmptyFields))
    <2>1. PICK n \in rest : SelectionChanged(n, c, EmptyFields)
          BY <1>7
    <2>2. /\ m_MailboxConfig' = c
          /\ current' = n
          /\ fields' = Displayed(c, n)
          /\ enabled' = InputOk(fields')
          BY <1>2, <2>1 DEF SelectionChanged
    <2>3. m_isConfigured' \in BOOLEAN
          BY <1>1, <1>6, <2>1 DEF SelectionChanged
    <2>4. Requested(request)
          BY <1>2, <1>3, <1>7
    <2>5. QED
          <3> HIDE DEF c, request
          <3> QED BY <1>4, <1>5, <2>2, <2>3, <2>4 DEF c, request
  <1>8. CASE /\ m_MailboxConfig' = c
             /\ Requested(request)
             /\ current' = IF fields.name = current THEN NoMailbox ELSE current
             /\ fields' = EmptyFields
             /\ UNCHANGED <<m_isConfigured, enabled>>
        BY <1>4, <1>6, <1>8
  <1>9. QED
        BY <1>7, <1>8 DEF Delete, DeletedWith

\* Types after a deletion.
LEMMA DeleteTypes ==
  ASSUME TInv, IInv, IInv', Delete
  PROVE  TInv'
  <1> DEFINE c == DeleteConfig(m_MailboxConfig, fields.name)
             request == DeleteRequest(m_MailboxConfig, fields.name)
  <1>1. /\ dialog' = "open"
        /\ m_MailboxConfig' = c /\ m_OldConfig' = m_OldConfig
        /\ Requested(request)
        /\ m_isConfigured' \in BOOLEAN
        BY DeleteFacts
  <1>2. /\ WellFormed(m_MailboxConfig)
        /\ Passwords(m_MailboxConfig, Text) /\ Passwords(m_OldConfig, Text)
        BY ConfigTypes DEF TInv, TypeOK, IInv, Lists
  <1>3. WellFormed(c) /\ Passwords(c, Text)
        BY <1>2, DeleteConfigFacts, DeletedPasswords
  <1>4. KeyChainTypeOK' /\ Keyed'
    <2>1. Configured(m_MailboxConfig, fields.name) => fields.name \in Mailbox
          BY <1>2, ListFacts DEF Configured
    <2>2. request \in Seq(Request(Text))
          BY <2>1, DeleteRequestFacts
    <2>3. QED
          BY <1>1, <2>2, RequestedTypes
  <1>5. ConfigTypeOK'
        BY <1>1, <1>2, <1>3, ConfigTypesNext
  <1>6. DialogTypeOK'
    <2>1. list' \subseteq Mailbox
          BY <1>1, ShownTypesNext
    <2>2. ASSUME NEW n \in ToSet(Names(c)), current' = n,
                 fields' = Displayed(c, n), enabled' = InputOk(fields')
          PROVE  DialogTypeOK'
      <3>1. fields' \in [name : Mailbox, password : Text] /\ n \in Mailbox
            BY <1>3, <2>2, DisplayedFacts, NamesFacts
      <3>2. enabled' \in BOOLEAN
            BY <2>2 DEF InputOk
      <3>3. QED
            BY <1>1, <2>1, <2>2, <3>1, <3>2 DEF DialogTypeOK
    <2>3. ASSUME current' \in {current, NoMailbox}, fields' = EmptyFields,
                 enabled' = enabled
          PROVE  DialogTypeOK'
          BY <1>1, <2>1, <2>3 DEF DialogTypeOK, EmptyFields, Text, TInv, TypeOK
    <2>4. QED
          <3> HIDE DEF c
          <3> QED BY <2>2, <2>3, DeleteFacts DEF c
  <1>7. QED
        BY <1>4, <1>5, <1>6 DEF TInv, TypeOK

\* The dialog opens, fails to open, and is filled in.
LEMMA ViewedTypes ==
  ASSUME TInv, IInv, IInv', Viewed
  PROVE  TInv'
  <1>1. CASE Delete
        BY <1>1, DeleteTypes
  <1>2. CASE Viewed /\ ~Delete
    <2>1. UNCHANGED keyChainVars
          BY <1>2 DEF Viewed, Open, OpenEmpty, OpenCrashes, Fill
    <2>2. KeyChainTypeOK' /\ Keyed'
          BY <2>1 DEF TInv, TypeOK, KeyChainTypeOK, Keyed, keyChainVars
    <2>3. /\ UNCHANGED <<m_MailboxConfig, m_isConfigured>>
          /\ m_OldConfig' \in {m_OldConfig, m_MailboxConfig}
          BY <1>2 DEF Viewed, Open, OpenEmpty, OpenCrashes, Fill, configVars
    <2>4. ConfigTypeOK'
      <3>1. /\ Passwords(m_MailboxConfig', Text)
            /\ Passwords(m_OldConfig', Text)
            /\ m_isConfigured' \in BOOLEAN
            BY <2>3, ConfigTypes DEF TInv, TypeOK
      <3>2. QED
            BY <3>1, ConfigTypesNext
    <2>5. CASE Open
      <3>1. /\ dialog' = "open" /\ list' = ToSet(Names(m_MailboxConfig))
            /\ \E n \in list' :
                 /\ current' = n
                 /\ fields' = Displayed(m_MailboxConfig, n)
                 /\ enabled' = InputOk(fields')
            BY <2>5 DEF Open, Shows
      <3>2. list' \subseteq Mailbox
            BY <3>1, ShownTypesNext
      <3>3. PICK n \in list' :
              /\ current' = n
              /\ fields' = Displayed(m_MailboxConfig, n)
              /\ enabled' = InputOk(fields')
            BY <3>1
      <3>4. fields' \in [name : Mailbox, password : Text]
        <4>1. /\ WellFormed(m_MailboxConfig)
              /\ Passwords(m_MailboxConfig, Text)
              BY ConfigTypes DEF TInv, TypeOK, IInv, Lists
        <4>2. QED
              BY <3>1, <3>3, <4>1, DisplayedFacts
      <3>5. enabled' \in BOOLEAN
            BY <3>3 DEF InputOk
      <3>6. DialogTypeOK'
            BY <3>1, <3>2, <3>3, <3>4, <3>5 DEF DialogTypeOK
      <3>7. QED
            BY <2>2, <2>4, <3>6 DEF TInv, TypeOK
    <2>6. CASE OpenEmpty
      <3>1. DialogTypeOK'
            BY <2>6 DEF OpenEmpty, DialogTypeOK, EmptyFields, Text
      <3>2. QED
            BY <2>2, <2>4, <3>1 DEF TInv, TypeOK
    <2>7. CASE OpenCrashes
      <3>1. DialogTypeOK'
            BY <2>7 DEF OpenCrashes, DialogTypeOK, TInv, TypeOK
      <3>2. QED
            BY <2>2, <2>4, <3>1 DEF TInv, TypeOK
    <2>8. ASSUME NEW n \in Mailbox \cup {NoMailbox}, NEW p \in Text, Fill(n, p)
          PROVE  TInv'
      <3>1. enabled' \in BOOLEAN
            BY <2>8 DEF Fill, InputOk
      <3>2. DialogTypeOK'
            BY <2>8, <3>1 DEF Fill, DialogTypeOK, TInv, TypeOK
      <3>3. QED
            BY <2>2, <2>4, <3>2 DEF TInv, TypeOK
    <2>9. QED
          BY <1>2, <2>5, <2>6, <2>7, <2>8 DEF Viewed
  <1>3. QED
        BY <1>1, <1>2

\* What OK asks for is to write passwords from P if there are no others.
LEMMA AcceptFacts ==
  ASSUME fields \in Fields, WellFormed(m_MailboxConfig),
         NEW P, P \subseteq Text, InputOk(fields) => fields.password \in P,
         Passwords(SavedConfig(m_MailboxConfig, fields), P), Accept
  PROVE  LET c == SavedConfig(m_MailboxConfig, fields)
         IN \E requests \in Seq(Request(P)) :
              /\ Requested(requests)
              /\ \A i \in 1..Len(requests) : requests[i].kind = "write"
  <1> DEFINE c == SavedConfig(m_MailboxConfig, fields)
             r == SavedRequests(fields)
             s == SaveRequests(c)
  <1>1. WellFormed(c)
        BY SavedConfigFacts DEF Fields
  <1>2. /\ r \in Seq(Request(P))
        /\ \A i \in 1..Len(r) : r[i].kind = "write"
        BY SavedRequestsFacts
  <1>3. /\ s \in Seq(Request(P))
        /\ \A i \in 1..Len(s) : s[i].kind = "write"
        <2> HIDE DEF c
        <2> QED BY <1>1, SaveRequestsFacts DEF c
  <1>4. Requested(r \o s)
        BY DEF Accept
  <1> HIDE DEF c, r, s
  <1>5. /\ r \o s \in Seq(Request(P))
        /\ Len(r \o s) = Len(r) + Len(s)
        /\ \A i \in 1..Len(r) + Len(s) :
             (r \o s)[i] = IF i <= Len(r) THEN r[i] ELSE s[i - Len(r)]
        BY <1>2, <1>3, ConcatProperties
  <1>6. ASSUME NEW i \in 1..Len(r \o s)
        PROVE  (r \o s)[i].kind = "write"
    <2>1. Len(r) \in Nat /\ Len(s) \in Nat
          BY <1>2, <1>3, LenProperties
    <2>2. \/ i \in 1..Len(r) /\ (r \o s)[i] = r[i]
          \/ i - Len(r) \in 1..Len(s) /\ (r \o s)[i] = s[i - Len(r)]
          BY <1>5, <2>1
    <2>3. QED
          BY <1>2, <1>3, <2>2
  <1>7. QED
        BY <1>4, <1>5, <1>6

\* Types after OK and Cancel.
LEMMA ClosedTypes ==
  ASSUME TInv, IInv, IInv', Closed
  PROVE  TInv'
  <1>1. /\ fields \in Fields
        /\ WellFormed(m_MailboxConfig)
        /\ Passwords(m_MailboxConfig, Text) /\ Passwords(m_OldConfig, Text)
        /\ m_isConfigured \in BOOLEAN
        BY ConfigTypes DEF TInv, TypeOK, DialogTypeOK, Fields, IInv, Lists
  <1>2. DialogTypeOK'
    <2>1. /\ dialog' = "closed" /\ list' = {} /\ current' = NoMailbox
          /\ fields' = EmptyFields /\ enabled' = FALSE
          BY DEF Closed, Accept, Cancel
    <2>2. QED
          BY <2>1 DEF DialogTypeOK, EmptyFields, Text
  <1>3. CASE Accept
    <2>1. Passwords(SavedConfig(m_MailboxConfig, fields), Text)
          BY <1>1, SavedPasswords DEF Fields
    <2>2. KeyChainTypeOK' /\ Keyed'
      <3>1. PICK requests \in Seq(Request(Text)) : Requested(requests)
            BY <1>1, <1>3, <2>1, AcceptFacts DEF Fields
      <3>2. QED
            BY <3>1, RequestedTypes
    <2>3. m_isConfigured' \in BOOLEAN
          BY <1>1, <1>3 DEF Accept, InputOk
    <2>4. ConfigTypeOK'
      <3>1. /\ m_MailboxConfig' = SavedConfig(m_MailboxConfig, fields)
            /\ m_OldConfig' = m_OldConfig
            BY <1>3 DEF Accept
      <3>2. QED
            BY <1>1, <2>1, <2>3, <3>1, ConfigTypesNext
    <2>5. QED
          BY <1>2, <2>2, <2>4 DEF TInv, TypeOK
  <1>4. CASE Cancel
    <2>1. KeyChainTypeOK' /\ Keyed'
          BY <1>4
          DEF Cancel, TInv, TypeOK, KeyChainTypeOK, Keyed, keyChainVars
    <2>2. /\ m_MailboxConfig' = m_OldConfig /\ m_OldConfig' = m_OldConfig
          /\ m_isConfigured' = m_isConfigured
          BY <1>4 DEF Cancel
    <2>3. ConfigTypeOK'
          BY <1>1, <2>2, ConfigTypesNext
    <2>4. QED
          BY <1>2, <2>1, <2>3 DEF TInv, TypeOK
  <1>5. QED
        BY <1>3, <1>4 DEF Closed

\* The job at the head of the queue has the key of a mailbox.
LEMMA NextJobFacts ==
  ASSUME KeyChainTypeOK, Keyed, queue # <<>>
  PROVE  /\ Head(queue) \in Kinds
         /\ jobKey[Head(queue)] \in Mailbox
         /\ Head(queue) = queue[1]
         /\ Tail(queue) \in Seq(Kinds)
         /\ Len(queue) \in Nat \ {0}
         /\ Len(Tail(queue)) = Len(queue) - 1
         /\ \A i \in 1..Len(Tail(queue)) :
              i + 1 \in 1..Len(queue) /\ Tail(queue)[i] = queue[i + 1]
  <1>1. queue \in Seq(Kinds)
        BY DEF KeyChainTypeOK
  <1>2. Len(queue) \in Nat \ {0}
        BY <1>1, EmptySeq
  <1>3. Head(queue) = queue[1] /\ 1 \in 1..Len(queue)
        BY <1>1, <1>2
  <1>4. /\ Head(queue) \in Kinds
        /\ Tail(queue) \in Seq(Kinds)
        /\ Len(Tail(queue)) = Len(queue) - 1
        /\ \A i \in 1..Len(Tail(queue)) : Tail(queue)[i] = queue[i + 1]
        BY <1>1, HeadTailProperties
  <1>5. \A i \in 1..Len(Tail(queue)) : i + 1 \in 1..Len(queue)
        BY <1>2, <1>4
  <1>6. QED
        BY <1>2, <1>3, <1>4, <1>5 DEF Keyed

\* Types after a job.
LEMMA ExecutesTypes ==
  ASSUME TInv, Executes
  PROVE  TInv'
  <1>1. /\ KeyChainTypeOK /\ Keyed /\ queue # <<>>
        /\ queue' = Tail(queue)
        /\ Executed(Head(queue), jobKey[Head(queue)], jobText)
        /\ UNCHANGED <<jobKey, jobText, readers, configVars, dialogVars>>
        BY DEF TInv, TypeOK, Executes, JobExecuted
  <1>2. Head(queue) \in Kinds /\ jobKey[Head(queue)] \in Mailbox
        BY <1>1, NextJobFacts
  <1>3. jobText \in Text
        BY <1>1 DEF KeyChainTypeOK
  <1>4. running' \in Jobs /\ store' \in [Mailbox -> Text \cup {Absent}]
        BY <1>1, <1>2, <1>3, ExecutedTypes
  <1>5. KeyChainTypeOK'
        BY <1>1, <1>4, NextJobFacts DEF KeyChainTypeOK, Jobs
  <1>6. Keyed'
        BY <1>1, NextJobFacts DEF Keyed
  <1>7. ConfigTypeOK' /\ DialogTypeOK'
        BY <1>1 DEF TInv, TypeOK, ConfigTypeOK, DialogTypeOK, configVars,
           dialogVars
  <1>8. QED
        BY <1>5, <1>6, <1>7 DEF TInv, TypeOK

\* Types after an answer.
LEMMA AnswersTypes ==
  ASSUME TInv, IInv, IInv', Answers
  PROVE  TInv'
  <1>1. /\ UNCHANGED <<store, jobKey, jobText, readers, queue>>
        /\ running' = NoJob
        /\ UNCHANGED <<m_OldConfig, m_isConfigured, settings, dialogVars>>
        BY DEF Answers, JobFinished, Finished
  <1>2. /\ WellFormed(m_MailboxConfig)
        /\ Passwords(m_MailboxConfig, Text) /\ Passwords(m_OldConfig, Text)
        /\ m_isConfigured \in BOOLEAN
        BY ConfigTypes DEF TInv, TypeOK, IInv, Lists
  <1>3. KeyChainTypeOK' /\ Keyed'
    <2>1. NoJob \in [kind : Kinds \cup {"none"}, ok : BOOLEAN, data : Text]
          BY DEF NoJob, Text
    <2>2. QED
          BY <1>1, <2>1 DEF TInv, TypeOK, KeyChainTypeOK, Keyed
  <1>4. running.data \in Text
        BY DEF TInv, TypeOK, KeyChainTypeOK
  <1>5. Passwords(m_MailboxConfig', Text)
    <2>1. Passwords(KeyRestored(m_MailboxConfig, readers, running.data), Text)
          BY <1>2, <1>4, RestoredPasswords
    <2>2. QED
          BY <1>2, <2>1 DEF Answers, JobFinished
  <1>6. ConfigTypeOK'
        BY <1>1, <1>2, <1>5, ConfigTypesNext
  <1>7. DialogTypeOK'
        BY <1>1 DEF TInv, TypeOK, DialogTypeOK, dialogVars
  <1>8. QED
        BY <1>3, <1>6, <1>7 DEF TInv, TypeOK

\* Types in a new process.
LEMMA RestartedTypes ==
  ASSUME TInv, IInv, IInv', Restarted
  PROVE  TInv'
  <1>1. /\ settings \in Seq(Mailbox) /\ settings' = settings
        /\ m_MailboxConfig' = Loaded(settings) /\ m_OldConfig' = <<>>
        /\ m_isConfigured' = (settings # <<>>)
        /\ jobKey' = FirstKeys(settings) /\ readers' = ToSet(settings)
        /\ jobText' = Blank /\ store' = store
        BY DEF Restarted, Restart, Constructed, IInv, Lists
  <1>2. store \in [Mailbox -> Text \cup {Absent}] /\ Blank \in Text
        BY DEF TInv, TypeOK, KeyChainTypeOK, Text
  <1>3. KeyChainTypeOK' /\ Keyed'
    <2>1. PICK first \in FirstJobs(settings) :
            queue' = first.queue /\ running' = first.running
          BY DEF Restarted, Restart, Constructed
    <2>2. /\ first.queue \in Seq(Kinds)
          /\ \A i \in 1..Len(first.queue) :
               FirstKeys(settings)[first.queue[i]] \in Mailbox
          /\ first.running \in Jobs
          BY <1>1, <1>2, FirstFacts
    <2>3. queue' \in Seq(Kinds) /\ running' \in Jobs /\ Keyed'
          BY <1>1, <2>1, <2>2 DEF Keyed
    <2>4. QED
          BY <1>1, <1>2, <2>3, FirstKeysFacts DEF KeyChainTypeOK, Jobs
  <1>4. ConfigTypeOK'
    <2>1. Passwords(m_MailboxConfig', Text)
          BY <1>1, LoadedPasswords DEF Passwords, Text
    <2>2. Passwords(m_OldConfig', Text)
          BY <1>1 DEF Passwords
    <2>3. m_isConfigured' \in BOOLEAN
          BY <1>1
    <2>4. QED
          BY <2>1, <2>2, <2>3, ConfigTypesNext
  <1>5. DialogTypeOK'
        BY DEF Restarted, Restart, DialogTypeOK, EmptyFields, Text
  <1>6. QED
        BY <1>3, <1>4, <1>5 DEF TInv, TypeOK

\* Nothing changes.
LEMMA StuttersTypes == TInv /\ UNCHANGED servedVars => TInv'
  BY DEF TInv, TypeOK, KeyChainTypeOK, Keyed, ConfigTypeOK, DialogTypeOK,
     servedVars, vars, keyChainVars, configVars, dialogVars

\* In every state, with every keychain, the variables are typed and every job
\* that waits has the key of a mailbox.
THEOREM KeysTyped == ServedSpec => []TInv
  <1>1. TInv /\ IInv /\ IInv' /\ [ServedNext]_servedVars => TInv'
        BY TypedTypes, ViewedTypes, ClosedTypes, ExecutesTypes, AnswersTypes,
           RestartedTypes, StuttersTypes DEF ServedNext
  <1>2. QED
        BY <1>1, InitTypes, ListsConsistent, PTL DEF ServedSpec

\* The variables of the dialog, the configuration and the keychain's jobs keep
\* their types.
THEOREM DialogTypes == ServedSpec => []TypeOK
  <1>1. TInv => TypeOK
        BY DEF TInv
  <1>2. QED
        BY <1>1, KeysTyped, PTL

-----------------------------------------------------------------------------
(* What is deleted.                                                        *)

\* A deletion was asked for in this step.
DeletionQueued ==
  \/ \E i \in Len(queue)+1..Len(queue') : queue'[i] = "delete"
  \/ Idle /\ running'.kind = "delete"

\* The executor is idle only with an empty queue.
LEMMA IdleFacts == Idle => queue = <<>> /\ running.kind = "none"
  BY DEF Idle, NoJob

\* Nothing but Delete asks for a deletion.
LEMMA OnlyDeleteDeletes ==
  ASSUME TInv, IInv, [ServedNext]_servedVars, ~Delete
  PROVE  ~DeletionQueued
  <1>1. /\ fields \in Fields /\ WellFormed(m_MailboxConfig)
        /\ Passwords(m_MailboxConfig, Text)
        /\ queue \in Seq(Kinds) /\ Len(queue) \in Nat
        BY ConfigTypes, LenProperties
        DEF TInv, TypeOK, KeyChainTypeOK, DialogTypeOK, Fields, IInv, Lists
  <1>2. ASSUME NEW requests \in Seq(Request(Text)), Requested(requests),
               \A i \in 1..Len(requests) : requests[i].kind = "write"
        PROVE  ~DeletionQueued
    <2>1. KeyChainTypeOK /\ Len(requests) \in Nat
          BY <1>2, LenProperties DEF TInv, TypeOK
    <2>2. /\ \A i \in 1..Len(queue') :
               \/ i \in 1..Len(queue)
               \/ \E j \in 1..Len(requests) : queue'[i] = requests[j].kind
          /\ \/ running' = running
             \/ \E j \in 1..Len(requests) : running'.kind = requests[j].kind
          BY <1>2, <2>1, RequestedFacts
    <2>3. ASSUME NEW i \in Len(queue)+1..Len(queue')
          PROVE  queue'[i] # "delete"
      <3>1. i \in 1..Len(queue') /\ i \notin 1..Len(queue)
            BY <1>1
      <3>2. QED
            BY <1>2, <2>2, <3>1
    <2>4. ~ (Idle /\ running'.kind = "delete")
          BY <1>2, <2>2, IdleFacts
    <2>5. QED
          BY <2>3, <2>4 DEF DeletionQueued
  <1>3. CASE Typed
    <2>1. Requested(SavedRequests(fields))
          BY <1>3 DEF Typed, Select, Add
    <2>2. /\ SavedRequests(fields) \in Seq(Request(Text))
          /\ \A i \in 1..Len(SavedRequests(fields)) :
               SavedRequests(fields)[i].kind = "write"
          BY <1>1, SavedRequestsFacts DEF Fields
    <2>3. QED
          BY <1>2, <2>1, <2>2
  <1>4. CASE Accept
    <2>1. Passwords(SavedConfig(m_MailboxConfig, fields), Text)
          BY <1>1, SavedPasswords DEF Fields
    <2>2. PICK requests \in Seq(Request(Text)) :
            /\ Requested(requests)
            /\ \A i \in 1..Len(requests) : requests[i].kind = "write"
          BY <1>1, <1>4, <2>1, AcceptFacts DEF Fields
    <2>3. QED
          BY <1>2, <2>2
  <1>5. CASE queue' = queue /\ running' \in {running, NoJob}
    <2>1. Len(queue)+1..Len(queue') = {}
          BY <1>1, <1>5
    <2>2. ~ (Idle /\ running'.kind = "delete")
          BY <1>5, IdleFacts DEF NoJob
    <2>3. QED
          BY <2>1, <2>2 DEF DeletionQueued
  <1>6. CASE Executes
    <2>1. /\ KeyChainTypeOK /\ Keyed /\ queue # <<>>
          /\ queue' = Tail(queue)
          BY <1>6 DEF TInv, TypeOK, Executes, JobExecuted
    <2>2. Len(queue') = Len(queue) - 1
          BY <2>1, NextJobFacts
    <2>3. ~Idle
          BY <2>1, IdleFacts
    <2>4. QED
          BY <1>1, <2>2, <2>3 DEF DeletionQueued
  <1>7. CASE Restarted
    <2>1. PICK first \in FirstJobs(settings) :
            queue' = first.queue /\ running' = first.running
          BY <1>7 DEF Restarted, Restart, Constructed
    <2>2. /\ settings \in Seq(Mailbox)
          /\ store \in [Mailbox -> Text \cup {Absent}]
          BY DEF IInv, Lists, TInv, TypeOK, KeyChainTypeOK
    <2>3. /\ \A i \in 1..Len(first.queue) : first.queue[i] = "read"
          /\ first.running.kind \in {"none", "read"}
          BY <2>2, FirstFacts
    <2>4. QED
          BY <1>1, <2>1, <2>3 DEF DeletionQueued
  <1>8. CASE Viewed \/ Cancel \/ Answers \/ UNCHANGED servedVars
    <2>1. queue' = queue /\ running' \in {running, NoJob}
          BY <1>8 DEF Viewed, Open, OpenEmpty, OpenCrashes, Fill, Cancel,
             Answers, JobFinished, Finished, servedVars, vars, keyChainVars
    <2>2. QED
          BY <1>5, <2>1
  <1>9. QED
        BY <1>3, <1>4, <1>6, <1>7, <1>8 DEF ServedNext, Closed

\* Delete asks for the deletion of one mailbox, which is configured no more.
LEMMA DeletedFacts ==
  ASSUME TInv, IInv, Delete, DeletionQueued
  PROVE  ~Configured(m_MailboxConfig', jobKey'["delete"])
  <1> DEFINE name == fields.name
             c == DeleteConfig(m_MailboxConfig, name)
             request == DeleteRequest(m_MailboxConfig, name)
  <1>1. m_MailboxConfig' = c /\ Requested(request)
        BY DeleteFacts
  <1>2. WellFormed(m_MailboxConfig) /\ KeyChainTypeOK
        BY DEF TInv, TypeOK, IInv, Lists
  <1>3. /\ request \in Seq(Request(Text))
        /\ \A i \in 1..Len(request) :
             request[i].kind = "delete" /\ request[i].key = name
    <2>1. Configured(m_MailboxConfig, name) => name \in Mailbox
          BY <1>2, ListFacts DEF Configured
    <2>2. QED
          BY <2>1, DeleteRequestFacts
  <1>4. ~Configured(c, name)
    <2>1. /\ WellFormed(c)
          /\ ToSet(Names(c)) = ToSet(Names(m_MailboxConfig)) \ {name}
          BY <1>2, DeleteConfigFacts
    <2>2. ToSet(Names(c)) = {c[i].m_MailboxName : i \in 1..Len(c)}
          BY <2>1, NamesFacts
    <2>3. QED
          <3> HIDE DEF c
          <3> QED BY <2>1, <2>2 DEF Configured
  <1>5. jobKey'["delete"] = name
    <2> HIDE DEF request
    <2>1. /\ \A i \in 1..Len(queue') :
               \/ i \in 1..Len(queue)
               \/ \E j \in 1..Len(request) : queue'[i] = request[j].kind
          /\ \/ running' = running
             \/ \E j \in 1..Len(request) : running'.kind = request[j].kind
          /\ \A kind \in Kinds : Asks(request, kind) =>
               \E j \in 1..Len(request) : jobKey'[kind] = request[j].key
          BY <1>1, <1>2, <1>3, RequestedFacts
    <2>2. Len(queue) \in Nat
          BY <1>2, LenProperties DEF KeyChainTypeOK
    <2>3. ASSUME \E i \in Len(queue)+1..Len(queue') : queue'[i] = "delete"
          PROVE  \E j \in 1..Len(request) : TRUE
      <3>1. PICK i \in Len(queue)+1..Len(queue') : TRUE
            BY <2>3
      <3>2. i \in 1..Len(queue') /\ i \notin 1..Len(queue)
            BY <2>2
      <3>3. QED
            BY <2>1, <3>2
    <2>4. ASSUME Idle, running'.kind = "delete"
          PROVE  \E j \in 1..Len(request) : TRUE
          BY <2>1, <2>4, IdleFacts
    <2>5. \E j \in 1..Len(request) : TRUE
          BY <2>3, <2>4 DEF DeletionQueued
    <2>6. Asks(request, "delete") /\ "delete" \in Kinds
          BY <1>3, <2>5 DEF Asks, Kinds
    <2>7. QED
          BY <1>3, <2>1, <2>6
  <1>6. QED
        BY <1>1, <1>4, <1>5

\* What is to be deleted from the keychain is configured no more: neither the
\* deletion itself nor the change of the selection brings it back.
THEOREM DeletionIsFinal == ServedSpec => DeletedIsGone
  <1> DEFINE Gone == \A m \in Mailbox :
                       DeletionQueued /\ jobKey'["delete"] = m
                         => ~Configured(m_MailboxConfig', m)
  <1>1. TInv /\ IInv /\ [ServedNext]_servedVars => [Gone]_vars
        BY OnlyDeleteDeletes, DeletedFacts
  <1>2. Gone <=> \A m \in Mailbox :
                   /\ \/ \E i \in Len(queue)+1..Len(queue') :
                           queue'[i] = "delete"
                      \/ Idle /\ running'.kind = "delete"
                   /\ jobKey'["delete"] = m
                   => ~Configured(m_MailboxConfig', m)
        BY DEF DeletionQueued
  <1>3. QED
        BY <1>1, <1>2, KeysTyped, ListsConsistent, PTL
        DEF ServedSpec, DeletedIsGone

-----------------------------------------------------------------------------
(* What the keychain holds.                                                *)

\* OK is pressed only when each mailbox that it saves has a password.
Careful == Accept => Passwords(SavedConfig(m_MailboxConfig, fields), Secret)

\* The program in the hands of a user who waits for the answers before OK.
CarefulSpec == ServedInit /\ [][ServedNext /\ Careful]_servedVars

\* Nothing but passwords is on the way to and from the keychain.
Carried ==
  /\ store \in [Mailbox -> Secret \cup {Absent}]
  /\ \A i \in 1..Len(queue) : queue[i] = "write" => jobText \in Secret
  /\ Restored => running.data \in Secret

LEMMA SecretIsText == Secret \subseteq Text
  BY DEF Text

\* Only passwords are asked to be written.
LEMMA RequestedCarries ==
  ASSUME TInv, Carried, NEW requests \in Seq(Request(Secret)),
         Requested(requests)
  PROVE  Carried'
  <1>1. KeyChainTypeOK
        BY DEF TInv, TypeOK
  <1>2. /\ store' \in [Mailbox -> Secret \cup {Absent}]
        /\ Restored' => running'.data \in Secret
    <2>1. \/ UNCHANGED <<store, running>>
          \/ store \in [Mailbox -> Secret \cup {Absent}] =>
               /\ store' \in [Mailbox -> Secret \cup {Absent}]
               /\ Restored' => running'.data \in Secret
          BY <1>1, RequestedFacts, SecretIsText
    <2>2. QED
          BY <2>1 DEF Carried, Restored
  <1>3. ASSUME NEW i \in 1..Len(queue'), queue'[i] = "write"
        PROVE  jobText' \in Secret
    <2>1. /\ \/ i \in 1..Len(queue) /\ queue'[i] = queue[i]
             \/ \E j \in 1..Len(requests) : queue'[i] = requests[j].kind
          /\ IF Asks(requests, "write") THEN jobText' \in Secret
             ELSE jobText' = jobText
          BY <1>1, RequestedFacts, SecretIsText
    <2>2. CASE Asks(requests, "write")
          BY <2>1, <2>2
    <2>3. CASE ~Asks(requests, "write")
          BY <1>3, <2>1, <2>3 DEF Asks, Carried
    <2>4. QED
          BY <2>2, <2>3
  <1>4. QED
        BY <1>2, <1>3 DEF Carried

\* What save() writes for Add or a selection is a password.
LEMMA TypedKeys ==
  ASSUME TInv, Carried, Typed
  PROVE  Carried'
  <1>1. Requested(SavedRequests(fields))
        BY DEF Typed, Select, Add
  <1>2. fields \in Fields
        BY DEF TInv, TypeOK, DialogTypeOK, Fields
  <1>3. SavedRequests(fields) \in Seq(Request(Secret))
        BY <1>2, InputIsSecret, SavedRequestsFacts
  <1>4. QED
        BY <1>1, <1>3, RequestedCarries

\* A deletion writes nothing, and the rest of the input asks for nothing.
LEMMA ViewedKeys ==
  ASSUME TInv, IInv, Carried, Viewed
  PROVE  Carried'
  <1>1. CASE Delete
    <2>1. Requested(DeleteRequest(m_MailboxConfig, fields.name))
          BY <1>1, DeleteFacts
    <2>2. Configured(m_MailboxConfig, fields.name) => fields.name \in Mailbox
          BY ListFacts DEF Configured, IInv, Lists
    <2>3. DeleteRequest(m_MailboxConfig, fields.name) \in Seq(Request(Secret))
          BY <2>2, DeleteRequestFacts
    <2>4. QED
          BY <2>1, <2>3, RequestedCarries
  <1>2. CASE Viewed /\ ~Delete
    <2>1. UNCHANGED keyChainVars
          BY <1>2 DEF Viewed, Open, OpenEmpty, OpenCrashes, Fill
    <2>2. QED
          BY <2>1 DEF Carried, Restored, keyChainVars
  <1>3. QED
        BY <1>1, <1>2

\* OK writes passwords only, if it is pressed with care.
LEMMA ClosedKeys ==
  ASSUME TInv, IInv, Carried, Closed, Careful
  PROVE  Carried'
  <1>1. CASE Accept
    <2>1. fields \in Fields /\ WellFormed(m_MailboxConfig)
          BY DEF TInv, TypeOK, DialogTypeOK, Fields, IInv, Lists
    <2>2. Passwords(SavedConfig(m_MailboxConfig, fields), Secret)
          BY <1>1 DEF Careful
    <2>3. PICK requests \in Seq(Request(Secret)) : Requested(requests)
          BY <1>1, <2>1, <2>2, SecretIsText, InputIsSecret, AcceptFacts
    <2>4. QED
          BY <2>3, RequestedCarries
  <1>2. CASE Cancel
        BY <1>2 DEF Cancel, Carried, Restored, keyChainVars
  <1>3. QED
        BY <1>1, <1>2 DEF Closed

\* A job writes what was asked for and reads what is there.
LEMMA ExecutesKeys ==
  ASSUME TInv, Carried, Executes
  PROVE  Carried'
  <1>1. /\ KeyChainTypeOK /\ Keyed /\ queue # <<>>
        /\ queue' = Tail(queue) /\ jobText' = jobText
        /\ Executed(Head(queue), jobKey[Head(queue)], jobText)
        BY DEF TInv, TypeOK, Executes, JobExecuted
  <1>2. /\ Head(queue) \in Kinds /\ jobKey[Head(queue)] \in Mailbox
        /\ Head(queue) = queue[1] /\ 1 \in 1..Len(queue)
        BY <1>1, NextJobFacts
  <1>3. /\ store \in [Mailbox -> Secret \cup {Absent}]
        /\ Head(queue) = "write" => jobText \in Secret
        BY <1>2 DEF Carried
  <1>4. /\ store' \in [Mailbox -> Secret \cup {Absent}]
        /\ Restored' => running'.data \in Secret
        BY <1>1, <1>2, <1>3, SecretIsText, ExecutedFacts DEF Restored
  <1>5. ASSUME NEW i \in 1..Len(queue'), queue'[i] = "write"
        PROVE  jobText' \in Secret
    <2>1. i + 1 \in 1..Len(queue) /\ queue'[i] = queue[i + 1]
          BY <1>1, NextJobFacts
    <2>2. QED
          BY <1>1, <1>5, <2>1 DEF Carried
  <1>6. QED
        BY <1>4, <1>5 DEF Carried

\* After an answer nothing is under way.
LEMMA AnswersKeys ==
  ASSUME Carried, Answers
  PROVE  Carried'
  BY DEF Carried, Restored, NoJob, Answers, JobFinished, Finished

\* In a new process nothing is on the way but questions, and what the first of
\* them brings.
LEMMA RestartedKeys ==
  ASSUME IInv, Carried, Restarted
  PROVE  Carried'
  <1>1. PICK first \in FirstJobs(settings) :
          queue' = first.queue /\ running' = first.running
        BY DEF Restarted, Restart, Constructed
  <1>2. settings \in Seq(Mailbox) /\ store' = store
        BY DEF Restarted, Restart, Constructed, IInv, Lists
  <1>3. store \in [Mailbox -> Secret \cup {Absent}]
        BY DEF Carried
  <1>4. /\ \A i \in 1..Len(first.queue) : first.queue[i] = "read"
        /\ first.running.kind = "read" /\ first.running.ok
             => first.running.data \in Secret
        BY <1>2, <1>3, SecretIsText, FirstFacts
  <1>5. QED
        BY <1>1, <1>2, <1>3, <1>4 DEF Carried, Restored

\* What an earlier run of the program has saved are passwords.
LEMMA InitKeys == ServedInit /\ IInv => Carried
  <1>1. SUFFICES ASSUME ServedInit, IInv PROVE Carried
        OBVIOUS
  <1>2. PICK first \in FirstJobs(settings) :
          queue = first.queue /\ running = first.running
        BY <1>1 DEF ServedInit, Init
  <1>3. /\ settings \in Seq(Mailbox)
        /\ store \in [Mailbox -> Secret \cup {Absent}]
        BY <1>1 DEF ServedInit, Init, IInv, Lists
  <1>4. /\ \A i \in 1..Len(first.queue) : first.queue[i] = "read"
        /\ first.running.kind = "read" /\ first.running.ok
             => first.running.data \in Secret
        BY <1>3, SecretIsText, FirstFacts
  <1>5. QED
        BY <1>2, <1>3, <1>4 DEF Carried, Restored

\* Nothing changes.
LEMMA StuttersKeys == Carried /\ UNCHANGED servedVars => Carried'
  BY DEF Carried, Restored, servedVars, vars, keyChainVars

\* OK over a mailbox without a password is the only way for an empty text to get
\* into the keychain: with any number of mailboxes, with any answers, and
\* whenever the program ends and starts again, nothing else writes one, neither
\* save() for the selection and for Add, nor the buttons that stay enabled over
\* cleared fields, nor a text that a later request has left in the writing job.
THEOREM CarefulKeepsKeys == CarefulSpec => []NoBlankKeys
  <1>1. TInv /\ IInv /\ Carried /\ [ServedNext /\ Careful]_servedVars => Carried'
        BY TypedKeys, ViewedKeys, ClosedKeys, ExecutesKeys, AnswersKeys,
           RestartedKeys, StuttersKeys DEF ServedNext
  <1>2. Carried => NoBlankKeys
    <2>1. SUFFICES ASSUME Carried, NEW m \in Mailbox
                   PROVE  store[m] # Blank
          BY DEF NoBlankKeys
    <2>2. store[m] \in Secret \cup {Absent}
      <3>1. store \in [Mailbox -> Secret \cup {Absent}]
            BY <2>1, Zenon DEF Carried
      <3>2. QED
            BY <2>1, <3>1
    <2>3. Blank \notin Secret /\ Blank # Absent
          BY KeyChainAssumption DEF Secret, Blank, Absent
    <2>4. QED
          BY <2>2, <2>3
  <1>3. [ServedNext /\ Careful]_servedVars => [ServedNext]_servedVars
        OBVIOUS
  <1>4. CarefulSpec => ServedSpec
        BY <1>3, PTL DEF CarefulSpec, ServedSpec
  <1>5. QED
        BY <1>1, <1>2, <1>4, InitKeys, KeysTyped, ListsConsistent, PTL
        DEF CarefulSpec
=============================================================================
