-------------------------- MODULE CPasswords_proofs --------------------------
(***************************************************************************)
(* Proofs about CPasswords and with it CSetupDialog and CConfig, for any   *)
(* mailboxes, passwords and lists to start with, with restarts and a       *)
(* keychain that refuses.                                                  *)
(***************************************************************************)
EXTENDS CPasswords, SequenceTheorems, TLAPS

\* What a configuration with passwords from P can hold.  The proofs do not need
\* to know which passwords there are.
Entries(P) == [m_MailboxName : Mailbox, m_Password : P]

Unique(c) ==
  \A i, j \in 1..Len(c) : c[i].m_MailboxName = c[j].m_MailboxName => i = j

\* A list of mailboxes, no two with one name.
WellFormed(c) == (\E P : c \in Seq(Entries(P))) /\ Unique(c)

-----------------------------------------------------------------------------
(* The operators of CConfig.                                               *)

\* What the other lemmas use of a list.
LEMMA ListFacts ==
  ASSUME NEW c, WellFormed(c)
  PROVE  /\ Len(c) \in Nat
         /\ c = [i \in 1..Len(c) |-> c[i]]
         /\ \A i \in 1..Len(c) :
              /\ c[i].m_MailboxName \in Mailbox
              /\ c[i] = [m_MailboxName |-> c[i].m_MailboxName,
                         m_Password |-> c[i].m_Password]
  <1>1. PICK P : c \in Seq(Entries(P))
        BY DEF WellFormed
  <1>2. Len(c) \in Nat /\ c \in [1..Len(c) -> Entries(P)]
        BY <1>1, LenProperties
  <1>3. QED
        BY <1>2 DEF Entries

\* A list of entries whose names differ is one.
LEMMA ListByEntries ==
  ASSUME NEW n \in Nat, NEW P, NEW c \in [1..n -> Entries(P)],
         \A i, j \in 1..n : c[i].m_MailboxName = c[j].m_MailboxName => i = j
  PROVE  WellFormed(c) /\ Len(c) = n
  <1>1. c \in Seq(Entries(P))
        BY SeqDef
  <1>2. Len(c) = n
        BY <1>1, LenProperties
  <1>3. QED
        BY <1>1, <1>2 DEF WellFormed, Unique

\* findMailbox finds the one entry of that name.
LEMMA FindFacts ==
  ASSUME NEW c, WellFormed(c), NEW i \in 1..Len(c)
  PROVE  FindMailbox(c, c[i].m_MailboxName) = i
  <1>1. Len(c) \in Nat
        BY ListFacts
  <1>2. \A j \in 1..Len(c) :
          c[j].m_MailboxName = c[i].m_MailboxName => j = i
        BY DEF WellFormed, Unique
  <1>3. \A j \in 1..i-1 : c[j].m_MailboxName # c[i].m_MailboxName
        BY <1>1, <1>2
  <1>4. QED
        BY <1>2, <1>3 DEF FindMailbox

\* getMailboxes names each mailbox once.
LEMMA NamesFacts ==
  ASSUME NEW c, WellFormed(c)
  PROVE  /\ Names(c) \in Seq(Mailbox)
         /\ IsInjective(Names(c))
         /\ ToSet(Names(c)) = {c[i].m_MailboxName : i \in 1..Len(c)}
         /\ ToSet(Names(c)) \subseteq Mailbox
  <1>1. Names(c) \in [1..Len(c) -> Mailbox] /\ Len(c) \in Nat
        BY ListFacts DEF Names
  <1>2. Names(c) \in Seq(Mailbox)
        BY <1>1, SeqDef
  <1>3. IsInjective(Names(c))
        BY DEF IsInjective, Names, WellFormed, Unique
  <1>4. ToSet(Names(c)) = {c[i].m_MailboxName : i \in 1..Len(c)}
        BY DEF ToSet, Names
  <1>5. ToSet(Names(c)) \subseteq Mailbox
        BY <1>4, ListFacts
  <1>6. QED
        BY <1>2, <1>3, <1>4, <1>5

\* The constructor makes a list of the names in the settings.
LEMMA LoadedFacts ==
  ASSUME NEW names \in Seq(Mailbox), IsInjective(names)
  PROVE  WellFormed(Loaded(names)) /\ Names(Loaded(names)) = names
  <1>1. Len(names) \in Nat /\ names \in [1..Len(names) -> Mailbox]
        BY LenProperties
  <1>2. Loaded(names) \in [1..Len(names) -> Entries({Blank})]
        BY <1>1 DEF Loaded, Unanswered, Entries
  <1>3. \A i \in 1..Len(names) : Loaded(names)[i].m_MailboxName = names[i]
        BY DEF Loaded, Unanswered
  <1>4. \A i, j \in 1..Len(names) :
          Loaded(names)[i].m_MailboxName = Loaded(names)[j].m_MailboxName
            => i = j
        BY <1>1, <1>3 DEF IsInjective
  <1>5. WellFormed(Loaded(names)) /\ Len(Loaded(names)) = Len(names)
        BY <1>1, <1>2, <1>4, ListByEntries
  <1>6. QED
        BY <1>1, <1>3, <1>5 DEF Names

\* keyRestored changes passwords and nothing else.
LEMMA KeyRestoredFacts ==
  ASSUME NEW c, WellFormed(c), NEW N, NEW text
  PROVE  LET d == KeyRestored(c, N, text)
         IN /\ WellFormed(d)
            /\ Len(d) = Len(c)
            /\ Names(d) = Names(c)
            /\ \A i \in 1..Len(c) :
                 /\ d[i].m_MailboxName = c[i].m_MailboxName
                 /\ c[i].m_MailboxName \in N => d[i].m_Password = text
                 /\ c[i].m_MailboxName \notin N => d[i] = c[i]
  <1> DEFINE d == KeyRestored(c, N, text)
  <1>1. PICK P : c \in Seq(Entries(P))
        BY DEF WellFormed
  <1>2. Len(c) \in Nat /\ c \in [1..Len(c) -> Entries(P)]
        BY <1>1, LenProperties
  <1>3. \A i \in 1..Len(c) :
          /\ d[i] \in Entries(P \cup {text})
          /\ d[i].m_MailboxName = c[i].m_MailboxName
          /\ c[i].m_MailboxName \in N => d[i].m_Password = text
          /\ c[i].m_MailboxName \notin N => d[i] = c[i]
        BY <1>2 DEF KeyRestored, Entries
  <1>4. d \in [1..Len(c) -> Entries(P \cup {text})]
        BY <1>3 DEF KeyRestored
  <1>5. \A i, j \in 1..Len(c) :
          d[i].m_MailboxName = d[j].m_MailboxName => i = j
        BY <1>3 DEF WellFormed, Unique
  <1>6. WellFormed(d) /\ Len(d) = Len(c)
        <2> HIDE DEF d
        <2> QED BY <1>2, <1>4, <1>5, ListByEntries
  <1>7. Names(d) = Names(c)
        <2> HIDE DEF d
        <2> QED BY <1>3, <1>6 DEF Names
  <1>8. QED
        BY <1>3, <1>6, <1>7

\* What d has more than c is an entry of that name.
Adds(c, d, name) ==
  /\ \E j \in 1..Len(d) : d[j].m_MailboxName = name
  /\ \A i \in 1..Len(c) :
       \E j \in 1..Len(d) : d[j].m_MailboxName = c[i].m_MailboxName
  /\ \A j \in 1..Len(d) :
       \/ d[j].m_MailboxName = name
       \/ \E i \in 1..Len(c) : d[j] = c[i] /\ c[i].m_MailboxName # name

\* addConfig leaves the other entries alone, and there is one of that name.
LEMMA AddConfigFacts ==
  ASSUME NEW c, WellFormed(c), NEW name \in Mailbox, name # NoMailbox
  PROVE  WellFormed(AddConfig(c, name)) /\ Adds(c, AddConfig(c, name), name)
  <1> DEFINE d == AddConfig(c, name)
             new == Unanswered(name)
  <1>1. PICK P : c \in Seq(Entries(P))
        BY DEF WellFormed
  <1>2. Len(c) \in Nat /\ c \in [1..Len(c) -> Entries(P)]
        BY <1>1, LenProperties
  <1>3. new \in Entries(P \cup {Blank}) /\ new.m_MailboxName = name
        BY DEF Unanswered, Entries
  <1>4. c \in [1..Len(c) -> Entries(P \cup {Blank})]
        BY <1>2 DEF Entries
  <1>5. CASE Configured(c, name)
    <2>1. PICK k \in 1..Len(c) : c[k].m_MailboxName = name
          BY <1>5 DEF Configured
    <2>2. FindMailbox(c, name) = k
          BY <2>1, FindFacts
    <2>3. d = [c EXCEPT ![k] = new]
          BY <1>5, <2>2 DEF AddConfig
    <2>4. d \in [1..Len(c) -> Entries(P \cup {Blank})]
          BY <1>3, <1>4, <2>3
    <2>5. \A j \in 1..Len(c) : d[j] = IF j = k THEN new ELSE c[j]
          BY <1>2, <2>3
    <2>6. \A j \in 1..Len(c) : d[j].m_MailboxName = c[j].m_MailboxName
          BY <1>3, <2>1, <2>5
    <2>7. \A i, j \in 1..Len(c) :
            c[i].m_MailboxName = c[j].m_MailboxName => i = j
          BY DEF WellFormed, Unique
    <2>8. WellFormed(d) /\ Len(d) = Len(c)
          <3> HIDE DEF d
          <3> QED BY <1>2, <2>4, <2>6, <2>7, ListByEntries
    <2>9. Adds(c, d, name)
          <3> HIDE DEF d, new
          <3> QED BY <1>3, <2>1, <2>5, <2>6, <2>7, <2>8 DEF Adds
    <2>10. QED
          BY <2>8, <2>9
  <1>6. CASE ~Configured(c, name)
    <2>1. d = Append(c, new)
          BY <1>6 DEF AddConfig
    <2>2. c \in Seq(Entries(P \cup {Blank}))
          BY <1>2, <1>4, SeqDef
    <2>3. /\ d \in Seq(Entries(P \cup {Blank}))
          /\ Len(d) = Len(c) + 1
          /\ \A j \in 1..Len(c) : d[j] = c[j]
          /\ d[Len(c) + 1] = new
          <3> HIDE DEF d, new
          <3> QED BY <1>3, <2>1, <2>2, AppendProperties
    <2>4. \A i \in 1..Len(c) : c[i].m_MailboxName # name
          BY <1>6 DEF Configured
    <2>5. \A j \in 1..Len(d) : j \in 1..Len(c) \/ j = Len(c) + 1
          BY <1>2, <2>3
    <2>6. Unique(d)
          <3> HIDE DEF d, new
          <3> QED BY <1>2, <1>3, <2>3, <2>4, <2>5 DEF Unique, WellFormed
    <2>7. Len(c) + 1 \in 1..Len(d) /\ \A i \in 1..Len(c) : i \in 1..Len(d)
          BY <1>2, <2>3
    <2>8. WellFormed(d) /\ Adds(c, d, name)
          <3> HIDE DEF d, new
          <3> QED BY <1>3, <2>3, <2>4, <2>5, <2>6, <2>7 DEF WellFormed, Adds
    <2>9. QED
          BY <2>8
  <1>7. QED
        BY <1>5, <1>6

\* save() does the same, if the input is valid.
LEMMA SavedConfigFacts ==
  ASSUME NEW c, WellFormed(c), NEW f, f.name \in Mailbox \cup {NoMailbox}
  PROVE  /\ WellFormed(SavedConfig(c, f))
         /\ ~InputOk(f) => SavedConfig(c, f) = c
         /\ InputOk(f) =>
              /\ f.name \in Mailbox
              /\ Adds(c, SavedConfig(c, f), f.name)
              /\ \A j \in 1..Len(SavedConfig(c, f)) :
                   SavedConfig(c, f)[j].m_MailboxName = f.name
                     => SavedConfig(c, f)[j].m_Password = f.password
         /\ ToSet(Names(SavedConfig(c, f))) = SavedList(ToSet(Names(c)), f)
  <1>1. CASE ~InputOk(f)
        BY <1>1 DEF SavedConfig, SavedList
  <1>2. CASE InputOk(f)
    <2> DEFINE a == AddConfig(c, f.name)
               d == KeyRestored(a, {f.name}, f.password)
    <2>1. f.name \in Mailbox /\ f.name # NoMailbox
          BY <1>2 DEF InputOk
    <2>2. WellFormed(a) /\ Adds(c, a, f.name)
          BY <2>1, AddConfigFacts
    <2>3. SavedConfig(c, f) = d
          BY <1>2 DEF SavedConfig
    <2>4. /\ WellFormed(d)
          /\ Len(d) = Len(a)
          /\ \A i \in 1..Len(a) :
               /\ d[i].m_MailboxName = a[i].m_MailboxName
               /\ a[i].m_MailboxName = f.name => d[i].m_Password = f.password
               /\ a[i].m_MailboxName # f.name => d[i] = a[i]
          <3> HIDE DEF a
          <3> QED BY <2>2, KeyRestoredFacts
    <2>5. Adds(c, d, f.name)
          <3> HIDE DEF a, d
          <3> QED BY <2>2, <2>4 DEF Adds
    <2>6. \A j \in 1..Len(d) :
            d[j].m_MailboxName = f.name => d[j].m_Password = f.password
          <3> HIDE DEF a, d
          <3> QED BY <2>4
    <2>7. {d[j].m_MailboxName : j \in 1..Len(d)}
            = {c[i].m_MailboxName : i \in 1..Len(c)} \cup {f.name}
          <3> HIDE DEF d
          <3>1. \A j \in 1..Len(d) :
                  \/ d[j].m_MailboxName = f.name
                  \/ \E i \in 1..Len(c) :
                       d[j].m_MailboxName = c[i].m_MailboxName
                BY <2>5 DEF Adds
          <3>2. /\ \E j \in 1..Len(d) : d[j].m_MailboxName = f.name
                /\ \A i \in 1..Len(c) :
                     \E j \in 1..Len(d) :
                       d[j].m_MailboxName = c[i].m_MailboxName
                BY <2>5 DEF Adds
          <3> DEFINE D == {d[j].m_MailboxName : j \in 1..Len(d)}
                     C == {c[i].m_MailboxName : i \in 1..Len(c)}
          <3>3. \A x \in D : x \in C \cup {f.name}
                BY <3>1
          <3>4. f.name \in D /\ \A x \in C : x \in D
                BY <3>2
          <3>5. QED
                BY <3>3, <3>4
    <2>8. ToSet(Names(d)) = ToSet(Names(c)) \cup {f.name}
          <3> HIDE DEF d
          <3> QED BY <2>4, <2>7, NamesFacts
    <2>9. QED
          <3> HIDE DEF d
          <3> QED BY <1>2, <2>1, <2>3, <2>4, <2>5, <2>6, <2>8 DEF SavedList
  <1>3. QED
        BY <1>1, <1>2

\* deleteConfig removes the entry of that name and no other.
LEMMA DeleteConfigFacts ==
  ASSUME NEW c, WellFormed(c), NEW name
  PROVE  /\ WellFormed(DeleteConfig(c, name))
         /\ \A j \in 1..Len(DeleteConfig(c, name)) :
              \E i \in 1..Len(c) : DeleteConfig(c, name)[j] = c[i]
         /\ ToSet(Names(DeleteConfig(c, name))) = ToSet(Names(c)) \ {name}
  <1>1. PICK P : c \in Seq(Entries(P))
        BY DEF WellFormed
  <1>2. Len(c) \in Nat /\ c \in [1..Len(c) -> Entries(P)]
        BY <1>1, LenProperties
  <1>3. CASE ~Configured(c, name)
    <2>1. DeleteConfig(c, name) = c
          BY <1>3 DEF DeleteConfig
    <2>2. name \notin ToSet(Names(c))
          BY <1>3, NamesFacts DEF Configured
    <2>3. QED
          BY <2>1, <2>2
  <1>4. CASE Configured(c, name)
    <2>1. PICK k \in 1..Len(c) : c[k].m_MailboxName = name
          BY <1>4 DEF Configured
    <2> DEFINE d == RemoveAt(c, k)
               n == Len(c) - 1
               old(j) == IF j < k THEN j ELSE j + 1
               front == SubSeq(c, 1, k - 1)
               back == SubSeq(c, k + 1, Len(c))
    <2>2. DeleteConfig(c, name) = d
          BY <1>4, <2>1, FindFacts DEF DeleteConfig
    <2>3. /\ front \in Seq(Entries(P)) /\ Len(front) = k - 1
          /\ \A j \in 1..k - 1 : front[j] = c[j]
      <3>1. 1 \in Int /\ k - 1 \in Int /\ \A j \in 1..k - 1 : c[j] \in Entries(P)
            BY <1>2
      <3>2. /\ front \in Seq(Entries(P))
            /\ Len(front) = IF 1 <= k - 1 THEN k - 1 - 1 + 1 ELSE 0
            /\ \A j \in 1..k - 1 - 1 + 1 : front[j] = c[1 + j - 1]
            BY <3>1, SubSeqProperties
      <3>3. QED
            BY <1>2, <3>2
    <2>4. /\ back \in Seq(Entries(P)) /\ Len(back) = Len(c) - k
          /\ \A j \in 1..Len(c) - k : back[j] = c[k + j]
      <3>1. /\ k + 1 \in Int /\ Len(c) \in Int
            /\ \A j \in k + 1..Len(c) : c[j] \in Entries(P)
            BY <1>2
      <3>2. /\ back \in Seq(Entries(P))
            /\ Len(back) = IF k + 1 <= Len(c) THEN Len(c) - (k + 1) + 1 ELSE 0
            /\ \A j \in 1..Len(c) - (k + 1) + 1 : back[j] = c[k + 1 + j - 1]
            BY <3>1, SubSeqProperties
      <3>3. k \in Nat /\ Len(c) \in Nat /\ k <= Len(c)
            BY <1>2
      <3>4. Len(c) - (k + 1) + 1 = Len(c) - k
            BY <3>3
      <3>5. Len(back) = Len(c) - k
            <4> HIDE DEF back
            <4> QED BY <3>2, <3>3
      <3>6. ASSUME NEW j \in 1..Len(c) - k
            PROVE  back[j] = c[k + j]
        <4>1. k + 1 + j - 1 = k + j
              BY <3>3
        <4>2. back[j] = c[k + 1 + j - 1]
              <5> HIDE DEF back
              <5> QED BY <3>2, <3>4
        <4>3. QED
              BY <4>1, <4>2
      <3>7. QED
            BY <3>2, <3>5, <3>6
    <2>5. d = front \o back
          BY DEF RemoveAt
    <2>6. /\ d \in Seq(Entries(P)) /\ Len(d) = n
          /\ \A j \in 1..n : old(j) \in 1..Len(c) /\ d[j] = c[old(j)]
      <3> HIDE DEF d, front, back
      <3>1. /\ d \in Seq(Entries(P)) /\ Len(d) = Len(front) + Len(back)
            /\ \A j \in 1..Len(front) + Len(back) :
                 d[j] = IF j <= Len(front) THEN front[j]
                        ELSE back[j - Len(front)]
            BY <2>3, <2>4, <2>5, ConcatProperties
      <3>2. Len(front) + Len(back) = n
            BY <1>2, <2>3, <2>4
      <3>3. \A j \in 1..n : old(j) \in 1..Len(c)
            BY <1>2
      <3>4. \A j \in 1..n : j < k => d[j] = c[j]
            BY <1>2, <2>3, <3>1, <3>2
      <3>5. ASSUME NEW j \in 1..n, j >= k
            PROVE  d[j] = c[j + 1]
        <4>1. j - (k - 1) \in 1..Len(c) - k /\ k + (j - (k - 1)) = j + 1
              BY <1>2, <3>5
        <4>2. Len(front) = k - 1 /\ ~ (j <= Len(front))
              BY <1>2, <2>3, <3>5
        <4>3. j \in 1..Len(front) + Len(back)
              BY <3>2
        <4>4. d[j] = back[j - Len(front)]
              BY <3>1, <4>2, <4>3
        <4>5. d[j] = back[j - (k - 1)]
              BY <4>2, <4>4
        <4>6. QED
              BY <2>4, <4>1, <4>5
      <3>6. ASSUME NEW j \in 1..n
            PROVE  d[j] = c[old(j)]
        <4>1. CASE j < k
              BY <3>4, <4>1
        <4>2. CASE ~(j < k)
          <5>1. j >= k
                BY <1>2, <4>2
          <5>2. QED
                BY <3>5, <4>2, <5>1
        <4>3. QED
              BY <4>1, <4>2
      <3>7. d \in Seq(Entries(P)) /\ Len(d) = n
            BY <3>1, <3>2
      <3>8. QED
            <4> HIDE DEF old, n
            <4> QED BY <3>3, <3>6, <3>7
    <2>7. \A i \in 1..Len(c) : i # k => \E j \in 1..n : old(j) = i
      <3>1. TAKE i \in 1..Len(c)
      <3>2. HAVE i # k
      <3>3. CASE i < k
            BY <1>2, <3>3
      <3>4. CASE i > k
            BY <1>2, <3>4
      <3>5. QED
            BY <1>2, <3>2, <3>3, <3>4
    <2>8. /\ \A j \in 1..n : old(j) # k
          /\ \A i, j \in 1..n : old(i) = old(j) => i = j
          BY <1>2
    <2>9. \A i, j \in 1..Len(c) :
            c[i].m_MailboxName = c[j].m_MailboxName => i = j
          BY DEF WellFormed, Unique
    <2>10. WellFormed(d)
           <3> HIDE DEF d, old, n
           <3> QED BY <2>6, <2>8, <2>9 DEF WellFormed, Unique
    <2>11. {d[j].m_MailboxName : j \in 1..Len(d)}
             = {c[i].m_MailboxName : i \in 1..Len(c)} \ {name}
      <3> HIDE DEF d, old, n
      <3>1. \A j \in 1..Len(d) :
              /\ d[j].m_MailboxName # name
              /\ \E i \in 1..Len(c) : d[j].m_MailboxName = c[i].m_MailboxName
            BY <2>1, <2>6, <2>8, <2>9
      <3>2. \A i \in 1..Len(c) :
              c[i].m_MailboxName # name =>
                \E j \in 1..Len(d) : d[j].m_MailboxName = c[i].m_MailboxName
            BY <2>1, <2>6, <2>7
      <3>3. QED
            BY <3>1, <3>2
    <2>12. ToSet(Names(d)) = ToSet(Names(c)) \ {name}
           <3> HIDE DEF d
           <3> QED BY <2>10, <2>11, NamesFacts
    <2>13. \A j \in 1..Len(d) : \E i \in 1..Len(c) : d[j] = c[i]
           <3> HIDE DEF d, old, n
           <3> QED BY <2>6
    <2>14. QED
           BY <2>2, <2>10, <2>12, <2>13
  <1>5. QED
        BY <1>3, <1>4

\* The snapshot that is not taken yet.
LEMMA EmptyFacts == WellFormed(<<>>)
  <1>1. <<>> \in Seq(Entries({Blank})) /\ Len(<<>>) = 0
        OBVIOUS
  <1>2. QED
        BY <1>1 DEF WellFormed, Unique

-----------------------------------------------------------------------------
(* What holds of the lists in every state.                                 *)

\* The two lists have one password for a mailbox that both have.
Agree(a, b) ==
  \A i \in 1..Len(a), j \in 1..Len(b) :
    a[i].m_MailboxName = b[j].m_MailboxName => a[i].m_Password = b[j].m_Password

\* Each list has one entry for a mailbox, also the lists that can become the
\* configuration later: the snapshot and the settings.
Lists ==
  /\ WellFormed(m_MailboxConfig)
  /\ WellFormed(m_OldConfig)
  /\ WellFormed(served)
  /\ settings \in Seq(Mailbox)
  /\ IsInjective(settings)
  /\ fields.name \in Mailbox \cup {NoMailbox}

\* The dialog shows the configuration and can take back what was saved.
Shown ==
  dialog = "open" =>
    /\ list = ToSet(Names(m_MailboxConfig))
    /\ Names(m_OldConfig) = settings

IInv == Lists /\ Shown /\ InUseIsSaved /\ ServedAsConfigured

\* The objects get their passwords with the configuration.
LEMMA AgreeSelf ==
  ASSUME NEW c, WellFormed(c)
  PROVE  Agree(c, c)
  BY DEF Agree, WellFormed, Unique

\* A password that reaches both lists leaves them agreeing.
LEMMA AgreeRestored ==
  ASSUME NEW a, WellFormed(a), NEW b, WellFormed(b), Agree(a, b),
         NEW N, NEW text
  PROVE  /\ Agree(KeyRestored(a, {n \in N : Configured(b, n)}, text),
                  KeyRestored(b, N, text))
         /\ a = b => KeyRestored(a, {n \in N : Configured(b, n)}, text)
                       = KeyRestored(b, N, text)
  <1> DEFINE M == {n \in N : Configured(b, n)}
             d == KeyRestored(a, M, text)
             e == KeyRestored(b, N, text)
  <1>1. /\ Len(d) = Len(a)
        /\ \A i \in 1..Len(a) :
             /\ d[i].m_MailboxName = a[i].m_MailboxName
             /\ a[i].m_MailboxName \in M => d[i].m_Password = text
             /\ a[i].m_MailboxName \notin M => d[i] = a[i]
        <2> HIDE DEF M
        <2> QED BY KeyRestoredFacts
  <1>2. /\ Len(e) = Len(b)
        /\ \A i \in 1..Len(b) :
             /\ e[i].m_MailboxName = b[i].m_MailboxName
             /\ b[i].m_MailboxName \in N => e[i].m_Password = text
             /\ b[i].m_MailboxName \notin N => e[i] = b[i]
        BY KeyRestoredFacts
  <1>3. \A i \in 1..Len(b) :
          b[i].m_MailboxName \in M <=> b[i].m_MailboxName \in N
        BY DEF Configured
  <1>4. Agree(d, e)
        <2> HIDE DEF M, d, e
        <2> QED BY <1>1, <1>2, <1>3 DEF Agree
  <1>5. ASSUME a = b
        PROVE  d = e
        <2> HIDE DEF M
        <2> QED BY <1>3, <1>5 DEF KeyRestored
  <1>6. QED
        BY <1>4, <1>5

\* Only the names of b matter for who is told.
LEMMA ToldFacts ==
  ASSUME NEW b, WellFormed(b), NEW N, NEW text
  PROVE  {n \in N : Configured(KeyRestored(b, N, text), n)}
           = {n \in N : Configured(b, n)}
  <1> DEFINE e == KeyRestored(b, N, text)
  <1>1. /\ Len(e) = Len(b)
        /\ \A i \in 1..Len(b) : e[i].m_MailboxName = b[i].m_MailboxName
        BY KeyRestoredFacts
  <1>2. \A n : Configured(e, n) <=> Configured(b, n)
        <2> HIDE DEF e
        <2> QED BY <1>1 DEF Configured
  <1>3. QED
        BY <1>2, Zenon

\* So does what save() writes.
LEMMA AgreeSaved ==
  ASSUME NEW a, WellFormed(a), NEW c, WellFormed(c), Agree(a, c),
         NEW f, f.name \in Mailbox \cup {NoMailbox}, InputOk(f)
  PROVE  LET d == SavedConfig(c, f)
             told == {n \in {f.name} : Configured(d, n)}
         IN  /\ WellFormed(KeyRestored(a, told, f.password))
             /\ Agree(KeyRestored(a, told, f.password), d)
  <1> DEFINE d == SavedConfig(c, f)
             told == {n \in {f.name} : Configured(d, n)}
             e == KeyRestored(a, told, f.password)
  <1>1. /\ Adds(c, d, f.name)
        /\ \A j \in 1..Len(d) :
             d[j].m_MailboxName = f.name => d[j].m_Password = f.password
        BY SavedConfigFacts
  <1>2. told = {f.name}
        <2> HIDE DEF d
        <2> QED BY <1>1 DEF Adds, Configured
  <1>3. /\ WellFormed(e)
        /\ Len(e) = Len(a)
        /\ \A i \in 1..Len(a) :
             /\ e[i].m_MailboxName = a[i].m_MailboxName
             /\ a[i].m_MailboxName \in told => e[i].m_Password = f.password
             /\ a[i].m_MailboxName \notin told => e[i] = a[i]
        <2> HIDE DEF told
        <2> QED BY KeyRestoredFacts
  <1>4. ASSUME NEW i \in 1..Len(e), NEW j \in 1..Len(d),
               e[i].m_MailboxName = d[j].m_MailboxName
        PROVE  e[i].m_Password = d[j].m_Password
    <2> HIDE DEF d, told, e
    <2>1. CASE d[j].m_MailboxName = f.name
          BY <1>1, <1>2, <1>3, <1>4, <2>1
    <2>2. CASE d[j].m_MailboxName # f.name
      <3>1. PICK k \in 1..Len(c) : d[j] = c[k]
            BY <1>1, <2>2 DEF Adds
      <3>2. e[i] = a[i]
            BY <1>2, <1>3, <1>4, <2>2
      <3>3. QED
            BY <1>3, <1>4, <3>1, <3>2 DEF Agree
    <2>3. QED
          BY <2>1, <2>2
  <1>5. QED
        BY <1>3, <1>4 DEF Agree

-----------------------------------------------------------------------------
(* Every step keeps it.                                                    *)

\* What an earlier run of the program has saved is consistent.
LEMMA InitLists == ServedInit => IInv
  <1>1. SUFFICES ASSUME ServedInit PROVE IInv
        OBVIOUS
  <1>2. /\ settings \in Seq(Mailbox) /\ IsInjective(settings)
        /\ m_MailboxConfig = Loaded(settings)
        /\ m_OldConfig = <<>> /\ served = m_MailboxConfig
        /\ dialog = "closed" /\ fields.name = NoMailbox
        BY <1>1, DialogAssumption DEF ServedInit, Init, EmptyFields
  <1>3. WellFormed(m_MailboxConfig) /\ Names(m_MailboxConfig) = settings
        BY <1>2, LoadedFacts
  <1>4. Agree(served, m_MailboxConfig)
        BY <1>2, <1>3, AgreeSelf
  <1>5. QED
        BY <1>2, <1>3, <1>4, EmptyFacts
        DEF IInv, Lists, Shown, InUseIsSaved, ServedAsConfigured, Agree

\* save(), from the list or with Add.
LEMMA TypedLists ==
  ASSUME IInv, Typed
  PROVE  IInv'
  <1> DEFINE c == SavedConfig(m_MailboxConfig, fields)
             told == {n \in {fields.name} : Configured(c, n)}
  <1>1. /\ dialog = "open" /\ dialog' = "open"
        /\ m_MailboxConfig' = c
        /\ list' = SavedList(list, fields)
        /\ m_OldConfig' = m_OldConfig /\ settings' = settings
        /\ fields'.name \in Mailbox \cup {NoMailbox}
        BY DEF Typed, Select, Add, SelectionChanged, Displayed, EmptyFields
  <1>2. /\ WellFormed(c)
        /\ ~InputOk(fields) => c = m_MailboxConfig
        /\ ToSet(Names(c)) = SavedList(ToSet(Names(m_MailboxConfig)), fields)
        BY SavedConfigFacts DEF IInv, Lists
  <1>3. WellFormed(served') /\ Agree(served', m_MailboxConfig')
    <2>1. CASE InputOk(fields)
      <3>1. served' = KeyRestored(served, told, fields.password)
            BY <1>1, <2>1 DEF Typed, UpdatePassword
      <3>2. /\ WellFormed(KeyRestored(served, told, fields.password))
            /\ Agree(KeyRestored(served, told, fields.password), c)
        <4>1. Agree(served, m_MailboxConfig)
              BY DEF IInv, ServedAsConfigured, Agree
        <4>2. QED
              BY <2>1, <4>1, AgreeSaved DEF IInv, Lists
      <3>3. QED
            BY <1>1, <3>1, <3>2
    <2>2. CASE ~InputOk(fields)
      <3>1. served' = served /\ m_MailboxConfig' = m_MailboxConfig
            BY <1>1, <1>2, <2>2 DEF Typed
      <3>2. QED
            BY <3>1 DEF IInv, Lists, ServedAsConfigured, Agree
    <2>3. QED
          BY <2>1, <2>2
  <1>4. QED
        <2> HIDE DEF c, told
        <2> QED BY <1>1, <1>2, <1>3
            DEF IInv, Lists, Shown, InUseIsSaved, ServedAsConfigured, Agree

\* The cleared fields are not saved, and so nothing comes back.
LEMMA DeleteLists ==
  ASSUME IInv, Delete, UNCHANGED served
  PROVE  IInv'
  <1> DEFINE c == DeleteConfig(m_MailboxConfig, fields.name)
  <1>1. ~InputOk(EmptyFields)
        BY DEF InputOk, EmptyFields
  <1>2. /\ dialog = "open" /\ dialog' = "open"
        /\ m_MailboxConfig' = c
        /\ list' = list \ {fields.name}
        /\ m_OldConfig' = m_OldConfig /\ settings' = settings
        /\ fields'.name \in Mailbox \cup {NoMailbox}
    <2>1. SavedConfig(c, EmptyFields) = c
          BY <1>1 DEF SavedConfig
    <2>2. SavedList(list \ {fields.name}, EmptyFields) = list \ {fields.name}
          BY <1>1 DEF SavedList
    <2>3. dialog = "open" /\ UNCHANGED <<m_OldConfig, settings, dialog>>
          BY DEF Delete, DeletedWith
    <2>4. m_MailboxConfig' = c /\ list' = list \ {fields.name}
          BY <2>1, <2>2 DEF Delete, DeletedWith, SelectionChanged
    <2>5. list \subseteq Mailbox
          BY <2>3, NamesFacts DEF IInv, Lists, Shown
    <2>6. fields'.name \in Mailbox \cup {NoMailbox}
      <3>1. \/ \E n \in list \ {fields.name} :
                 fields' = Displayed(SavedConfig(c, EmptyFields), n)
            \/ fields' = EmptyFields
            BY DEF Delete, DeletedWith, SelectionChanged
      <3>2. QED
            BY <2>5, <3>1 DEF Displayed, EmptyFields
    <2>7. QED
          BY <2>3, <2>4, <2>6
  <1>3. /\ WellFormed(c)
        /\ \A j \in 1..Len(c) :
             \E i \in 1..Len(m_MailboxConfig) : c[j] = m_MailboxConfig[i]
        /\ ToSet(Names(c)) = ToSet(Names(m_MailboxConfig)) \ {fields.name}
        BY DeleteConfigFacts DEF IInv, Lists
  <1>4. Agree(served', m_MailboxConfig')
        <2> HIDE DEF c
        <2> QED BY <1>2, <1>3 DEF IInv, ServedAsConfigured, Agree
  <1>5. QED
        <2> HIDE DEF c
        <2> QED BY <1>2, <1>3, <1>4
            DEF IInv, Lists, Shown, InUseIsSaved, ServedAsConfigured, Agree

\* The dialog opens, fails to open, and is filled in.
LEMMA ViewedLists ==
  ASSUME IInv, Viewed
  PROVE  IInv'
  <1>1. served' = served
        BY DEF Viewed
  <1>2. CASE Open
    <2>1. /\ dialog = "closed" /\ dialog' = "open"
          /\ list' = ToSet(Names(m_MailboxConfig))
          /\ m_OldConfig' = m_MailboxConfig
          /\ m_MailboxConfig' = m_MailboxConfig /\ settings' = settings
          /\ fields'.name \in list'
          BY <1>2 DEF Open, Shows, Displayed
    <2>2. ToSet(Names(m_MailboxConfig)) \subseteq Mailbox
          BY NamesFacts DEF IInv, Lists
    <2>3. QED
          BY <1>1, <2>1, <2>2
          DEF IInv, Lists, Shown, InUseIsSaved, ServedAsConfigured
  <1>3. CASE OpenEmpty
    <2>1. /\ dialog = "closed" /\ dialog' = "open"
          /\ list' = {}
          /\ m_OldConfig' = m_MailboxConfig
          /\ m_MailboxConfig' = m_MailboxConfig /\ settings' = settings
          /\ fields'.name = NoMailbox
          BY <1>3 DEF OpenEmpty, EmptyFields
    <2>2. ToSet(Names(m_MailboxConfig)) = {}
      <3>1. m_MailboxConfig = <<>>
            BY <1>3 DEF OpenEmpty
      <3>2. ToSet(Names(m_MailboxConfig))
              = {m_MailboxConfig[i].m_MailboxName :
                   i \in 1..Len(m_MailboxConfig)}
            BY NamesFacts DEF IInv, Lists
      <3>3. QED
            BY <3>1, <3>2
    <2>3. QED
          BY <1>1, <2>1, <2>2
          DEF IInv, Lists, Shown, InUseIsSaved, ServedAsConfigured
  <1>4. CASE OpenCrashes
    <2>1. /\ dialog = "closed" /\ dialog' = "crashed"
          /\ UNCHANGED <<m_MailboxConfig, m_OldConfig, settings, fields>>
          BY <1>4 DEF OpenCrashes, configVars
    <2>2. QED
          BY <1>1, <2>1 DEF IInv, Lists, Shown, InUseIsSaved, ServedAsConfigured
  <1>5. CASE Delete
        BY <1>1, <1>5, DeleteLists
  <1>6. ASSUME NEW n \in Mailbox \cup {NoMailbox}, NEW p \in Text, Fill(n, p)
        PROVE  IInv'
    <2>1. /\ UNCHANGED <<m_MailboxConfig, m_OldConfig, settings, dialog, list>>
          /\ fields'.name \in Mailbox \cup {NoMailbox}
          BY <1>6 DEF Fill, configVars
    <2>2. QED
          BY <1>1, <2>1 DEF IInv, Lists, Shown, InUseIsSaved, ServedAsConfigured
  <1>7. QED
        BY <1>2, <1>3, <1>4, <1>5, <1>6 DEF Viewed

\* OK makes the settings the names of the configuration; Cancel takes the
\* snapshot, whose names are those of the settings.
LEMMA ClosedLists ==
  ASSUME IInv, Closed
  PROVE  IInv'
  <1>1. /\ served' = m_MailboxConfig' /\ dialog' = "closed"
        /\ fields'.name = NoMailbox
        /\ m_OldConfig' = m_OldConfig
        BY DEF Closed, LoadConfig, Accept, Cancel, EmptyFields
  <1>2. /\ WellFormed(m_MailboxConfig')
        /\ settings' \in Seq(Mailbox) /\ IsInjective(settings')
        /\ Names(m_MailboxConfig') = settings'
    <2>1. CASE Accept
      <3>1. /\ m_MailboxConfig' = SavedConfig(m_MailboxConfig, fields)
            /\ settings' = Names(m_MailboxConfig')
            BY <2>1 DEF Accept
      <3>2. WellFormed(m_MailboxConfig')
            BY <3>1, SavedConfigFacts DEF IInv, Lists
      <3>3. QED
            BY <3>1, <3>2, NamesFacts
    <2>2. CASE Cancel
          BY <2>2 DEF Cancel, IInv, Lists, Shown
    <2>3. QED
          BY <2>1, <2>2 DEF Closed
  <1>3. Agree(m_MailboxConfig', m_MailboxConfig')
        BY <1>2, AgreeSelf
  <1>4. QED
        BY <1>1, <1>2, <1>3
        DEF IInv, Lists, Shown, InUseIsSaved, ServedAsConfigured, Agree

\* The configuration and the server objects learn a password together, and no
\* list gets another name.
LEMMA AnswersLists ==
  ASSUME IInv, Answers
  PROVE  IInv'
  <1>1. UNCHANGED <<m_OldConfig, settings, dialog, list, fields>>
        BY DEF Answers, JobFinished, dialogVars
  <1>2. CASE Restored
    <2> DEFINE c == KeyRestored(m_MailboxConfig, readers, running.data)
               told == {n \in readers : Configured(m_MailboxConfig, n)}
               s == KeyRestored(served, told, running.data)
    <2>1. m_MailboxConfig' = c
          BY <1>2 DEF Answers, JobFinished
    <2>2. served' = s
      <3>1. {n \in readers : Configured(c, n)} = told
            BY ToldFacts DEF IInv, Lists
      <3>2. served' = KeyRestored(served, {n \in readers : Configured(c, n)},
                                  running.data)
            BY <1>2, <2>1 DEF Answers, UpdatePassword
      <3>3. QED
            BY <3>1, <3>2
    <2>3. /\ WellFormed(c) /\ Names(c) = Names(m_MailboxConfig)
          BY KeyRestoredFacts DEF IInv, Lists
    <2>4. WellFormed(s)
          <3> HIDE DEF told
          <3> QED BY KeyRestoredFacts DEF IInv, Lists
    <2>5. Agree(s, c) /\ (served = m_MailboxConfig => s = c)
      <3>1. Agree(served, m_MailboxConfig)
            BY DEF IInv, ServedAsConfigured, Agree
      <3>2. QED
            BY <3>1, AgreeRestored DEF IInv, Lists
    <2>6. QED
          <3> HIDE DEF c, told, s
          <3> QED BY <1>1, <2>1, <2>2, <2>3, <2>4, <2>5
              DEF IInv, Lists, Shown, InUseIsSaved, ServedAsConfigured, Agree
  <1>3. CASE ~Restored
    <2>1. UNCHANGED <<m_MailboxConfig, served>>
          BY <1>3 DEF Answers, JobFinished
    <2>2. QED
          BY <1>1, <2>1 DEF IInv, Lists, Shown, InUseIsSaved, ServedAsConfigured
  <1>4. QED
        BY <1>2, <1>3

\* A new process has the names that were saved and no passwords.
LEMMA RestartedLists ==
  ASSUME IInv, Restarted
  PROVE  IInv'
  <1>1. /\ m_MailboxConfig' = Loaded(settings)
        /\ served' = m_MailboxConfig' /\ m_OldConfig' = <<>>
        /\ settings' = settings /\ dialog' = "closed"
        /\ fields'.name = NoMailbox
        BY DEF Restarted, Restart, Constructed, LoadConfig, EmptyFields
  <1>2. WellFormed(m_MailboxConfig') /\ Names(m_MailboxConfig') = settings'
        BY <1>1, LoadedFacts DEF IInv, Lists
  <1>3. Agree(m_MailboxConfig', m_MailboxConfig')
        BY <1>2, AgreeSelf
  <1>4. QED
        BY <1>1, <1>2, <1>3, EmptyFacts
        DEF IInv, Lists, Shown, InUseIsSaved, ServedAsConfigured, Agree

\* In every state, with every keychain, the lists are consistent.
THEOREM ListsConsistent == ServedSpec => []IInv
  <1>1. IInv /\ [ServedNext]_servedVars => IInv'
    <2>1. SUFFICES ASSUME IInv, [ServedNext]_servedVars PROVE IInv'
          OBVIOUS
    <2>2. CASE Executes \/ UNCHANGED servedVars
      <3>1. UNCHANGED <<configVars, dialogVars, served>>
            BY <2>2 DEF Executes, servedVars, vars
      <3>2. QED
            BY <2>1, <3>1 DEF configVars, dialogVars, IInv, Lists, Shown,
               InUseIsSaved, ServedAsConfigured
    <2>3. QED
          BY <2>1, <2>2, TypedLists, ViewedLists, ClosedLists, AnswersLists,
             RestartedLists DEF ServedNext
  <1>2. QED
        BY <1>1, InitLists, PTL DEF ServedSpec

\* The list of the dialog shows each configured mailbox, each once, whatever was
\* added, deleted and selected.
THEOREM DialogListShowsConfig == ServedSpec => []ListShowsConfig
  <1>1. IInv => ListShowsConfig
        BY NamesFacts DEF IInv, Lists, Shown, ListShowsConfig
  <1>2. QED
        BY <1>1, ListsConsistent, PTL

\* OK saves all that was added and deleted and Cancel undoes all of it.
THEOREM ClosedIsSaved == ServedSpec => []InUseIsSaved
  <1>1. IInv => InUseIsSaved
        BY DEF IInv
  <1>2. QED
        BY <1>1, ListsConsistent, PTL

\* A server object has the configured password of its mailbox.
THEOREM ObjectsHavePasswords == ServedSpec => []ServedAsConfigured
  <1>1. IInv => ServedAsConfigured
        BY DEF IInv
  <1>2. QED
        BY <1>1, ListsConsistent, PTL
=============================================================================
