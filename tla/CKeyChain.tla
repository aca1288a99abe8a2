------------------------------ MODULE CKeyChain ------------------------------
(***************************************************************************)
(* CKeyChain: the passwords in the user's keychain, through QtKeychain.    *)
(*                                                                         *)
(* CKeyChain has one job object for reading, one for writing and one for   *)
(* deleting.  A request sets the job's key (and text), connects one more   *)
(* function to its signal finished, and starts it.  QtKeychain queues what *)
(* was started and executes one at a time; the key and the text are those  *)
(* the job has when its turn comes, which can be at once, inside start().  *)
(* finished comes later and calls every function that was ever connected.  *)
(***************************************************************************)
EXTENDS Integers, SequencesExt

CONSTANTS
  Mailbox,    \* the names of the mailboxes; a key is the name of a mailbox
  NoMailbox,  \* the empty name
  Version,    \* a user's passwords for one mailbox, as they change
  MaxJobs,    \* bound: jobs that wait for their turn
  Denies      \* whether the keychain can refuse a request

ASSUME KeyChainAssumption ==
  /\ NoMailbox \notin Mailbox
  /\ MaxJobs \in Nat
  /\ Denies \in BOOLEAN

\* A password, and the mailbox for which the user has chosen it.
Secret == [of : Mailbox, version : Version]

\* The empty text, and what is not in the keychain.
Blank == [of |-> NoMailbox, version |-> "blank"]
Absent == [of |-> NoMailbox, version |-> "absent"]
Text == Secret \cup {Blank}

VARIABLES
  store,    \* [Mailbox]: what the keychain holds (not part of the process)
  jobKey,   \* the key set in each of the three jobs
  jobText,  \* the text set in the writing job
  readers,  \* the keys of the functions connected to the reading job
  queue,    \* the jobs that were started, in this order
  running   \* the job that is being executed, with its outcome

keyChainVars == <<store, jobKey, jobText, readers, queue, running>>

Kinds == {"read", "write", "delete"}

NoJob == [kind |-> "none", ok |-> FALSE, data |-> Blank]

KeyChainTypeOK ==
  /\ store \in [Mailbox -> Text \cup {Absent}]
  /\ jobKey \in [Kinds -> Mailbox \cup {NoMailbox}]
  /\ jobText \in Text
  /\ readers \subseteq Mailbox
  /\ queue \in Seq(Kinds)
  /\ running \in [kind : Kinds \cup {"none"}, ok : BOOLEAN, data : Text]

-----------------------------------------------------------------------------
(* Jobs.                                                                   *)

\* How a job can turn out for a mailbox that has this entry in the keychain.
Outcomes(kind, entry) ==
  {o \in [kind : {kind}, ok : BOOLEAN, data : Text] :
     IF o.ok
     THEN /\ kind = "write" \/ entry # Absent
          /\ o.data = IF kind = "read" THEN entry ELSE Blank
     ELSE /\ Denies \/ (kind # "write" /\ entry = Absent)
          /\ o.data = Blank}

\* The outcome is decided, and the keychain changed, when a job's turn comes;
\* its finished is still to come.
Executed(kind, key, text) ==
  /\ running' \in Outcomes(kind, store[key])
  /\ store' = CASE kind = "write" /\ running'.ok -> [store EXCEPT ![key] = text]
               [] kind = "delete" /\ running'.ok -> [store EXCEPT ![key] = Absent]
               [] OTHER -> store

\* The executor has nothing to do.
Idle == queue = <<>> /\ running = NoJob

-----------------------------------------------------------------------------
(* Requests.  A handler can make several before it returns.                *)

\* The requests that a new process makes: readKey for each name.
FirstKeys(names) ==
  [kind \in Kinds |->
     IF kind = "read" /\ names # <<>> THEN Last(names) ELSE NoMailbox]

Reads(names) == [i \in 1..Len(names) |-> "read"]

\* Either they all wait when the constructor is left, or the first one's turn
\* came at once.
FirstJobs(names) ==
  {[queue |-> Reads(names), running |-> NoJob]} \cup
  (IF names = <<>> THEN {}
   ELSE {[queue |-> Reads(Tail(names)), running |-> o] :
           o \in Outcomes("read", store[Head(names)])})

WriteKey(key, value) == [kind |-> "write", key |-> key, text |-> value]
DeleteKey(key) == [kind |-> "delete", key |-> key, text |-> Blank]

\* Whether a kind of job is among the requests, and the last one of it.
Asks(requests, kind) == \E i \in 1..Len(requests) : requests[i].kind = kind

LastOf(requests, kind) ==
  requests[CHOOSE i \in 1..Len(requests) :
             /\ requests[i].kind = kind
             /\ \A j \in i+1..Len(requests) : requests[j].kind # kind]

JobsOf(requests) == [i \in 1..Len(requests) |-> requests[i].kind]

\* The requests leave the last keys and text in the jobs.  They wait for their
\* turn, but the first one's can come at once, with its own key and text.
Requested(requests) ==
  /\ jobKey' = [kind \in Kinds |->
                  IF Asks(requests, kind) THEN LastOf(requests, kind).key
                  ELSE jobKey[kind]]
  /\ jobText' = IF Asks(requests, "write") THEN LastOf(requests, "write").text
                ELSE jobText
  /\ \/ /\ queue' = queue \o JobsOf(requests)
        /\ UNCHANGED <<store, running>>
     \/ /\ Idle /\ requests # <<>>
        /\ queue' = Tail(JobsOf(requests))
        /\ Executed(requests[1].kind, requests[1].key, requests[1].text)
  /\ Len(queue') <= MaxJobs
  /\ UNCHANGED readers

-----------------------------------------------------------------------------
(* The executor of QtKeychain.                                             *)

\* The next job's turn comes.
JobExecuted ==
  /\ running = NoJob
  /\ queue # <<>>
  /\ queue' = Tail(queue)
  /\ Executed(Head(queue), jobKey[Head(queue)], jobText)
  /\ UNCHANGED <<jobKey, jobText, readers>>

\* finished is emitted, and keyRestored for every reader if it brings a text;
\* what the other signals tell is only logged.
Finished ==
  /\ running # NoJob
  /\ running' = NoJob
  /\ UNCHANGED <<store, jobKey, jobText, readers, queue>>

Restored == running.kind = "read" /\ running.ok
=============================================================================
