# TrayBiff in TLA+

TrayBiff sits in the system tray and tells of new mail: it polls any number of
POP3 and IMAP mailboxes and shows an icon. This directory holds a formal model
of the program, what TLC checks about it on small instances, and what TLAPS
proves about it for all instances. Paths such as `src/src/CMailApp.cpp` are
relative to the directory above this one.

## The system

| Part | State it keeps | Operations | Interacts with |
|---|---|---|---|
| `CMailApp` (GUI thread) | the monitor, the tray | `loadConfig`, `updateResult`, `mailError`, `reloadConfig`, `aboutToQuit`, `saveStateRequest` | calls `CMailMonitor` and `CConfig`; slots for the monitor's signals |
| `CMailMonitor` (a QThread) | `m_Running`, `m_Polltime`, `m_Data` | `addServer`, `run`, `halt`, `updatePassword`, `handleResultReady`, `handleMailError` | its `run` is a thread of its own; its slots run in the GUI thread; both use `m_Data` without a lock |
| server objects: `IMailProtocol`, `CMailSocket`, `CImap`, `CPop3` | `m_Socket`, `m_ConfigurationIdx`, `m_Password`, what the last connection told | `doWork`, `end`, `updatePassword` | one worker thread each; `doWork` is posted by the monitor, results and errors are posted to the GUI thread |
| `CConfig` | the configuration, a snapshot of it, the icons | `addConfig`, `deleteConfig`, `getConfig`, `beginUpdate`, `abortUpdate`, `save`, `keyRestored` | QSettings, `CKeyChain` |
| `CKeyChain` | one read, one write and one delete job of QtKeychain | `readKey`, `writeKey`, `deleteKey` | answers come later, as signals to `CConfig` |
| `CSetupDialog` | the list, the fields, the buttons | add, delete, select, edit, OK, Cancel | `CConfig` |
| `CTrayMenu`, `main` | the icon | `show`, `setup`, `quit` | leaving the dialog calls `reloadConfig` |
| `CCrypt` | none | HMAC-MD5 and MD5 | used by `CPop3` |

What is hard about it, and what makes each part correct:

- **Three kinds of threads, two kinds of waits.** The GUI thread waits for the
  monitor thread, which waits for the worker threads; every wait has a time
  limit and no result of a wait is looked at. Correct is: an object is deleted
  only when nobody works on it, a new set of objects is created only when the
  old one is gone, and waits end because they are answered.
- **Queued signals outlive their senders.** A result carries an index, an error
  a pointer; both can be delivered after a reload. Correct is: a result changes
  the entry of its own mailbox.
- **One tray icon, set on change only.** Correct is: it agrees with the numbers,
  and it does so again after an error.
- **One keychain job for all mailboxes, a dialog over a snapshot.** Correct is:
  each mailbox gets the password stored for it, and Cancel changes nothing.
- **Line protocols over a socket that is used again.** Correct is: an answer is
  read for the command it answers, and the numbers are those of the mailbox.

`PROJECT.json` lists the hazards one by one, with their lines.

## The modules

```
IMailProtocol <- CMailMonitor <- CMailApp <- MCCMailApp           (TLC)
   ^                                |    <- CMailApp_proofs       (TLAPS)
   |                                |         <- CMailApp_refinement
   |                                |              <- CMailApp_soundness
   |                                +-- INSTANCE Generations
   | INSTANCE (refined by)
   +------------------- CImap <- MCCImap                          (TLC)
   |                          <- CImap_proofs                     (TLAPS)
   +------------------- CPop3 <- MCCPop3                          (TLC)
                              <- CPop3_proofs                     (TLAPS)
CMailSocket <- CImap, CPop3      CCrypt <- CPop3
CMailSocket_proofs <- CImap_proofs, CPop3_proofs                  (TLAPS)

CKeyChain <- CConfig <- CSetupDialog <- MCCSetupDialog            (TLC)
                                     <- CPasswords <- MCCPasswords
                                          ^
                                          +-- CPasswords_proofs   (TLAPS)
                                               <- CPasswords_keys
```

The three groups meet at two places. `CImap` and `CPop3` refine the worker that
`CMailApp` is built on: what `IMailProtocol` says a `doWork` call can do, they are
shown to do and no more. `CPasswords` carries the passwords from `CConfig` to the
server objects; otherwise the dialog works on `CConfig` alone, and `CMailApp` begins
with any configuration after each dialog.

**`IMailProtocol`** - the server objects and their worker threads. An object
lives at an *address*, and addresses are used again, so that the model has
dangling pointers and late signals as the program has. Per address:
`polls` (which mailbox), `m_ConfigurationIdx` (from 1, in the code from 0),
`m_Socket` (`null` until the first `doWork`), `thread`, `work` (how far `doWork`
has got) and `pending` (calls in the thread's queue). `events` is the queue of
the GUI thread. The dialogue with the server is reduced to its outcomes: errors
at any time, at most one result, and a socket left closed
(`WorkerEnd`) or connected (`WorkerAbandon`: `CPop3::doWork` when the greeting is
not `+OK`, and both classes when the TLS handshake times out), or the end of the
whole process (`WorkerDies`: where the code reads beyond the words of an answer).
A result carries what the poll found out, `found`, which can change at any time;
whether these are the true numbers of the mailbox is a question for `CImap` and
`CPop3`, which know what the server said.

**`CMailMonitor`** - one action per step of `run` between two points at which
another thread can interfere: the store to `m_Running`, its test, the emit, the
sleep, the round of `quit()`, each turn of the deleting loop, the `clear()`.
A turn has several outcomes: the thread has finished and the socket is closed
(`RunReap`); the socket is connected and the destructor's `end()` holds a
dialogue (`RunReapConnected`, `RunLogoutFails`, `RunLogout`), which can tell two
errors, that of a read and that of the response; `m_Socket` is null (`RunReapNull`);
`wait(1000)` has expired (`RunReapExpired`). The last test of the loop (`RunReaped`)
and the `clear()` (`RunEnd`) are two steps, because `addServer` can append between
them if the GUI thread did not wait to the end. `fault` says how the process died;
nothing happens after that.

**`CMailApp`** - the GUI thread: `loadConfig` entry by entry (`LoadServer`,
`LoadDone`), the slots (`HandleResultReady`, `HandleMailError`), `reloadConfig`
and `aboutToQuit` split at their waits (`Reload`/`ReloadWaited`,
`Quit`/`QuitWaited`), and the whole program as `Next`. A slot that reads freed
memory or beyond the list can go well or end the process: both outcomes are
there (`HandleResultReadyFails`, `HandleMailErrorFails`).

**`Generations`** - the abstract specification: server objects are assembled,
work, and are dismissed; the next generation begins when the last one is gone.

**`CKeyChain`** - the three jobs of QtKeychain that all mailboxes share. A request
sets a job's key and text and puts the job into QtKeychain's queue
(`Requested`, for all the requests of a handler); the executor takes one at a
time and uses what the job holds *then* (`JobExecuted`). If the executor has nothing
to do, it can take the first request of a handler, or of the constructor
(`FirstJobs`), inside `start()` already, with that request's own key and text: it
depends on the backend when the key is read, so both are possible. `finished` comes
later and calls every function ever connected (`readers`). QtKeychain and the keychain are external,
modelled from how `CKeyChain.cpp` uses them: `start` returns at once, a job that
is started twice is executed twice.

**`CConfig`** - the configuration as a sequence of names with passwords, the
snapshot, the settings file. Passwords are values that know for which mailbox
they were chosen, so that a mix-up can be seen.

**`CSetupDialog`** - one action per handler: the constructor (`Open`, `OpenEmpty`,
`OpenCrashes`), input (`Fill`), selection, Add, Delete, OK and Cancel. A deletion
includes the change of the selection that Qt makes when the current item goes,
and the `save()` in it. The list is a set, so that the order that
`sortItems` gives is any order. `Restart` ends the process at any point, loses
the queue, and runs the constructor of `CConfig` again.

**`CPasswords`** - the dialog, the keychain and the passwords of the server objects
(`served`). What a handler of the dialog or an answer of the keychain does to the
configuration is `CSetupDialog`'s action; beside it stands what
`CConfig::updatePassword` and `CMailMonitor::updatePassword` do to the object of that
name, and the reload after the dialog, which makes new objects.

**`CMailSocket`** - what the two protocols share. A line is a sequence of tokens
(`split(' ')`); `wire` holds the lines the server has sent and the client has not
read. When they arrive is free at every wait, so the wire and the socket's buffer
are one, and every read can time out (`NoLine`). `ReadLine` can also
return a part of a line, as `readLine()` does when the end has not arrived; the `chop(2)`
then takes characters of the text (`Pieces`), and the next call reads the
rest. Then there is the frame of a `doWork` call: the queue of calls, `place` (what
`doWork` does next), `errs` (calls of `setError` still to be made), the signals. `peer` is
the server's side of the connection, which can close at any time.

**`CImap`, `CPop3`** - `doWork` from the connection to the result, one action per part
of the dialogue: `StartProtocol`, `StartTLS`, `Login`, `Select`, `Search`, ... and `Capa`,
`StartTLS`, `CramMd5`, `Apop`, `UserPass`, `GetMail`, `End`. What a read that fails leads to is a
table (`OnFailure`). The server is external: it grants, refuses or ignores each
command it can understand, closes the connection on what it cannot, and
is configured anew between (`OfferChanges`, `FeaturesChange`). Mails come and go at
any time. `ReadsBeyond` is the end of the process where a list is
shorter than the code takes it to be.

**`CCrypt`** - `hmac_md5` and `cram_md5` over symbolic bytes, beside the definitions of
RFC 2104 and RFC 2195. MD5 and the exclusive or are terms, so that two results are
equal only if they are computed alike.

What is taken of Qt, from how the code uses it: `connectToHost` does nothing on a
socket that is connected; `waitForEncrypted` returns false if the connection is
encrypted already; a handshake that takes longer than TIMEOUT leaves the TCP
connection open; a socket whose peer has closed it turns unconnected in the event
loop or in a wait.

`Delays` names what the environment can be slow at: `"start"` (a thread that was
started has not begun to run when the user acts), `"worker"` (`doWork` outlasts
`wait(1000)`), `"logout"` (the LOGOUT in a destructor, up to 10 s of reading and
a `sleep(1)` after the error, outlasts the wait for the monitor), `"sum"` (the waits
for several workers add up to more than the wait for the monitor). A limit
expires only where `Delays` says so, or when what is waited for will never come.

That a thread which was started runs before the next halt is an assumption, named
`Settled`. For most halts a user has to act first. It is not guaranteed by the code
when the program is quit with the dialog open: when the dialog returns,
`reloadConfig` starts the threads and `aboutToQuit` halts them at once
(`src/src/systemtray/CTrayMenu.cpp:64-75`). Where `"start"` is in `Delays`, in the run `delays`
and in the theorems about all delays, nothing of the kind is assumed.

## The runs

| Run | Instance | What it shows |
|---|---|---|
| `delays` | 1 mailbox, 2 addresses, all delays | `TypeOK`; `WorkersHaveServers`: nothing is deleted under a running `doWork`; `TrayAgrees`: an icon about mail agrees with `m_Data` |
| `prompt` | 2 mailboxes, 2 addresses, no delays | `SoundUntilReload`: until the first reload each queued result is for its own entry and nothing can end the process but `doWork` itself, where it reads beyond an answer; afterwards late signals can, too, but still no deletion of a running thread and no socket that was never created; `ImplementsGenerations`: the refinement of `Generations` (the theorem has it for slow workers, too) |
| `live` | 2 mailboxes polled in turn at 1 address, fair | `WaitsEnd`: halting works from every place the monitor can be at; `PolledAgain`: no object is forgotten; `Converges`: `m_Data` comes to hold what the polls find out, each mailbox's in its own entry, whatever late signals have stored there |
| `imap` | 1 mailbox of 1 or 2 mails, none to two of them new, fair | `UnreadIffUnseen`: a result says "new mail" if and only if there was some; `ClosedWhenIdle`: every path closes the connection; `ImplementsWorker`: the refinement of `IMailProtocol`'s worker; `PollsEnd`: every call returns; `Recovers`: polls succeed again when the trouble is over |
| `pop3` | 1 mailbox, three sets of features, fair | `ResultIsStat`: the number is the answer to this call's STAT; `NoSessionLeft`: the mailbox is not left locked; `ResponseIsHmac`; `ImplementsWorker`, `PollsEnd` as above; `Recovers`, with whatever capabilities an earlier connection has left in the object |
| `names` | 2 mailboxes, every list to start with, restarts at any time | `ListShowsConfig`, `InUseIsSaved`, `DeletedIsGone`: the list, the configuration, the snapshot and the settings agree through all input; `ServedAsConfigured`: so do the server objects |
| `lost_monitor` | 1 mailbox, slow logout | violated: `MonitorRunning` |
| `error_icon` | 1 mailbox, fair | violated: `Notifies` |
| `own_keys` | 2 mailboxes, the second not answered | violated: `NoBlankKeys` |
| `own_password` | 2 mailboxes | violated: `OwnPassword` |
| `stored` | 2 mailboxes, none at first | violated: `Stored` |
| `imap_unread` | 1 mailbox whose second mail is new | violated: `UnreadIsUnseen` |

**Bounds.** `MaxQueue` (calls queued to a worker) and `MaxEvents` (signals queued
to the GUI thread) are unbounded in the program; a full queue delays the sender
in the model. One place in each is enough for every order of a late signal and a
reload, because the properties look at one signal at a time; `live` has two
places so that a late result can lie before a right one. `MaxMailboxes` bounds a
configuration. Two addresses give every case of use after free with and without
the address being used again: with one configured mailbox the second object can
take either. Two mailboxes are needed for a result to go to a wrong entry. The
numbers of a mailbox are two values each, one of them with new mail; where
numbers do not matter there is one.

For the dialog, `MaxJobs` bounds the keychain's queue; a full one delays the
handler. In `names` two jobs can wait. OK over two mailboxes asks for three: it happens
when the executor is idle and takes the first at once, and while an answer is still to
come when the fields are empty. Two mailboxes are enough for a list and a current item
beside the one deleted. Passwords that change and a keychain that refuses make too
many states beside the restarts; they are left to the theorems, which have them for
every property of `names`. `own_keys`, where two reads are waiting and OK asks for
three writes, needs five jobs.

For the dialogues, `MaxQueue` counts the calls queued and under way; one is enough,
because the monitor can call again as soon as the last call has returned, and what
one call leaves to the next is in the object, not in the queue. `MaxSeq` = 2 gives three
sequence numbers instead of 1000: whatever is on the wire answers one of the
last three commands (TLC finds no older answer with six numbers either), so that a
number that is used again meets no old answer. One line of a connection is cut (`cut`); a
second one would be read by the same code. `Garbage` is one number no answer has. A mailbox
of `imap` has no new mail, one behind an old one, or two, whose numbers the server tells
in any order (`SearchLine`): RFC 3501 promises none.
`pop3` has no cut lines: with them the server and the client are at
more places than can be visited in time, and the only number read is covered in `imap`.
A block of 4 bytes and a digest of 2 keep what matters of 64 and 16: passwords
shorter than a digest, between the two, of a block and longer.

**Symmetry** of addresses and mailboxes is used for invariants and action
properties only.

**Deadlock** is checked in every run of `CMailApp`; the end of the process is a
step of its own (`Terminated`). It is not checked in the runs of `CSetupDialog`,
where a process that has crashed (`OpenCrashes`) and is not started again stops.

**Fairness** (`FairSpec`): a worker thread that can go on does (every wait in
`doWork` has a time limit, so that it returns); so does the monitor thread; and
the GUI thread goes on loading, handling signals, and returning from its waits.
This is what the scheduler and the event loops give. No fairness is assumed of
the user, of the mail, or of failures. `Converges` and `Notifies` say
themselves what must have stopped: `Calm`.

For the dialogues (`FairSpec` of `CImap` and `CPop3`): the worker thread goes on; the
monitor calls and the GUI thread takes its signals; and the event loop of the worker thread,
which serves the socket between two calls as well as the calls, learns at last
that the peer has closed (strong fairness, because calls come in between). In `CPop3`
the server does not keep a silent connection for ever (RFC 1939's autologout):
without this a client that returned without `QUIT` waits for a greeting on the old
connection at every call. `Recovers` says what must have stopped: `Trouble`.

## What the runs found

- `lost_monitor`: a destructor's LOGOUT has outlasted the wait for the monitor thread.
  `loadConfig` adds an object after the last test of the deleting loop, `start()` finds
  the old `run()` not yet finished and does nothing, "monitor running" is logged
  (`src/src/CMailApp.cpp:64`), `m_Data.clear()` drops the new entry, and `run()`
  ends: the object is there and nothing polls it. An object that is added before that
  last test fares worse: the loop meets it with its thread running and never told to
  quit, and its deletion ends the process (`RunReapExpired`).
- `error_icon`: `handleResultReady` emits `updateResult` only when a number has
  changed. One failed poll sets the error icon; polls that succeed again with
  the numbers known before do not remove it, although the README calls the
  program a "new mail notification utility" (`src/README.md:2`).

- `own_keys`: `save()` writes the password of each mailbox in the list, also the empty
  one of a mailbox whose answer has not come or was an error
  (`src/src/setup/CConfig.cpp:277`). OK for a change to the first mailbox then
  replaces the stored password of the second by an empty text. That all mailboxes share
  one job has no part in it: a job for each would write the same text with the same key.
- `own_password`: `readKey` is called for all mailboxes before the event loop
  runs. Each answer is given to all of them, and each but the first is surely that for
  the last key set.
- `stored`: OK writes the fields and then all mailboxes with one job. But for the
  first request, if it is executed at once, only the last key and text are written.
- `imap_unread`: `SEARCH UNSEEN` is answered with message numbers; `getMail` takes the first
  for how many there are and tells it as `numUnread`. That there is new mail is right
  (`UnreadIffUnseen`); how much, in the tool tip, is not.
- `Recovers` of `CImap` needs `m_StartTLS => offers`: the flag is never reset, and a server that
  stops to offer STARTTLS is not polled with success until the next reload.
  `CPop3` recovers from the same, as a refused STLS is followed by a login.
- `Recovers` of `CPop3` needs the server to close connections that were left open:
  `startProtocol` returns without `end()` after a greeting that is not `+OK`. It needs
  nothing of the capabilities: `m_AuthCramMd5` and `m_StartTLS` may be left from a server
  that offered more, the refused command is followed by the next way to log in.
- A greeting `+OK` without a text, and a cut line of one word, make the list shorter
  than the code assumes (`ReadsBeyond`). This ends the whole process at the first poll
  already, which is why `WorkerDies` is in `IMailProtocol`, and `"short"` in
  what `SoundUntilReload` allows.
- Delete deletes the key at once, Cancel restores only the configuration: the mailbox
  is back and its password is not.
- Seen on the way, without a document that says otherwise: after all mailboxes
  are deleted the next dialog uses a null `currentItem()` (`OpenCrashes`); and
  while a locked keychain waits, a new password can be set, which the old one
  replaces in memory when it arrives.

## The proofs

`CMailApp_proofs` proves, for all constants that satisfy the named assumptions
(`ProtocolAssumption`, `DelaysAssumption`, `AppAssumption`):

- `TypeCorrect`: `Spec => []TypeOK`;
- `NoOrphanedWork`: `Spec => []WorkersHaveServers`, whatever the delays;
- `TrayIsRight`: `Spec => []TrayAgrees`, whatever the delays.

Neither of the first two is inductive alone. A result is well typed only if the
address it comes from has a mailbox, which is `WorkersHaveServers`; and that
needs to know that `doWork` is under way only in a running thread, that a free
address has no socket, and that the object in its LOGOUT has lost its thread but
still exists, even if `loadConfig` adds entries meanwhile. `Owned` says so, and
`IInv == TypeOK /\ Owned` is inductive: one lemma per thread, one step per action.
`TrayAgrees` is inductive relative to `IInv`: a new entry is unknown and changes no
icon.

`CMailApp_refinement` proves `Implementation`: if `Delays \subseteq {"worker"}`,
then `Spec => ImplementsGenerations`. The invariant `RInv` adds `InStep` (where the
monitor thread is while the GUI thread is at each of its places; it fails with
lost halts and expired waits, which is why the theorem excludes them) and
`Listed` (every object is in `m_Data`, not before the place the deleting loop has
reached). When `run` ends the list is exhausted, so nobody is left, and the next
generation can begin.

`CMailApp_soundness` proves `SignalsAreSound`: if no thread is late (`Prompt`, that is
`Delays = {}`), then `Spec => []SoundUntilReload`: before the first reload the process
can end only in a `doWork` that reads beyond an answer (`"short"`), later also by a
signal that has outlived its object, and by nothing else. To `RInv`, `SInv` adds `Awake`, by which the
deleting loop meets neither a thread that was not told to quit nor an object without
a socket (so that `halt()` and the destructors do no harm), and `FirstTime`: until
the first reload the index of each object is that of its mailbox's entry, and each
queued signal is about such an entry or from an object that exists. It is stated
only while the GUI thread takes signals: once it waits for the deletions, objects go
and leave signals behind, which is what the property allows after a reload.

`CPasswords_proofs` proves of `ServedSpec`, from `KeyChainAssumption` and
`DialogAssumption`, for any number of mailboxes and passwords, with restarts and
a keychain that refuses:

- `DialogListShowsConfig`: `[]ListShowsConfig`;
- `ClosedIsSaved`: `[]InUseIsSaved`;
- `ObjectsHavePasswords`: `[]ServedAsConfigured`.

None is inductive. Cancel makes the snapshot the configuration, so that
`InUseIsSaved` needs to know that the names of the snapshot are those of the settings
while the dialog is open; that a password reaches the right entry needs that no
mailbox has two, in any list, also in those that become the configuration later.
`IInv` adds both (`Shown`, `Lists`) to the second and third property and is inductive:
one lemma per action, on lemmas about what each operator of `CConfig` does to a
list of entries with different names. The type of a password plays no part: it is
only used that a list has some set of them.

`CImap_proofs` and `CPop3_proofs` prove that the two servers implement the worker
that `CMailApp` is built on, from the assumptions of `CMailSocket`, `CImap`, `CPop3`
and `CCrypt`, also with lines that are cut:

- `ImapImplementsWorker`, `Pop3ImplementsWorker`: `Spec => ImplementsWorker`;
- `NoConnectionLeft` (CImap): `[]ClosedWhenIdle`;
- `NoLoginOutlives` (CPop3): `[]NoSessionLeft`;
- `ResponseIsRight`: `[]ResponseIsHmac`, for passwords that are sequences, of any
  length, and any sizes of blocks and digests.

The step that tells most is the return: `WorkerEnd` leaves a closed socket and
`WorkerAbandon` wants that no result was told. `IInv` says where doWork can be when
it has told one, that the socket exists during a call, and what is true where nothing
has been written to the connection: in `CImap` no usable connection, in `CPop3` no
login. All steps of the dialogue are one case of the proof (`Talks`), because none
touches what can be seen from outside. The theorem about `ResponseIsHmac` is about `hmac_md5`
alone: a key copied over zeros is the key of RFC 2104 filled up, whether it was hashed
or not.

The same two modules prove that what is told is right, on `CMailSocket_proofs`, which
has the types of the connection, of the lines and of the pieces of a line for both:

- `ImapTypes`, `Pop3Types`: `[]TypeOK`;
- `UnreadIsRight` (CImap): `[]UnreadIffUnseen`;
- `StatIsRight` (CPop3): `[]ResultIsStat`.

`TypeOK` speaks of the lines on the wire by their indices; that what is left after a
`Tail` is well typed needs that the wire is a sequence of sequences (`Types`). The
other two are about which command each line on the wire answers (`AnswersOK` in both
modules), and the protocols need different arguments.

In IMAP the last line of an answer has the tag of its command, and `readResponse`
reads up to it. So in `getMail` each command is written to an empty wire
(`MailAnswers`): what is read is its own answer, whatever the sequence number, and
`MaxSeq` can be any number. Only what comes before, the greeting and the answers to
STARTTLS and LOGIN, is read line by line. There a late line can be taken for the
answer to LOGIN, but then it is the last one, because the client and the server do
not understand each other any more (`LoginAnswers`).

POP3 has no tags: an answer that comes late is read in the place of a later one, and the
code does not notice. What saves the number is that no two `+OK` follow each other on
the wire (`Spread`), so that of USER and PASS one fails if both read late answers; that the
last line is `+OK` only if no other login can succeed (`EndsOk`, `Spent`); and
that a challenge, which is not `+OK` and lets AUTH go on, is not
among the late ones (`NoChallenge`). When STAT is written, the wire does not start with `+OK`:
either it is empty, and what is read is the answer to STAT, or `getMail` gives up.

A line that is cut can look like any of these, and so both are stated until one is cut.
`ImapAssumption` wants that there is some state of the mailbox (`Mails # {}`): without
one no server could answer SELECT.

`CPasswords_keys` proves of `ServedSpec`, on `ListsConsistent` of `CPasswords_proofs`:

- `DialogTypes`: `[]TypeOK`;
- `DeletionIsFinal`: the action property `DeletedIsGone`;
- `CarefulKeepsKeys`: `CarefulSpec => []NoBlankKeys`, where `CarefulSpec` is `ServedSpec`
  without the steps in which OK saves a mailbox whose password is not there (`Careful`).

A job uses the key it has when its turn comes, so that its type needs that every kind
of job in the queue has a mailbox's key (`Keyed`). `DeletionIsFinal` splits into
what only Delete can do to the queue and what it does to the configuration.

The run `own_keys` shows that an empty text can get into the keychain. `CarefulKeepsKeys` says
that the OK button over an unanswered mailbox is the only way: Add, a selection, a
deletion, a restart, the shared jobs and answers that come late or not at all write
none, for any number of mailboxes. Its invariant `Carried` says that nothing but
passwords is on the way to the keychain and from it. `LeastNumber`,
the least-number principle for a set, takes the place of an induction there: the last
request of a kind is the one with the least distance to the end.

All of `ServedSpec`'s theorems hold with the first request executed at once or not.

Model-checked only: the liveness properties (`WaitsEnd`, `PolledAgain`, `Converges`,
`PollsEnd`, `Recovers`). Fairness is about `ENABLED`, which the provers cannot expand.
Every other property of a passing run is a theorem.

## Not modelled

- Time. Poll times and time limits are choices; `Delays` bounds them.
- `saveStateRequest` (a hint to the session manager), the log file, the fork in
  `main`, the texts of the menu and the tool tip, `CAbout`, the build files.
- The data race on `m_Data` between `addServer` and `run` is one outcome, the end of
  the process (`LoadServerRaces`), beside the one in which it goes well.
- The parts the plan has left, below.

## Plan

1. Done: `IMailProtocol`, `CMailMonitor`, `CMailApp`, `Generations`, their
   runs and proofs.
2. Done: `CKeyChain`, `CConfig`, `CSetupDialog`. Left: an abstract specification
   (a map from mailboxes to passwords) that the program of a single mailbox implements
   if OK is pressed with care, and the fields other than name and password.
3. Done: `CPasswords`.
4. Done: `CMailSocket`, `CImap`, `CPop3`, the refinement of `IMailProtocol`. Left: cut lines
   in the POP3 run, and MD5 for APOP.
5. Done: `CCrypt`.
6. Done: the theorems, in eight modules. Left: `ImplementsGenerations` with halts that are
   late, for which `Generations` would have to let a generation be cut short.
