# Verification of the Watson IoT client for NXP A71CH

TLA+ models of the C client library in `src/src/` (paths below are relative to
the repository, which holds the library in its own directory `src/`, so that
`src/src/manageddevice.c` is the device management code), the TLC
configurations that check them on small instances, and proofs checked by TLAPS.

Run inside this directory:

    tlc -workers 2 -config md_safety.cfg MCManagedDeviceScenarios
    tlc -workers 2 -config se_retrieve.cfg MCSecureElement
    tlapm ManagedDeviceProofs.tla
    tlapm DeviceServiceProofs.tla
    tlapm RequestHistoryProofs.tla
    tlapm ConnectionProofs.tla
    tlapm SecureElementProofs.tla
    tlapm SamplesProofs.tla
    tlapm ConfigProofs.tla

`PROJECT.json` says under `runs` which module goes with which `.cfg` file.

## 1. The system

The library connects a device or a gateway to IBM Watson IoT Platform over
MQTT. It is linked into an application and used with the synchronous Paho
client (`MQTTClient.h`), which brings a second thread: the library calls
`messageArrived` from its own callback thread for one message after the other,
while the application calls the API from its thread. There is no lock in the
library.

| Component | State | Operations | Interacts with |
|---|---|---|---|
| Device management, `manageddevice.c` | `currentRequestID`, `dmClient` (firmware state, `bObserve`, `client`), five callback pointers `dmcb...`, `interrupt`, `client->managed` | `manage`, `unmanage`, `changeState`, `changeFirmwareDownloadState`, `changeFirmwareUpdateState`, five `set...Handler`; on the callback thread `messageArrived_dm` and its handlers | called from `messageArrived`; publishes through `publishData` |
| Connection, `iotfclient.c` | per client the MQTT handle `client->c` and `client->cfg`; globals `a71chInited`, `cb`, `keepAliveInterval` | `connectiotf`, `retry_connection`, `publishData`, `subscribeTopic`, `messageArrived`, `disconnect`, `setCommandHandler`, `setKeepAliveInterval` | Secure Element, Paho, configuration |
| Device client, `deviceclient.c` | none of its own | `publishEvent` (publish, reconnect, publish again), `subscribeCommand(s)` | connection |
| Gateway client, `gatewayclient.c` | `subscribeTopics`, `subscribeCount`, shared by all gateways | publish functions, three subscribe functions, `freeGatewaySubscriptionList` | connection |
| Configuration, `config.c` | heap strings of `Config`, mode flags of the client | `initialize_configfile`, `initialize`, `get_config`, `freeConfig` | utilities, connection |
| Secure Element, `a71chRetrieveCertificates.c` | the session with the element, its table of objects, the files written from them | `a71ch_retrieveCertificatesFromSE` | called by `connectiotf` |
| Utilities, `iotf_utils.c` | log file and level | `reconnect_delay`, `generateUUID`, `trim`, `buildPath`, logging | all |
| cJSON | heap trees | vendored parser | the handlers of device management |
| Samples, `samples/*.c` | options, signal flag, loop | four `main` functions, signal handlers, command callbacks | call the library, are called back by it |
| Scripts, build files | none in the library | | |

Where it is hard:

* **Interleaving.** Both threads write `currentRequestID` with `strcpy`,
  compare and format it, write `dmClient` and test callback pointers that the
  other may clear.
* **Ordering.** The platform may send a request before `manage` has stored its
  client, after `unmanage` has cleared it, or between `manage` and its answer.
* **Repeated life of a client.** `initialize`, `connectiotf`, `disconnect`,
  again and for several clients, while `a71chInited` and the gateway's topic
  list are global and never reset.
* **Failure and retry.** Every attempt to connect may fail at the element, at
  `MQTTClient_create` or at `MQTTClient_connect`, and a failed retrieval has
  already cut the configured path with `dirname`. `retry_connection` repeats
  attempts for ever.
* **Partial failure.** A retrieval is a dozen commands and three files; each
  command may fail, and each file is emptied before there is something to write.
  Initialisation writes to the client before its last check.
* **Input at the edge.** Lengths and counts that the element returns index
  arrays; a configuration file is taken apart by `strtok` and `trim`, which have
  opinions of their own on blank and one-character texts.
* **Undefined behaviour.** A path read from freed memory, a fifth argument
  passed to a function of four, a sixth topic in an array of five, an entry read
  below its array.

What makes each component correct: an answer goes out under the id of its own
request and through a client that exists; a request that was refused is not
acted on, and what was acknowledged is in force; a callback runs only for what
the platform asked for; the callback thread gets back to its queue. A session
has live memory under it and one identity, the configured one or the element's
with the certificate and key that belong to it, and no client takes the session
of another. A call returns, one that reconnects once the client can connect. A
retrieval that returns an id has written what it read, as far as the host took
it, leaves the element free and no key behind; one that does not has promised
nothing. A client is configured as its file says, in the mode its organisation
implies, and never without TLS outside quickstart. A
program has its callback in place before the first command, and ends on a signal
with nothing left behind.

`PROJECT.json` lists under `hazards` each place where one of these could go
wrong, with its line and the properties that would show it.

## 2. Modules

| Module | Contents |
|---|---|
| `ManagedDevice` | device management on two threads, with the platform and the network as environment |
| `MCManagedDevice` | its instances, and three claims of comments that the code does not keep |
| `DeviceService` | its abstraction: what the platform may rely on |
| `ManagedDeviceProofs` | four theorems about `ManagedDevice`: its types, its client, the ids of its answers |
| `DeviceServiceProofs` | `ManagedDevice` implements `DeviceService` |
| `RequestHistoryProofs` | three theorems about what it remembers of earlier requests, in its state and in the buffer |
| `Connection` | any number of clients of one process: configuration memory, element, MQTT handles, sessions, topics |
| `MCConnection` | its instances, and a claim of a comment that the code does not keep |
| `ConnectionProofs` | five theorems about `Connection` |
| `MCManagedDeviceScenarios` | three instances of `ManagedDevice` in one run, chosen in the initial state |
| `SecureElement` | the retrieval, command by command and file by file |
| `Retrieval` | its abstraction: what a caller may rely on |
| `MCSecureElement` | elements for it: good, damaged, badly encoded, with too many entries |
| `SecureElementProofs` | six theorems about `SecureElement`, the refinement among them |
| `Utilities` | `trim`, `strtok`, `strCopy`, `buildPath` as operators on sequences of words and characters |
| `Config` | both ways to initialise a client, and `freeConfig` |
| `MCConfig` | files and arguments for it |
| `ConfigProofs` | six theorems about `Config`, and one about the reading of a line |
| `Samples` | the four programs, composed with `Connection`, and `messageArrived` on the callback thread |
| `MCSamples` | its instance |
| `SamplesProofs` | five theorems about `Samples` |

### ManagedDevice

Variables carry the names of the C globals. `frame[t]` is the call that thread
`t` is in: its operation, a label `pc`, and its locals (the message, the id that
is being copied or was formatted, the field index, the return code). A step
makes one access to shared state, so that every interleaving of the two threads
at these accesses is explored. In particular:

* `strcpy(currentRequestID, ...)` is two steps, one per half of the id, in
  either order (`CopyRequestID`); a torn id is a state. The `sprintf` and
  `strcmp` that read it are one step: the properties speak of each half by
  itself, and to read the halves at different moments gives a half no value that
  some single moment does not give it.
* `if (*dmcb != 0) (*dmcb)(...)` is two steps (`InvokeCallback`); a pointer
  that was cleared in between ends the process (`crash = "callback"`).
* A publish through `dmClient.client = NULL` ends it with `crash = "client"`.
  `manage` marks the device managed, clears `dmClient` and stores the client in
  three steps (`Enrolling`), `unmanage` clears `dmClient` and unmarks the device
  in two (`Leaving`); the callback thread may run in each of these windows.
* `ArgPassing` is what the five arguments of `messageArrived`
  (`iotfclient.c:36, 353`) become in the four parameters of `messageArrived_dm`
  (`manageddevice.c:495`): `"shifted"` is the code as built by a usual C ABI,
  where `payload` holds the topic's length; `"matched"` is what was meant. The
  passing runs allow both for each message, so that the rest of the module is
  examined although the former ends most handlers at once. Two of the claims
  (`md_claim_notify`, `md_claim_action`) are about what lies behind that defect
  and take `"matched"`.

Each C function is the action of the same name; its disjuncts are the stretches
between two shared accesses. `PlatformSends` is the platform: it sends a request
once, only to a subscribed device it takes for managed, and answers the `manage`
and `unmanage` messages it received. `connlost` drops the session and a suffix
of the messages in flight; `publishEvent` is there because it runs
`retry_connection`, whose clean session has no `iotdm-1/#` subscription.
`issued`, `taken`, `called` and `sent` are history: no action of the code reads
them, except that an application reports a state (`CanReport`) only after a
callback asked it to.

`DeviceService` has neither threads nor buffer, only the message that is served,
the messages that were received, and the answers and callbacks so far. It says
that a message is served once and by itself, that a request gets one code
although an update or a cancel is answered once per field, that one callback
runs for it at most, of its kind (for a reboot also that of the factory reset),
and none once the answer was 400. `ManagedDevice` implements it under the mapping `S`
(property `Service`): what is served is the message in the callback thread's
frame, the answers are the publications under the response topic that belong to
a request, and all else is a stutter.

Not in the state: members of `dmClient` that no code reads, message texts, and
which application id belongs to which call beyond `issued`.

### Connection

Per client `c`: `cfg[c]` is the memory of its `Config` (unset, live, freed) with
its id and the two paths; `handle[c]` is `client->c` (none, without a session,
with one); `call[c]` is the API call in progress. `connectiotf` is four steps:
is the element needed, retrieve from it, create a handle, connect; each may fail,
which returns to the application or, under a publish function, starts over. A
path is a sequence of names, so that `dirname`, which cuts its argument in
place, is modelled by what it does. `RetrievedPaths` is the choice that freed
memory leaves: the key's path is formatted from `certDir`, which then points
into the freed certificate path, so that it is either the intended path or
`Dangling`. `files` are the certificates and keys that are on the host in full;
a retrieval writes those of the element's `Table` anew, one for devices and one
for gateways, and the key's (`Rewrite`), each of which may come out cut or not at
all, whether or not it returns an id. `answered` are the directories of the
retrievals that did. `Directories` are those above the configured certificates,
where `dirname` can lead. `orphan[c]` is the session of a handle that a reconnect has replaced
without disconnecting it.

`Threaded` says whether clients are driven by a thread each or all by one. The
platform is external: it accepts a connection if it is reachable and the client
can present a certificate and a key, that is, both paths name files that are
there (`Presentable`), and it closes the session that the same MQTT client id
had.
Command dispatch and delivery are in `Samples`.

The memory model is the one of the code's own accesses: a fault (a double free
of a topic, a sixth topic) ends the process.

### SecureElement

`pc` is the place in `a71ch_retrieveCertificatesFromSE`, one step per command to
the element or file that is written. `Command(next)` is what all commands share:
without a session, or for a reason of the element, the code jumps to the end
with an error code. `Elements` are the tables of objects that an element may
have; `EntryAt` gives what the code reads at its index, which from the sixth
entry on lies below the array (`Garbage`). `GetFileSize` and `ReferenceKey` are
the arithmetic as it is written, in 16 bits and from the end of the key. A file
is `"none"`, `"cut"` (opened, which empties it) or `"whole"`, and `holds` says
which place of the table its certificate comes from. The host may refuse any
file: it is not opened, or not written in full. `refused` are the files of which
this call should have noticed it and did not. A process ends when a certificate
is written to a `FILE *` that is NULL (`crash = "null"`), or when more bytes are
read than `objData` holds (`"overflow"`).

`Retrieval` has only whether a call is in progress, which files are complete or
spoilt, and the answer. `SecureElement` implements it under the mapping `R`
(property `Promise`): commands are stutters, each file is a `Write`, a `Spoil`
or an `Omit`, the latter two also with the file in `refused`: a caller learns
nothing of that, and so `Retrieval` promises nothing of such a file. In `Connection` the same call is one step with
two outcomes, the id or NULL; `Retrieval` says what stands behind the id.

### Config and Utilities

A text is a sequence of characters and of words, runs of at least two characters
that nothing takes apart, so that `strlen`, `trim` and `strtok` can be written as
they behave and a file stays small. `Tokens` are these characters and words; for the
proofs they may be anything. `initialize_configfile` is a loop with a step
per `fgets` (`ReadLine`), so that a half-read configuration is a state, and a line
that is longer than the buffer (`LineSize`) is read in pieces; `initialize` is one
step. Both may be called for a client in any state, an initialised one included,
whose configuration is then lost (`Replaced`) or, if the call is refused, kept
under the mode that the call has written. `lost` is what a call allocated and let
go. `crash` is `"null"` for a NULL pointer and `"underrun"` for `trim` below the
start of its string, which a blank line leads to if the byte there is a blank too.

### Samples

Each program is the sequence of the calls of its `main`, given by its name
(`helloWorld`, `deviceSample`, ...). A step of main starts a call of
`Connection`, whose own steps (`Library`) run until it returns; signals
(`sigHandler`), the network and the callback thread (`Receive`,
`messageArrived`) come in between. `cb` is the library's single command callback, tested in one step and used in the next.
`Topic` and `Arguments` are the levels of a topic and what the code passes on of
them.

## 3. Runs

All bounds are in the `.cfg` files. The run `samples` checks for deadlock: a
process that has ended stutters explicitly (`Ended`), and any other state must
have a successor. Elsewhere the cfg says `CHECK_DEADLOCK FALSE`, because the
system may stop: the process ends by a fault, or all bounded requests, ids,
lives and calls are used and nobody has anything left to do.

| Run | Instance | What it shows |
|---|---|---|
| `md_safety` | three scenarios: an upgrade (update and firmware update, two application ids, symmetric); updates, a download and a firmware update with two messages in flight; reboot and factory reset with handlers that come and go | types; handlers have a client exactly while the device is managed, but for the last steps of `manage` and of `unmanage`; a NULL client is used only there or while unmanaged; a parsed request is answered under its own id or one of the application's, half by half, and one that is not parsed under one whole id or one of the application's; the update callback needs a declared download; `DeviceService` is implemented; an update answered with 204 is in force or cleared by `manage`/`unmanage` |
| `md_live` | observe, cancel, update with several fields, malformed and unknown messages, two in flight | the callback thread always gets back to an empty queue, or the process has ended |
| `conn_two` | two devices that ask for an element that holds a certificate for devices, both with an id and one with paths of their own, two lives each, one thread | types; no session without live configuration; each session has one identity, the configured one or the element's, with paths neither cut nor dangling, and none before the element has answered; the certificate's path is where a retrieval was to store it; no client takes the other's session |
| `conn_live` | a gateway with the element and a device without, a thread and two lives each | `connectiotf` and `disconnect` return whatever happens; a publish that reconnects does if from some time on the client can connect (`Connectable`) |
| `se_retrieve` | nine elements, four kinds of bytes below the table, keys of two lengths, a host that refuses any file, any number of calls | types; the session with the element ends with the call; an id means that each certificate of the table is in its file, unless the host refused it or one from below the table replaced it; DER lengths are read as written; the key file is a reference; `Retrieval` is implemented |
| `config` | two initialisations in a row of a client in any state; configuration files as those of the samples, for the element and for quickstart, blank last line included, and one with certificates of its own; the first and the last of these with lines replaced; short files of twenty-two kinds of lines, pairs of eight of them; one line longer than the buffer of six words; 76 argument lists at most | types; after success quickstart mode agrees with the organisation; no port without TLS; the configuration is what the file says; a well-formed file crashes nothing but by the underrun at a blank line; nothing else is lost than the known leaks |
| `samples` | two devices and a gateway, each program with every kind of option | types; no command without a callback; a callback gets what the topic says; a returning program leaves no session and no configuration; a signal ends the program |
| `md_claim_notify`, `md_claim_action`, `md_claim_process`, `conn_claim_topics`, `samples_claim_commands` | the smallest instance in which it shows (`samples_claim_commands`: that of `samples`) | a statement of the repository that the code does not keep, see section 5 |

Why the bounds are enough. The hazards of device management need one request
that disturbs another: two requests of different kinds with one in flight give
every order of a request with each application call, and two in flight let the
network lose one and keep the other. Two application ids let a second `manage`
or `unmanage` follow the first. Two halves are the smallest torn copy. In
`Connection` two clients are enough for one to disturb the other, two lives for
what survives a disconnect, and both values of `Threaded` are used. The count of handles
saturates at `MaxHandles` and no guard depends on it. In `conn_two` and
`conn_live` `MAX_SUBSCRIPTION` is 2, not 5, to keep the list short; it only moves the
point of the overflow, and `conn_claim_topics` uses 5. In `SecureElement` calls
are not bounded at all; `MaxFiles` only saturates a count that no guard reads,
and a table of six entries is one more than is read. The lengths are one of each
encoding with its extremes, the rest is proved. In `Config` a second call shows
what a first leaves behind, and two lines at a time every order of two
properties; `MaxCalls` is 2. The buffer holds six words or characters, which every line
of the instance but the overlong one fits in, as those of the samples' files fit
in 256 characters.
In `Samples` the gateway's event count is 1 as
in its source, and one message at a time is what Paho's thread handles.

**Fairness.** `ManagedDevice` assumes `WF(NetStep)`: Paho's receive thread calls
`messageArrived` while messages wait, and an application's callback returns. It
assumes nothing of the application or the platform. `Connection` assumes that a
call in progress goes on (`WF(Step(c))`: no step of `connectiotf`, `disconnect`
or a publish waits for anything but a bounded timeout), and that the element and
`MQTTClient_create` do not fail for ever (`SF`): an element that never answers
makes `retry_connection` loop for ever, which is what the code says. That the
platform stays reachable, and that the client has an id, a certificate and a key
or the element still to ask, is a premise of the property
(`<>[]Connectable(c)`), not of the specification. Without it the property is
false: a client in its second life has no id of the element any more, and a
publish with a lost session then never returns. `connectiotf` and `disconnect`
need no premise. `SampleSpec` assumes the same of the one call in progress,
and that main runs while the process does. It assumes nothing of signals, of
messages and of the callback thread.

Each property of a passing run has a mutant: a definition `X_Something` beside
the mapped definition `X`, the way a plausible bug would have it (a code
compared with the wrong constant, an assignment left out, a loop that does not
advance), with which TLC finds the property violated. `PROJECT.json` lists them.

## 4. Proofs

The theorems hold for all sets of ids, clients, requests and handlers, all
configurations and all bounds, under the named assumptions of the modules:
application ids, platform ids and the empty id differ (`IdsAssumption`); each
request has an id of its own and is well typed (`RequestsAssumption`); codes,
states and argument passing are in their ranges (`EnvironmentAssumption`);
configurations are typed and the two path markers are not paths
(`ConfigurationAssumption`, `BoundsAssumption`), a directory is no file, and
`dirname` of one is one (`HostAssumption`); an element
has fewer than 256 entries, typed, and the random key has 11 to 32 bytes
(`ElementsAssumption`); the filters of the programs are topics
(`TopicsAssumption`); files, lines and arguments are sequences, NULL is none of
them, and the words of the program are words (`FilesAssumption`,
`ArgumentsAssumption`, `NullAssumption`, `TokensAssumption`,
`MaxCallsAssumption`). Two theorems have a hypothesis of their own, which is
named with them below.

`ManagedDeviceProofs`:

* `TypeCorrect` (`TypeOK`). The invariant is `TypeInv`, which adds
  `dmClient.bObserve = FALSE`. Without it the type of `dmClient.state` is not
  inductive: `changeFirmwareDownloadState` would store its `rc`, which is only
  typed as a number. That the conjunct holds is the defect of section 5 seen
  from the other side.
* `ClientWhileManaged` (`ClientIffManaged`) and `NullClientUnmanaged`
  (`NullClientOnlyUnmanaged`). `ClientInv` adds that `manage` in its last two
  steps has already set `managed`, that `unmanage` in its last one has cleared the
  client, and that a process that ended with `crash = "client"` has no client
  since, so that the state of the crash keeps its reason.
* `AnswersOwn` (`AnswersOwnRequest`). `OwnInv` follows the id: the application
  copies only ids that it issued (`AppCopiesIssued`); what the callback thread
  has copied is its request's, or was overwritten by the application
  (`NetCopiesOwn`); what it formats afterwards is therefore one of these; and a
  callback that reports back does so inside the request it was called for
  (`ReportsFromActions`).

`DeviceServiceProofs`: `ServiceImplemented` (`Service`), from `ServiceInv`.
`DeliveryInv`: no message is twice in flight or in flight and received, and a
response carries an id of the application, so that its key differs from those of
all requests; this needs that the frame of `manage` still has the id it issued.
`HistoryInv`: what is answered or acted on was received before, and the
application thread serves nothing, so that what it reports answers no request.
`NetInv`: how far each handler has come with its message, in terms of the codes
(`Progress`) and callbacks (`Working`) that the message has got. Each handler has
one lemma, which shows at the same time that `ServiceInv` is kept and that the
step is one of `DeviceService` (`Good`); steps that only move are dealt with once
(`NetMoves`, `AppMoves`, `NetworkMoves`), and so is the step that may answer
(`NetAnswers`).

`RequestHistoryProofs`:

* `NeverMixed` (`UnparsedAnswersWhole`), by `WholeInv`: as long as the callback
  thread is not copying, the buffer holds one id or a half of the application's
  (`Unmixed`), and a request that is not parsed never has the thread copy; so what
  it formats is unmixed, too.
* `UpdateEarned` (`FirmwareUpdateEarned`), by `PastInv`: the state is DOWNLOADED
  only after a request, or the application, declared it (`Declared`), and a
  handler that is on its way to the callback (`Earns`) has seen it so. It uses
  `ServiceInv` for the callback that goes with the handler.
* `AckedInForce` (`AckedFirmwareState`), an action property, by `AckInv`: between
  the store of the state and its answer only `manage` and `unmanage` write it.
  `AckSender` says that no other step publishes such an answer.

`ConnectionProofs`:

* `TypeCorrect` (`TypeOK`), and `SessionsHaveConfig` (`SessionHasConfig`),
  `SessionsHaveOneIdentity` (`OneIdentity`) and `CertificateStored`
  (`CertificateWhereStored`), from one invariant `SessionInv` per client and
  `HostInv`. A call in progress has live memory, and at the last step of
  `disconnect` no session (`MemoryInv`); beyond the retrieval a client that wants
  the element has `a71chInited` (`ElementInv`); the paths are those of the
  configuration, or those of a retrieval, or the certificate's is a directory that
  `dirname` has left (`PathsInv`); a client with the element's id is past the
  retrieval for ever, so that no later one cuts its path (`CertificateInv`). That
  no file is such a directory (`HostInv`) is why no session comes of a cut path;
  that a dangling path is none, why none comes of a dangling key. One
  lemma says what other clients can do to a client: end its session, read the
  element and rewrite files. It makes the proof independent of how many there are, and of
  `Threaded`.
* `NoSessionTaken` (`NoSessionStolen`), an action property, by `IdentityInv`: at
  most one client is in a call (`OneCall`); a client's id is the configured one or
  the element's, and the element is asked only while nobody has its answer
  (`IdInv`); hence no two clients of a kind have the same id (`IdsApart`). It
  has two hypotheses. `DistinctIds`: clients of one kind are configured with ids
  of their own, and not with that of an element that another one asks; the
  platform would otherwise close a session whatever the library does. `~Threaded`:
  with a thread for each client two of them can find `a71chInited` unset, both
  read the element, and connect with its one id.

`SecureElementProofs`:

* `TypeCorrect` (`TypeOK`). That `nObj` stays in 1 .. 256 needs `PlaceInv`:
  while a certificate is read, `nObj` is still that of its entry, which is in
  the table.
* `SessionClosed` (`ElementReleased`), by `LinkInv`: `SM_Close` is skipped when
  there is no ATR, and then there was never a session. `LengthRead`
  (`CertificateLength`), by `FileSizeIsExtent`, for every header and not only
  those of the run. `KeyIsReference` (`ReferenceOnly`), by `ReferenceKeyBytes`,
  for every length of the key.
* `CertificatesRetrieved` (`AllRetrieved`) and `RetrievalImplemented`
  (`Promise`), from `FilesInv`: a call that goes on has left no file cut but those
  the host refused (`WholeInv`), has in each other file the last wanted entry
  before the present one, or one from below the table (`ScanInv`), is at the key
  only past the last entry (`LastInv`), and has the key in place or refused when
  it has succeeded (`KeyDone`); `AnswerInv` keeps this until the next call. A step that fails, and one that
  leaves the files alone, are dealt with once (`FailKeeps`, `StepKeeps`).
  `InitRefines` and `NextRefines` are then the step simulation.

`SamplesProofs`, from `SampleInv`:

* `SampleTypeCorrect` (`SampleTypeOK`). The steps of the library keep what
  `ConnectionProofs` shows of them; its lemmas, one per action, are cited for
  each step that a program makes (`NextKeepsLibrary`).
* `NoCommandDropped` (`NoneDropped`), by `CallbackInv`: the callback is there
  once main has set it, and no program subscribes earlier (`OrderOfCalls`, which
  is all that the proofs use of the four sequences of calls).
  `ArgumentsFromLabels` (`ArgumentsMatch`), by `MessageInv`: what arrives belongs
  to the program's own filter, or to device management.
* `ExitsClean` (`CleanExit`). A session without a handle exists only during the
  retry of a publish, and under the id with which that retry will connect
  (`OrphanInv`): the retrieval, which would change the id, is not run again. As
  the retry goes on until it has connected, main gets to its `disconnect` only
  after the platform has closed that session (`CallInv`, `EndInv`).
* `NoProgramFaults`, by `ProgramInv`: main subscribes at most once and frees the
  list once, before which nothing in it has been freed. So no program faults. The
  hypothesis is that the list has a place (`MAX_SUBSCRIPTION > 0`; it is 5). For an application that disconnects a
  gateway twice there is no such theorem: `conn_claim_topics`.

`ConfigProofs`, from `ConfigInv`, for every file and all arguments:

* `ReadableLine`: of a line that a person can read, `strtok` and `trim` give the
  name and the value. `trim` is `Strip` (`Trimmed`); the tokens are between the
  delimiters (`FirstToken`, `SecondToken`). Positions are chosen as the largest
  or smallest of a set, and that there is one follows from the library's
  well-founded order on finite sets (`MaxOfSet`, `MinOfSet`), not by induction.
* `TypeCorrect` (`TypeOK`), `Quickstarts` (`QuickstartAgrees`) and `OthersUseTLS`
  (`NoClearText`), the last by `PortInv`: an organisation other than quickstart
  has set the port when it was read, and no later line sets it back.
  `Quickstarts` speaks of a client whose last call succeeded: a refused call on
  an initialised client changes its mode only (`Validate`, `initialize`).
* `ConfiguredAsWritten` (`AsWritten`) and `WellFormedIsSafe`
  (`CrashOnlyMalformed`), by `ReadInv`: if the lines read so far are readable and
  fit the buffer, the configuration is what those lines say. A blank line is
  readable, says nothing, and leads to the underrun at most; every file of the
  samples ends with one and is well-formed. `ParseLineEffect` is what one line
  changes; the `Written...` lemmas carry it from one line to the next.
* `NothingElseLost` (`LostOnly`), by `SetInv`: a text that is set was set by a
  line, so that one that is overwritten has two lines. The proof attempt refuted
  an earlier form of the property: `strtok` skips the `=` at the beginning of a
  line, so that two lines `=auth-token=secret` lose a text although no name
  stands before their first `=`. `Begin` and `Name` now say where the name
  begins, and `MCConfig` has such a line.

Every invariant and action property of the passing runs is thus a theorem. Only
model-checked are the liveness properties `CallbackThreadDrains`, `CallsReturn`
and `SignalEnds`, because liveness under fairness and ENABLED are beyond the
prover used here, and the five claims of section 5, which the runs refute.

## 5. Where the code disagrees with what is said of it

With a run each:

* `md_claim_process`: `messageArrived` passes five arguments to a function of
  four. A well-formed request is read through the topic's length.
* `md_claim_notify`: an observe request is answered with 200, but `bObserve`
  stays false, so no firmware state is ever notified.
* `md_claim_action`: `changeState` answers under what `currentRequestID` holds when
  the application calls it; by then it may be the id of a later request, or half
  of each. (Of a request that gets past the defect of `md_claim_process`.)
* `conn_claim_topics`: `subscribeCount` is never reset; the second disconnect of
  a gateway frees its topics again.
* `samples_claim_commands`: a reconnect opens a clean session and nobody
  subscribes again, so that a program's loop goes on without its commands.

Seen while modelling, and plain from the code (no run):

* a reboot request without a reboot handler runs the factory reset handler
  (`manageddevice.c:477`);
* the platform's answer to `manage` or `unmanage` is dropped, and its callback does
  not run, if a platform request has replaced `currentRequestID` in the meantime
  (`manageddevice.c:431`);
* `observe` and `firmware_update` requests are answered under the id of an
  earlier request, because their payload is not parsed;
* `manage` overwrites the return code of its subscription;
* a sixth gateway subscription writes beyond `subscribeTopics`
  (`gatewayclient.c:132`);
* the element is read once per process: a client that is disconnected and
  initialised again has no id, and cannot connect (`iotfclient.c:96`); a second
  client goes on with the id and the paths of its file, and if a failed retrieval
  has cut these, it cannot connect either;
* a refused call of `initialize` or `initialize_configfile` changes `isQuickstart`
  of a client that is initialised already (`config.c:55, 58, 202, 205`), by which
  `connectiotf` then goes;
* `trim` of a blank line, with which each file of the samples ends, reads the byte
  below its buffer, and clears one there if that is a blank (`iotf_utils.c:172`);
* of a line of more than 255 characters, comments included, the rest is read as a
  line of its own (`config.c:276`);
* `connlost` only logs, so that a client that only waits for commands is not
  reconnected (`iotfclient.c:47`);
* the key's path is formatted from freed memory (`iotfclient.c:129`);
* a reconnect neither disconnects nor destroys the old handle
  (`iotfclient.c:190`);
* a command that arrives without a command callback is not freed
  (`iotfclient.c:404`);
* a file without `org` ends the process, where `MISSING_INPUT_PARAM` was meant
  (`config.c:54`), and `useCertsFromSE` is accepted without `useNXPEngine`, on
  which the retrieval depends (`config.c:63`);
* the default path of the server's certificate is `./IoTFoundation.pe`
  (`iotf_utils.c:118`); nothing in `src/` uses it;
* the sixth entry of an element's table is read below its array
  (`a71chRetrieveCertificates.c:268`), lengths 31, 63, 95 and 127 of a
  certificate are taken for those of a long tag (`:152`), an element of more than
  8096 bytes is read into an array of as many (`:288`), a file that `fopen` does
  not open is written to (`:303`), and a key that cannot be written, or a
  certificate that is not written in full, is reported as success (`:325`, `:308`);
* a signal during a retry is noticed only when the retry succeeds
  (`SignalEnds` therefore has its premise);
* `retry_connection` starts at 1, so there are nine delays of the shortest kind
  where `iotf_utils.c` speaks of ten.

## 6. Not modelled, and the plan

Left out for good: cJSON (vendored; modelled by what it returns to a handler),
build files and provisioning scripts (no state of the running program), logging
(output only), `setKeepAliveInterval` (stores a number that only MQTT reads),
`yield` (sleeps), `reconnect_delay` and `generateUUID` (no state depends on
what they return; an attempt comes at any time, and ids of one process differ),
`getTestCfgFilePath` (for tests that are not in the repository). Inside the
modelled parts: texts of messages and ids, names of files, memory that `malloc`
does not have in `config.c`, and delivery guarantees of MQTT beyond loss.

Still open:

1. `Connection` with `ManagedDevice`: what a reconnect does to a managed device
   beyond the loss of its subscriptions.
2. Proofs: that `Connection`'s one step with two outcomes for the retrieval is
   what `Retrieval` allows, in one statement; which clients lose a session when
   there is a thread each, that is, what remains of `NoSessionStolen` without
   `~Threaded`.
