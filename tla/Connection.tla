----------------------------- MODULE Connection -----------------------------
(***************************************************************************)
(* The life of a client: src/src/iotfclient.c, with the memory it gets in  *)
(* config.c, the publish functions of deviceclient.c and gatewayclient.c   *)
(* that reconnect, and the subscription list of gatewayclient.c.           *)
(*                                                                         *)
(* A call is a frame with a program counter; a step ends where the call    *)
(* leaves the library (the Secure Element, MQTT).  Between two steps the   *)
(* platform may fail, sessions may be lost, and other clients may run.     *)
(*                                                                         *)
(* A process that uses freed memory, or writes past an array, ends in      *)
(* "fault".  The application follows the documented order: initialize,     *)
(* then connectiotf, then the other calls, then disconnect, from which it  *)
(* may go on with initialize.                                              *)
(*                                                                         *)
(* Paths are those of a client that presents a certificate; one that does  *)
(* not has none.  The Secure Element is asked only for clients that do:    *)
(* config.c refuses the engine without certificates.                       *)
(*                                                                         *)
(* Left out: host names, ports, QoS, messages, the delays between attempts,*)
(* a retrieval that ends the process (SecureElement).                      *)
(***************************************************************************)
EXTENDS Integers, Sequences

CONSTANTS
    Clients,          \* the iotfclient instances of the process
    Configuration,    \* what initialize gives each of them
    UID,              \* the id that the Secure Element holds
    NoId, NoPath,     \* NULL
    Dangling,         \* a path read from freed memory
    Names,            \* names of files and directories
    DefaultDir,       \* "/opt/iotnxpimxclient/certs"
    Directories,      \* those above the configured certificates
    Provisioned,      \* the certificates and keys that are on the host already
    Table,            \* the certificates that the Secure Element holds
    Topics,           \* topics the application subscribes to
    MAX_SUBSCRIPTION,
    Threaded,         \* whether clients are driven by threads of their own
    MaxLives,         \* bound on the calls of initialize per client
    MaxHandles        \* the count of handles saturates here

Path == Seq(Names)
FileIds == {Configuration[c].id : c \in Clients}
Ids  == FileIds \cup {UID, NoId}

ASSUME ConfigurationAssumption ==
    /\ Configuration \in
         [Clients -> [gateway : BOOLEAN, se : BOOLEAN, id : Ids, cert : Path \cup {NoPath},
                      key : Path \cup {NoPath}]]
    /\ {NoPath, Dangling} \cap Path = {} /\ NoPath # Dangling

\* A retrieval names its files so, in the directory it is given.
Certificates   == {"device_cert", "gateway_cert"}
RetrievedNames == Certificates \cup {"ref_key"}

\* libc's dirname cuts its argument, and returns it.
dirname(path) == IF path = <<>> THEN <<>> ELSE SubSeq(path, 1, Len(path) - 1)

\* A directory is no file, and is not named like one that is retrieved.
ASSUME HostAssumption ==
    /\ RetrievedNames \subseteq Names /\ Table \subseteq Certificates
    /\ DefaultDir \in Path /\ Provisioned \subseteq Path /\ Directories \subseteq Path
    /\ Directories \cap Provisioned = {}
    /\ \A dir \in Directories :
         dirname(dir) \in Directories /\ (dir # <<>> => dir[Len(dir)] \notin RetrievedNames)
    /\ \A c \in Clients : Configuration[c].cert # NoPath
                            => dirname(Configuration[c].cert) \in Directories

ASSUME BoundsAssumption ==
    /\ MAX_SUBSCRIPTION \in Nat /\ MaxLives \in Nat /\ MaxHandles \in Nat
    /\ Threaded \in BOOLEAN

VARIABLES
    cfg,              \* per client: the memory of its configuration, id and paths
    handle,           \* client->c: "none", "down" (no session) or "up"
    orphan,           \* the id of a session whose handle client->c has lost
    handles,          \* MQTT handles created and not destroyed
    subs,             \* subscriptions of the session of client->c
    subscribeTopics,  \* the list of all gateways; its length is subscribeCount
    a71chInited,      \* the library's global
    answered,         \* directories of the retrievals that returned an id
    files,            \* the certificates and keys that are on the host, whole
    call,             \* the call in progress for a client
    lives,            \* calls of initialize
    platform,         \* whether the platform accepts connections
    fault             \* "none", or what ended the process

memory == <<cfg, subscribeTopics, a71chInited, answered, files>>
session == <<handle, orphan, handles, subs>>
vars == <<memory, session, call, lives, platform, fault>>

-----------------------------------------------------------------------------
Configured(c) == Configuration[c]
NoCall == [op |-> "none", pc |-> "start"]

Init ==
    /\ cfg = [c \in Clients |-> [mem |-> "unset", id |-> NoId, cert |-> NoPath, key |-> NoPath]]
    /\ handle = [c \in Clients |-> "none"] /\ orphan = [c \in Clients |-> NoId]
    /\ handles = [c \in Clients |-> 0] /\ subs = [c \in Clients |-> {}]
    /\ subscribeTopics = <<>> /\ a71chInited = FALSE
    /\ answered = {} /\ files = Provisioned
    /\ call = [c \in Clients |-> NoCall] /\ lives = [c \in Clients |-> 0]
    /\ platform = TRUE /\ fault = "none"

Up(c)     == handle[c] = "up"
At(c, pc) == call[c].pc = pc

\* The application is not inside a call for c, and may start one.
Ready(c) == /\ call[c] = NoCall
            /\ Threaded \/ \A d \in Clients : call[d] = NoCall
Usable(c) == Ready(c) /\ cfg[c].mem = "live" /\ handle[c] # "none"

Goto(c, pc)      == call' = [call EXCEPT ![c].pc = pc]
Return(c)        == call' = [call EXCEPT ![c] = NoCall]
Enter(c, op, pc) == call' = [call EXCEPT ![c] = [op |-> op, pc |-> pc]]

-----------------------------------------------------------------------------
(* Configuration memory.                                                   *)

\* initialize and initialize_configfile: client->cfg = configstr.
initialize(c) ==
    /\ Ready(c) /\ cfg[c].mem # "live" /\ lives[c] < MaxLives
    /\ cfg' = [cfg EXCEPT ![c] = [mem |-> "live", id |-> Configured(c).id,
                                  cert |-> Configured(c).cert, key |-> Configured(c).key]]
    /\ lives' = [lives EXCEPT ![c] = @ + 1]
    /\ UNCHANGED <<session, subscribeTopics, a71chInited, answered, files, call, platform, fault>>

freeConfig(c) == cfg' = [cfg EXCEPT ![c].mem = "freed"]

-----------------------------------------------------------------------------
(* connectiotf and retry_connection.                                       *)

connectiotf(c) ==
    /\ Ready(c) /\ cfg[c].mem = "live"
    /\ Enter(c, "connectiotf", "retrieve")
    /\ UNCHANGED <<memory, session, lives, platform, fault>>

\* A failed attempt is returned to the application, or repeated for ever.
AttemptFails_Once(c) == Return(c)
AttemptFails(c) ==
    IF call[c].op = "connectiotf" THEN Return(c) ELSE Goto(c, "retrieve")

\* After a successful one a publish function publishes again.
AttemptSucceeds_Retried(c) == AttemptFails(c)
AttemptSucceeds(c) ==
    IF call[c].op = "connectiotf" THEN Return(c) ELSE Goto(c, "again")

CertificatesNeeded(c) ==
    /\ At(c, "retrieve")
    /\ Goto(c, IF Configured(c).se /\ ~a71chInited THEN "extract" ELSE "create")
    /\ UNCHANGED <<memory, session, lives, platform, fault>>

\* What the certificate's and the key's path become.  certDir points into the
\* memory of clientCertPath, which is freed between the two.
Own(c) == IF Configured(c).gateway THEN "gateway_cert" ELSE "device_cert"

RetrievedPaths_Reread(c, certDir) ==
    {<<Append(dirname(certDir), Own(c)), Append(certDir, "ref_key")>>}
RetrievedPaths_Freed(c, certDir) == {<<Dangling, Dangling>>}
RetrievedPaths(c, certDir) ==
    {Append(certDir, Own(c))} \X
        (IF cfg[c].cert = NoPath THEN {Append(certDir, "ref_key")}
                                 ELSE {Append(certDir, "ref_key"), Dangling})

\* The files of a retrieval are written anew: each is whole then, or is cut,
\* or the host has not let it be.
Rewrite(dir, names) ==
    LET In(some) == {Append(dir, name) : name \in some}
    IN  \E whole \in SUBSET names : files' = (files \ In(names)) \cup In(whole)

MarkInited_Omitted == UNCHANGED a71chInited
MarkInited == a71chInited' = TRUE

ExtractionFails_Ignored(c) == Goto(c, "create")
ExtractionFails(c) == AttemptFails(c)

\* The id comes whether or not the element has a certificate for this kind of
\* client, and whether or not the host took the files.
retrieveCertificates(c) ==
    LET given   == cfg[c].cert # NoPath
        certDir == IF given THEN dirname(cfg[c].cert) ELSE DefaultDir
    IN /\ At(c, "extract")
       /\ \/ /\ cfg' = [cfg EXCEPT ![c].cert = IF given THEN certDir ELSE NoPath]
             /\ Rewrite(certDir, Table) /\ ExtractionFails(c)
             /\ UNCHANGED <<a71chInited, answered>>
          \/ /\ \E paths \in RetrievedPaths(c, certDir) :
                  cfg' = [cfg EXCEPT ![c].id = UID, ![c].cert = paths[1], ![c].key = paths[2]]
             /\ Rewrite(certDir, Table \cup {"ref_key"})
             /\ answered' = answered \cup {certDir}
             /\ MarkInited /\ Goto(c, "create")
       /\ UNCHANGED <<subscribeTopics, session, lives, platform, fault>>

\* The new handle takes the place of the old one, which is neither
\* disconnected nor destroyed.
MQTTClient_create(c) ==
    /\ At(c, "create")
    /\ \/ AttemptFails(c) /\ UNCHANGED session
       \/ /\ cfg[c].id # NoId
          /\ orphan' = [orphan EXCEPT ![c] = IF Up(c) THEN cfg[c].id ELSE @]
          /\ handle' = [handle EXCEPT ![c] = "down"] /\ subs' = [subs EXCEPT ![c] = {}]
          /\ handles' = [handles EXCEPT ![c] = IF @ < MaxHandles THEN @ + 1 ELSE @]
          /\ Goto(c, "connect")
    /\ UNCHANGED <<memory, lives, platform, fault>>

\* A certificate and a key are read from their paths.  The platform closes the
\* session that another client has under the same client id.
Presentable(c) == {cfg[c].cert, cfg[c].key} \ {NoPath} \subseteq files
Accepts(c)     == platform /\ Presentable(c)
clientId(c) == <<Configured(c).gateway, cfg[c].id>>

MQTTClient_connect(c) ==
    /\ At(c, "connect")
    /\ IF Accepts(c)
       THEN LET lost == {d \in Clients \ {c} : Up(d) /\ clientId(d) = clientId(c)}
            IN /\ handle' = [d \in Clients |-> IF d = c THEN "up"
                                               ELSE IF d \in lost THEN "down" ELSE handle[d]]
               /\ subs' = [d \in Clients |-> IF d \in lost THEN {} ELSE subs[d]]
               /\ orphan' = [d \in Clients |->
                    IF <<Configured(d).gateway, orphan[d]>> = clientId(c) THEN NoId ELSE orphan[d]]
               /\ AttemptSucceeds(c)
       ELSE AttemptFails(c) /\ UNCHANGED <<handle, subs, orphan>>
    /\ UNCHANGED <<memory, handles, lives, platform, fault>>

-----------------------------------------------------------------------------
(* Publishing, subscribing, disconnecting.                                 *)

\* publishData fails without a session, and may with one (messages in flight).
Publish(c, op) ==
    /\ Usable(c)
    /\ \/ Up(c) /\ UNCHANGED call
       \/ Enter(c, op, "retrieve")
    /\ UNCHANGED <<memory, session, lives, platform, fault>>

publishEvent(c)        == ~Configured(c).gateway /\ Publish(c, "publishEvent")
publishDeviceEvent(c)  == Configured(c).gateway /\ Publish(c, "publishDeviceEvent")
publishGatewayEvent(c) == Configured(c).gateway /\ Publish(c, "publishGatewayEvent")

\* The second publishData, whatever it returns.
PublishAgain(c) ==
    /\ At(c, "again") /\ Return(c)
    /\ UNCHANGED <<memory, session, lives, platform, fault>>

subscribeTopic(c, topic) ==
    \/ Up(c) /\ subs' = [subs EXCEPT ![c] = @ \cup {topic}]
    \/ UNCHANGED subs

subscribeCommand(c) ==
    /\ Usable(c) /\ ~Configured(c).gateway
    /\ \E topic \in Topics : subscribeTopic(c, topic)
    /\ UNCHANGED <<memory, handle, orphan, handles, call, lives, platform, fault>>

\* The three subscribe functions of a gateway: the topic enters the list
\* whether or not the platform has accepted it, and whether or not it fits.
SubscribeGateway(c) ==
    /\ Usable(c) /\ Configured(c).gateway
    /\ \E topic \in Topics : subscribeTopic(c, topic)
    /\ IF Len(subscribeTopics) < MAX_SUBSCRIPTION
       THEN subscribeTopics' = Append(subscribeTopics, "live") /\ UNCHANGED fault
       ELSE fault' = "overflow" /\ UNCHANGED subscribeTopics
    /\ UNCHANGED <<cfg, a71chInited, answered, files, handle, orphan, handles, call, lives,
                   platform>>

disconnect(c) ==
    /\ Usable(c) /\ Enter(c, "disconnect", "disconnect")
    /\ UNCHANGED <<memory, session, lives, platform, fault>>

\* All topics of the list, those of other gateways and those already freed
\* included.
freeGatewaySubscriptionList(c) ==
    IF ~Configured(c).gateway \/ subscribeTopics = <<>>
    THEN UNCHANGED <<subscribeTopics, fault>>
    ELSE /\ subscribeTopics' = [i \in 1 .. Len(subscribeTopics) |-> "freed"]
         /\ fault' = IF \E i \in 1 .. Len(subscribeTopics) : subscribeTopics[i] = "freed"
                     THEN "double_free" ELSE "none"

CloseSession_Omitted(c) == UNCHANGED <<handle, subs>>
CloseSession(c) == handle' = [handle EXCEPT ![c] = "down"] /\ subs' = [subs EXCEPT ![c] = {}]

DisconnectSession(c) ==
    /\ At(c, "disconnect") /\ Goto(c, "free")
    /\ IF Up(c) THEN CloseSession(c) /\ freeGatewaySubscriptionList(c)
                ELSE UNCHANGED <<handle, subs, subscribeTopics, fault>>
    /\ UNCHANGED <<cfg, a71chInited, answered, files, orphan, handles, lives, platform>>

FreeClient(c) ==
    /\ At(c, "free") /\ freeConfig(c) /\ Return(c)
    /\ UNCHANGED <<subscribeTopics, a71chInited, answered, files, session, lives, platform, fault>>

-----------------------------------------------------------------------------
(* The network.  connlost only logs.                                       *)

connlost(c) ==
    /\ Up(c) /\ CloseSession(c)
    /\ UNCHANGED <<memory, orphan, handles, call, lives, platform, fault>>

OrphanLost(c) ==
    /\ orphan[c] # NoId /\ orphan' = [orphan EXCEPT ![c] = NoId]
    /\ UNCHANGED <<memory, handle, handles, subs, call, lives, platform, fault>>

PlatformChanges ==
    /\ platform' = ~platform
    /\ UNCHANGED <<memory, session, call, lives, fault>>

-----------------------------------------------------------------------------
\* The library goes on with the call it is in.
Step(c) ==
    /\ fault = "none"
    /\ \/ CertificatesNeeded(c) \/ retrieveCertificates(c)
       \/ MQTTClient_create(c) \/ MQTTClient_connect(c)
       \/ PublishAgain(c) \/ DisconnectSession(c) \/ FreeClient(c)

Application(c) ==
    /\ fault = "none"
    /\ \/ initialize(c) \/ connectiotf(c) \/ disconnect(c)
       \/ publishEvent(c) \/ publishDeviceEvent(c) \/ publishGatewayEvent(c)
       \/ subscribeCommand(c) \/ SubscribeGateway(c)

Network == /\ fault = "none"
           /\ PlatformChanges \/ \E c \in Clients : connlost(c) \/ OrphanLost(c)

Next == Network \/ \E c \in Clients : Step(c) \/ Application(c)

Spec == Init /\ [][Next]_vars

\* A call goes on; the Secure Element and MQTTClient_create do not fail for
\* ever, and a platform that stays reachable is not always out of reach at
\* the moment of a connect.  Nothing is assumed of the application.
Extracts(c) == fault = "none" /\ retrieveCertificates(c) /\ a71chInited'
Creates(c)  == fault = "none" /\ MQTTClient_create(c) /\ call'[c].pc = "connect"

FairSpec ==
    /\ Spec
    /\ \A c \in Clients : WF_vars(Step(c)) /\ SF_vars(Extracts(c)) /\ SF_vars(Creates(c))

-----------------------------------------------------------------------------
(* Properties.                                                             *)

Calls == [op : {"none", "connectiotf", "publishEvent", "publishDeviceEvent",
                "publishGatewayEvent", "disconnect"},
          pc : {"start", "retrieve", "extract", "create", "connect", "again",
                "disconnect", "free"}]

\* The type invariant.
TypeOK ==
    /\ cfg \in [Clients -> [mem : {"unset", "live", "freed"}, id : Ids,
                            cert : Path \cup {NoPath}, key : Path \cup {NoPath, Dangling}]]
    /\ handle \in [Clients -> {"none", "down", "up"}]
    /\ orphan \in [Clients -> Ids] /\ handles \in [Clients -> 0 .. MaxHandles]
    /\ subs \in [Clients -> SUBSET Topics]
    /\ subscribeTopics \in Seq({"live", "freed"})
    /\ a71chInited \in BOOLEAN /\ answered \subseteq Path /\ files \subseteq Path
    /\ call \in [Clients -> Calls] /\ lives \in [Clients -> 0 .. MaxLives]
    /\ platform \in BOOLEAN /\ fault \in {"none", "double_free", "overflow"}

\* Memory is not freed under a session: a handle that is up has a live
\* configuration, whatever attempts, losses and disconnects came before.
SessionHasConfig == \A c \in Clients : Up(c) => cfg[c].mem = "live"

\* A session stands under one identity, whole: the configured id with the
\* configured paths, neither cut, or the element's id with the certificate and
\* the key of one retrieval, neither dangling.  A client that asks for the
\* Secure Element has the first kind only after the element has answered
\* another one, which keeps it from asking itself.
AsConfigured(c) == /\ cfg[c].id = Configured(c).id /\ cfg[c].cert = Configured(c).cert
                   /\ cfg[c].key = Configured(c).key
FromElement(c) ==
    /\ cfg[c].id = UID
    /\ \E dir \in answered : /\ cfg[c].cert = Append(dir, Own(c))
                            /\ cfg[c].key = Append(dir, "ref_key")
OneIdentity ==
    \A c \in Clients :
        Up(c) => (AsConfigured(c) \/ FromElement(c)) /\ (Configured(c).se => a71chInited)

\* A client with the element's id has the path of the certificate for its kind,
\* where a retrieval that returned this id was to write it, also after attempts
\* that cut the configured path; its key is in the same place, or dangles.
\* (A configuration that names this id brings its own certificate.)
CertificateWhereStored ==
    \A c \in Clients : cfg[c].mem = "live" /\ cfg[c].id = UID /\ Configured(c).id # UID =>
        \E dir \in answered : /\ cfg[c].cert = Append(dir, Own(c))
                             /\ cfg[c].key \in {Append(dir, "ref_key"), Dangling}

\* A client that connects takes no session from another client of the process:
\* the element's id goes to one client only.
NoSessionStolen ==
    [][\A c, d \in Clients : c # d /\ At(c, "connect") /\ call'[c] # call[c]
          => (Up(d) => handle'[d] = "up")]_vars

\* connectiotf and disconnect return, whatever the platform does.  A publish
\* that reconnects returns too, if from some time on the platform stays
\* reachable and the client has what it takes: an id, and certificate and key
\* on the host, or the element still to ask.  (Others are kept in it for ever: a
\* second life without an id, whose element has answered already; a key that
\* dangles; a certificate that the element does not hold or the host refused.)
Connectable(c) ==
    /\ platform
    /\ \/ cfg[c].id # NoId /\ Presentable(c)
       \/ Configured(c).se /\ ~a71chInited
CallsReturn ==
    \A c \in Clients :
        /\ call[c].op \in {"connectiotf", "disconnect"} ~> (call[c] = NoCall \/ fault # "none")
        /\ <>[]Connectable(c) => (call[c] # NoCall ~> (call[c] = NoCall \/ fault # "none"))
=============================================================================
