--------------------------- MODULE ConnectionProofs ---------------------------
(***************************************************************************)
(* Proofs about Connection, for any set of clients and configurations, any *)
(* paths, topics and bounds, with and without threads.                     *)
(***************************************************************************)
EXTENDS Connection, TLAPS

USE DEF Configured, Up, At

-----------------------------------------------------------------------------
(* Typing.                                                                 *)

Memory == [mem : {"unset", "live", "freed"}, id : Ids,
           cert : Path \cup {NoPath}, key : Path \cup {NoPath, Dangling}]

\* The counter of calls of initialize is the only number that an action
\* increases without a test of its own.
LEMMA BoundsTyped ==
    /\ \A n \in 0 .. MaxHandles : n < MaxHandles => n + 1 \in 0 .. MaxHandles
    /\ \A n \in 0 .. MaxLives : n < MaxLives => n + 1 \in 0 .. MaxLives
BY BoundsAssumption

\* The directory that dirname leaves is a path.
LEMMA DirnameTyped == \A path \in Path : dirname(path) \in Path
<1> SUFFICES ASSUME NEW path \in Path PROVE dirname(path) \in Path
    OBVIOUS
<1>1. CASE path = <<>>
    BY <1>1 DEF dirname, Path
<1>2. CASE path # <<>>
    <2>1. Len(path) - 1 \in Nat /\ Len(path) - 1 <= Len(path)
        BY <1>2 DEF Path
    <2>2. \A i \in 1 .. Len(path) - 1 : path[i] \in Names
        BY DEF Path
    <2> QED
        BY <1>2, <2>1, <2>2 DEF dirname, Path
<1> QED
    BY <1>1, <1>2

\* The paths of retrieved files: the certificate's is always a path, the key's
\* is one or dangles.
LEMMA RetrievedTyped ==
    ASSUME NEW c \in Clients, NEW dir \in Path, NEW paths \in RetrievedPaths(c, dir)
    PROVE  /\ paths[1] = Append(dir, Own(c)) /\ paths[1] \in Path
           /\ paths[2] \in {Append(dir, "ref_key"), Dangling} /\ paths[2] \in Path \cup {Dangling}
<1>1. Own(c) \in Names /\ "ref_key" \in Names
    BY HostAssumption DEF Own, RetrievedNames, Certificates
<1>2. Append(dir, Own(c)) \in Path /\ Append(dir, "ref_key") \in Path
    BY <1>1 DEF Path
<1> QED
    BY <1>2 DEF RetrievedPaths

\* What a retrieval writes are files, in a directory, and none of them is one.
LEMMA RewriteTyped ==
    ASSUME NEW dir \in Path, NEW names \in SUBSET RetrievedNames, Rewrite(dir, names)
    PROVE  /\ files \subseteq Path => files' \subseteq Path
           /\ files \cap Directories = {} => files' \cap Directories = {}
<1>1. \A name \in RetrievedNames : Append(dir, name) \in Path
    BY HostAssumption DEF Path
<1>2. ASSUME NEW name \in RetrievedNames PROVE Append(dir, name) \notin Directories
    <2>1. dir \in Seq(Names) /\ name \in Names
        BY HostAssumption DEF Path
    <2>2. /\ Append(dir, name) # <<>> /\ Len(Append(dir, name)) = Len(dir) + 1
          /\ Append(dir, name)[Len(dir) + 1] = name
        BY <2>1
    <2> QED
        BY <2>2, HostAssumption
<1>3. PICK whole \in SUBSET names :
        files' = (files \ {Append(dir, name) : name \in names})
                    \cup {Append(dir, name) : name \in whole}
    BY DEF Rewrite
<1>4. \A path \in files' : path \in files \/ \E name \in RetrievedNames : path = Append(dir, name)
    BY <1>3
<1> QED
    BY <1>1, <1>2, <1>4

LEMMA ConfigurationTyped ==
    ASSUME NEW c \in Clients
    PROVE  /\ [mem |-> "live", id |-> Configured(c).id, cert |-> Configured(c).cert,
               key |-> Configured(c).key] \in Memory
           /\ Configured(c).id \in Ids
BY ConfigurationAssumption DEF Memory

\* The moves of a call, whatever they are, keep calls typed.
LEMMA MovesTyped ==
    ASSUME call \in [Clients -> Calls], NEW c \in Clients
    PROVE  /\ \A pc \in {"start", "retrieve", "extract", "create", "connect", "again",
                         "disconnect", "free"} :
                Goto(c, pc) => call' \in [Clients -> Calls]
           /\ Return(c) => call' \in [Clients -> Calls]
           /\ AttemptFails(c) => call' \in [Clients -> Calls]
           /\ AttemptSucceeds(c) => call' \in [Clients -> Calls]
<1>1. ASSUME NEW pc \in {"start", "retrieve", "extract", "create", "connect", "again",
                         "disconnect", "free"}, Goto(c, pc)
      PROVE  call' \in [Clients -> Calls]
    <2>1. [call[c] EXCEPT !.pc = pc] \in Calls
        BY DEF Calls
    <2>2. call' = [call EXCEPT ![c] = [call[c] EXCEPT !.pc = pc]]
        BY <1>1 DEF Goto
    <2> QED
        BY <2>1, <2>2
<1>2. Return(c) => call' \in [Clients -> Calls]
    BY DEF Return, NoCall, Calls
<1> QED
    BY <1>1, <1>2 DEF AttemptFails, AttemptSucceeds

LEMMA InitTyped == Init => TypeOK
<1> SUFFICES ASSUME Init PROVE TypeOK
    OBVIOUS
<1>1. 0 \in 0 .. MaxHandles /\ 0 \in 0 .. MaxLives
    BY BoundsAssumption
<1>6. files \subseteq Path
    BY HostAssumption DEF Init
<1>2. cfg \in [Clients -> Memory]
    BY DEF Init, Memory, Ids
<1>3. call \in [Clients -> Calls]
    BY DEF Init, NoCall, Calls
<1>4. /\ handle \in [Clients -> {"none", "down", "up"}] /\ orphan \in [Clients -> Ids]
      /\ handles \in [Clients -> 0 .. MaxHandles] /\ lives \in [Clients -> 0 .. MaxLives]
      /\ subs \in [Clients -> SUBSET Topics]
    BY <1>1 DEF Init, Ids
<1>5. subscribeTopics \in Seq({"live", "freed"})
    BY DEF Init
<1> QED
    BY <1>2, <1>3, <1>4, <1>5, <1>6 DEF Init, TypeOK, Memory

\* Steps that change no more than the calls.
LEMMA CallStepTyped ==
    ASSUME TypeOK, call' \in [Clients -> Calls],
           UNCHANGED <<memory, session, lives, platform, fault>>
    PROVE  TypeOK'
BY DEF TypeOK, memory, session

LEMMA EnterTyped ==
    ASSUME TypeOK, NEW c \in Clients,
           connectiotf(c) \/ disconnect(c) \/ publishEvent(c)
           \/ publishDeviceEvent(c) \/ publishGatewayEvent(c)
    PROVE  TypeOK'
<1>1. call' \in [Clients -> Calls]
    <2>1. ASSUME NEW op \in {"connectiotf", "publishEvent", "publishDeviceEvent",
                             "publishGatewayEvent", "disconnect"},
                 NEW pc \in {"retrieve", "disconnect"}, Enter(c, op, pc)
          PROVE  call' \in [Clients -> Calls]
        BY <2>1 DEF Enter, Calls, TypeOK
    <2> QED
        BY <2>1 DEF connectiotf, disconnect, publishEvent, publishDeviceEvent,
                    publishGatewayEvent, Publish, TypeOK
<1> QED
    BY <1>1, CallStepTyped DEF connectiotf, disconnect, publishEvent, publishDeviceEvent,
                               publishGatewayEvent, Publish

LEMMA InitializeTyped ==
    ASSUME TypeOK, NEW c \in Clients, initialize(c) PROVE TypeOK'
<1>1. cfg' \in [Clients -> Memory]
    BY ConfigurationTyped DEF initialize, TypeOK, Memory
<1>2. lives' \in [Clients -> 0 .. MaxLives]
    BY BoundsTyped DEF initialize, TypeOK
<1> QED
    BY <1>1, <1>2 DEF initialize, TypeOK, Memory, session

LEMMA TableNames ==
    Table \subseteq RetrievedNames /\ Table \cup {"ref_key"} \subseteq RetrievedNames
BY HostAssumption DEF RetrievedNames

LEMMA RetrieveTyped ==
    ASSUME TypeOK, NEW c \in Clients, retrieveCertificates(c) PROVE TypeOK'
<1> DEFINE given   == cfg[c].cert # NoPath
           certDir == IF given THEN dirname(cfg[c].cert) ELSE DefaultDir
<1>1. cfg \in [Clients -> Memory] /\ cfg[c] \in Memory
    BY DEF TypeOK, Memory
<1>2. certDir \in Path
    BY <1>1, DirnameTyped, HostAssumption DEF Memory
<1>3. CASE cfg' = [cfg EXCEPT ![c].cert = IF given THEN certDir ELSE NoPath]
           /\ Rewrite(certDir, Table) /\ ExtractionFails(c)
           /\ UNCHANGED <<a71chInited, answered>>
    <2>1. cfg' \in [Clients -> Memory]
        BY <1>1, <1>2, <1>3 DEF Memory
    <2>2. call' \in [Clients -> Calls]
        BY <1>3, MovesTyped DEF ExtractionFails, TypeOK
    <2>3. files' \subseteq Path
        BY <1>2, <1>3, RewriteTyped, TableNames DEF TypeOK
    <2> QED
        BY <1>3, <2>1, <2>2, <2>3 DEF retrieveCertificates, TypeOK, Memory, session
<1>4. ASSUME NEW paths \in RetrievedPaths(c, certDir),
             cfg' = [cfg EXCEPT ![c].id = UID, ![c].cert = paths[1], ![c].key = paths[2]],
             Rewrite(certDir, Table \cup {"ref_key"}), answered' = answered \cup {certDir},
             MarkInited, Goto(c, "create")
      PROVE  TypeOK'
    <2>1. paths[1] \in Path /\ paths[2] \in Path \cup {Dangling}
        BY <1>2, RetrievedTyped
    <2>2. cfg' \in [Clients -> Memory]
        BY <1>1, <1>4, <2>1 DEF Memory, Ids
    <2>3. call' \in [Clients -> Calls]
        BY <1>4, MovesTyped DEF TypeOK
    <2>4. answered' \subseteq Path /\ a71chInited' \in BOOLEAN
        BY <1>2, <1>4 DEF TypeOK, MarkInited
    <2>5. files' \subseteq Path
        BY <1>2, <1>4, RewriteTyped, TableNames DEF TypeOK
    <2> QED
        BY <2>2, <2>3, <2>4, <2>5 DEF retrieveCertificates, TypeOK, Memory, session
<1> QED
    BY <1>3, <1>4 DEF retrieveCertificates

LEMMA CreateTyped ==
    ASSUME TypeOK, NEW c \in Clients, MQTTClient_create(c) PROVE TypeOK'
<1>1. CASE AttemptFails(c) /\ UNCHANGED session
    <2>1. call' \in [Clients -> Calls]
        BY <1>1, MovesTyped DEF TypeOK
    <2> QED
        BY <1>1, <2>1, CallStepTyped DEF MQTTClient_create
<1>2. CASE ~(AttemptFails(c) /\ UNCHANGED session)
    <2>1. call' \in [Clients -> Calls]
        BY <1>2, MovesTyped DEF MQTTClient_create, TypeOK
    <2>2. handles' \in [Clients -> 0 .. MaxHandles]
        <3>1. handles[c] \in 0 .. MaxHandles
            BY DEF TypeOK
        <3>2. (IF handles[c] < MaxHandles THEN handles[c] + 1 ELSE handles[c]) \in 0 .. MaxHandles
            BY <3>1, BoundsTyped
        <3>3. handles' = [handles EXCEPT ![c] = IF @ < MaxHandles THEN @ + 1 ELSE @]
            BY <1>2 DEF MQTTClient_create
        <3> QED
            BY <3>2, <3>3 DEF TypeOK
    <2>3. cfg[c].id \in Ids
        BY DEF TypeOK
    <2>4. /\ orphan' \in [Clients -> Ids] /\ handle' \in [Clients -> {"none", "down", "up"}]
          /\ subs' \in [Clients -> SUBSET Topics]
        <3>1. orphan' = [orphan EXCEPT ![c] = IF Up(c) THEN cfg[c].id ELSE @]
              /\ handle' = [handle EXCEPT ![c] = "down"] /\ subs' = [subs EXCEPT ![c] = {}]
            BY <1>2 DEF MQTTClient_create
        <3>2. orphan' \in [Clients -> Ids]
            BY <2>3, <3>1 DEF TypeOK
        <3> QED
            BY <3>1, <3>2 DEF TypeOK
    <2> QED
        BY <2>1, <2>2, <2>4 DEF MQTTClient_create, TypeOK, memory
<1> QED
    BY <1>1, <1>2

LEMMA ConnectTyped ==
    ASSUME TypeOK, NEW c \in Clients, MQTTClient_connect(c) PROVE TypeOK'
<1>1. call' \in [Clients -> Calls]
    BY MovesTyped DEF MQTTClient_connect, TypeOK
<1>2. /\ handle' \in [Clients -> {"none", "down", "up"}]
      /\ subs' \in [Clients -> SUBSET Topics] /\ orphan' \in [Clients -> Ids]
    <2>1. CASE Accepts(c)
        <3>1. handle' \in [Clients -> {"none", "down", "up"}]
            BY <2>1 DEF MQTTClient_connect, TypeOK
        <3>2. subs' \in [Clients -> SUBSET Topics]
            BY <2>1 DEF MQTTClient_connect, TypeOK
        <3>3. orphan' \in [Clients -> Ids]
            BY <2>1 DEF MQTTClient_connect, TypeOK, Ids
        <3> QED
            BY <3>1, <3>2, <3>3
    <2>2. CASE ~Accepts(c)
        BY <2>2 DEF MQTTClient_connect, TypeOK
    <2> QED
        BY <2>1, <2>2
<1> QED
    BY <1>1, <1>2 DEF MQTTClient_connect, TypeOK, memory

LEMMA SubscribeTyped ==
    ASSUME TypeOK, NEW c \in Clients, subscribeCommand(c) \/ SubscribeGateway(c)
    PROVE  TypeOK'
<1>1. subs' \in [Clients -> SUBSET Topics]
    BY DEF subscribeCommand, SubscribeGateway, subscribeTopic, TypeOK
<1>2. subscribeTopics' \in Seq({"live", "freed"})
      /\ fault' \in {"none", "double_free", "overflow"}
    <2>1. Append(subscribeTopics, "live") \in Seq({"live", "freed"})
        BY DEF TypeOK
    <2> QED
        BY <2>1 DEF subscribeCommand, SubscribeGateway, memory, TypeOK
<1> QED
    BY <1>1, <1>2 DEF subscribeCommand, SubscribeGateway, memory, TypeOK

LEMMA DisconnectTyped ==
    ASSUME TypeOK, NEW c \in Clients, DisconnectSession(c) \/ FreeClient(c)
    PROVE  TypeOK'
<1>1. call' \in [Clients -> Calls]
    BY MovesTyped DEF DisconnectSession, FreeClient, TypeOK
<1>2. CASE DisconnectSession(c)
    <2>1. subscribeTopics' \in Seq({"live", "freed"})
          /\ fault' \in {"none", "double_free", "overflow"}
        <3>1. Len(subscribeTopics) \in Nat
            BY DEF TypeOK
        <3>2. [i \in 1 .. Len(subscribeTopics) |-> "freed"] \in Seq({"live", "freed"})
            BY <3>1
        <3> QED
            BY <1>2, <3>2 DEF DisconnectSession, freeGatewaySubscriptionList, TypeOK
    <2>2. handle' \in [Clients -> {"none", "down", "up"}] /\ subs' \in [Clients -> SUBSET Topics]
        BY <1>2 DEF DisconnectSession, CloseSession, TypeOK
    <2> QED
        BY <1>1, <1>2, <2>1, <2>2 DEF DisconnectSession, TypeOK
<1>3. CASE FreeClient(c)
    <2>1. cfg' \in [Clients -> Memory]
        <3>1. cfg \in [Clients -> Memory] /\ [cfg[c] EXCEPT !.mem = "freed"] \in Memory
            BY DEF TypeOK, Memory
        <3>2. cfg' = [cfg EXCEPT ![c] = [cfg[c] EXCEPT !.mem = "freed"]]
            BY <1>3 DEF FreeClient, freeConfig
        <3> QED
            BY <3>1, <3>2
    <2> QED
        BY <1>1, <1>3, <2>1 DEF FreeClient, TypeOK, Memory, session
<1> QED
    BY <1>2, <1>3

LEMMA EnvironmentTyped ==
    ASSUME TypeOK, NEW c \in Clients, PlatformChanges \/ connlost(c) \/ OrphanLost(c)
    PROVE  TypeOK'
<1>1. CASE PlatformChanges
    BY <1>1 DEF PlatformChanges, TypeOK, memory, session
<1>2. CASE connlost(c)
    BY <1>2 DEF connlost, CloseSession, TypeOK, memory
<1>3. CASE OrphanLost(c)
    BY <1>3 DEF OrphanLost, TypeOK, memory, Ids
<1> QED
    BY <1>1, <1>2, <1>3

LEMMA NetworkTyped == TypeOK /\ Network => TypeOK'
<1> SUFFICES ASSUME TypeOK, Network PROVE TypeOK'
    OBVIOUS
<1>1. CASE PlatformChanges
    BY <1>1 DEF PlatformChanges, TypeOK, memory, session
<1>2. CASE ~PlatformChanges
    BY <1>2, EnvironmentTyped DEF Network
<1> QED
    BY <1>1, <1>2

LEMMA NextTyped == TypeOK /\ [Next]_vars => TypeOK'
<1> SUFFICES ASSUME TypeOK, [Next]_vars PROVE TypeOK'
    OBVIOUS
<1>1. ASSUME NEW c \in Clients, Step(c) PROVE TypeOK'
    <2>1. CASE CertificatesNeeded(c) \/ PublishAgain(c)
        <3>1. call' \in [Clients -> Calls]
            BY <2>1, MovesTyped DEF CertificatesNeeded, PublishAgain, TypeOK
        <3> QED
            BY <2>1, <3>1, CallStepTyped DEF CertificatesNeeded, PublishAgain
    <2> QED
        BY <1>1, <2>1, RetrieveTyped, CreateTyped, ConnectTyped, DisconnectTyped DEF Step
<1>2. ASSUME NEW c \in Clients, Application(c) PROVE TypeOK'
    BY <1>2, InitializeTyped, EnterTyped, SubscribeTyped DEF Application
<1>3. CASE UNCHANGED vars
    BY <1>3 DEF vars, memory, session, TypeOK
<1> QED
    BY <1>1, <1>2, <1>3, NetworkTyped DEF Next

\* Every reachable state is well typed.
THEOREM TypeCorrect == Spec => []TypeOK
BY InitTyped, NextTyped, PTL DEF Spec

-----------------------------------------------------------------------------
(* Sessions, memory and the Secure Element.                                *)

\* A call in progress uses the configuration; the last step of disconnect
\* frees it, and finds no session.
MemoryInv(c) ==
    /\ ~At(c, "start") => cfg[c].mem = "live"
    /\ At(c, "free") => ~Up(c)
    /\ Up(c) => cfg[c].mem = "live"

\* A client that wants the Secure Element gets past the retrieval only once
\* the element has answered.
ElementInv(c) ==
    /\ Configured(c).se /\ (At(c, "create") \/ At(c, "connect")) => a71chInited
    /\ Configured(c).se /\ Up(c) => a71chInited

\* The paths are those of the configuration, or those of a retrieval, or an
\* attempt has cut the certificate's, and then it is a directory's.  A call asks
\* the element with paths of its configuration, and without a session.
Retrieved(c) ==
    /\ cfg[c].id = UID
    /\ \E dir \in answered : /\ cfg[c].cert = Append(dir, Own(c))
                            /\ cfg[c].key \in {Append(dir, "ref_key"), Dangling}
Cut(c) == cfg[c].cert \in Directories
PathsInv(c) ==
    /\ cfg[c].mem = "live" => AsConfigured(c) \/ Retrieved(c) \/ Cut(c)
    /\ At(c, "extract") => (AsConfigured(c) \/ Cut(c)) /\ ~Up(c)
    /\ Up(c) => AsConfigured(c) \/ FromElement(c)

\* The element's id, unless configured, comes with a certificate that the
\* element was to store, and no later retrieval cuts the certificate's path.
HasElementId(c) == cfg[c].mem = "live" /\ cfg[c].id = UID /\ Configured(c).id # UID
CertificateInv(c) ==
    /\ HasElementId(c) => a71chInited /\ Retrieved(c)
    /\ At(c, "extract") => ~HasElementId(c)

ClientSafe(c) == MemoryInv(c) /\ ElementInv(c) /\ PathsInv(c) /\ CertificateInv(c)
SessionInv == \A c \in Clients : ClientSafe(c)

\* No file that can be presented is a directory that dirname has left; and the
\* element answers once it is marked as asked.
HostInv == files \cap Directories = {} /\ (answered # {} => a71chInited)

LEMMA InitSafe == Init => SessionInv
<1> SUFFICES ASSUME Init, NEW c \in Clients PROVE ClientSafe(c)
    BY DEF SessionInv
<1>1. cfg[c].mem = "unset" /\ handle[c] = "none" /\ call[c].pc = "start"
    BY DEF Init, NoCall
<1> QED
    BY <1>1 DEF ClientSafe, MemoryInv, ElementInv, PathsInv, AsConfigured,
        FromElement, Retrieved, Cut, CertificateInv, HasElementId

\* What other clients do to a client: at most end its session, and read the
\* element.
LEMMA OthersKeepSafe ==
    ASSUME NEW d \in Clients, ClientSafe(d), UNCHANGED <<cfg[d], call[d]>>,
           handle'[d] = "up" => handle[d] = "up",
           a71chInited => a71chInited', answered \subseteq answered'
    PROVE  ClientSafe(d)'
<1>1. /\ AsConfigured(d)' <=> AsConfigured(d)
      /\ (FromElement(d) => FromElement(d)') /\ (Retrieved(d) => Retrieved(d)')
      /\ (Cut(d)' <=> Cut(d)) /\ (HasElementId(d)' <=> HasElementId(d))
    BY DEF AsConfigured, FromElement, Retrieved, Cut, HasElementId
<1> QED
    BY <1>1 DEF ClientSafe, MemoryInv, ElementInv, PathsInv, CertificateInv

\* A call that moves, and changes nothing else, to a step that the invariant
\* allows.
LEMMA MoveKeepsSafe ==
    ASSUME NEW c \in Clients, ClientSafe(c), UNCHANGED <<cfg, handle, a71chInited, answered>>,
           At(c, "start")' \/ cfg[c].mem = "live",
           ~At(c, "free")',
           (At(c, "create")' \/ At(c, "connect")') /\ Configured(c).se => a71chInited,
           At(c, "extract")' => ~HasElementId(c) /\ (AsConfigured(c) \/ Cut(c)) /\ ~Up(c)
    PROVE  ClientSafe(c)'
<1>1. /\ AsConfigured(c)' <=> AsConfigured(c)
      /\ (FromElement(c)' <=> FromElement(c)) /\ (Retrieved(c)' <=> Retrieved(c))
      /\ (Cut(c)' <=> Cut(c)) /\ (HasElementId(c)' <=> HasElementId(c))
    BY DEF AsConfigured, FromElement, Retrieved, Cut, HasElementId
<1> QED
    BY <1>1 DEF ClientSafe, MemoryInv, ElementInv, PathsInv, CertificateInv

\* The steps that a call can move to.
LEMMA MovesTo ==
    ASSUME TypeOK, NEW c \in Clients
    PROVE  /\ \A pc : Goto(c, pc) => call'[c].pc = pc
           /\ Return(c) => call'[c].pc = "start"
           /\ \A op, pc : Enter(c, op, pc) => call'[c].pc = pc
           /\ AttemptFails(c) => call'[c].pc \in {"start", "retrieve"}
           /\ AttemptSucceeds(c) => call'[c].pc \in {"start", "again"}
           /\ Goto(c, "retrieve") \/ Return(c) \/ Goto(c, "again")
                  => \A d \in Clients \ {c} : call'[d] = call[d]
           /\ \A pc : Goto(c, pc) => \A d \in Clients \ {c} : call'[d] = call[d]
           /\ \A op, pc : Enter(c, op, pc) => \A d \in Clients \ {c} : call'[d] = call[d]
           /\ AttemptFails(c) \/ AttemptSucceeds(c)
                  => \A d \in Clients \ {c} : call'[d] = call[d]
<1>1. call[c] \in Calls
    BY DEF TypeOK
<1> QED
    BY <1>1 DEF TypeOK, Goto, Return, Enter, AttemptFails, AttemptSucceeds, NoCall, Calls

LEMMA EnterKeepsSafe ==
    ASSUME TypeOK, SessionInv, NEW c \in Clients,
           connectiotf(c) \/ disconnect(c) \/ publishEvent(c)
           \/ publishDeviceEvent(c) \/ publishGatewayEvent(c)
    PROVE  SessionInv'
<1>1. /\ UNCHANGED <<cfg, handle, a71chInited, answered>> /\ cfg[c].mem = "live"
      /\ \/ UNCHANGED call
         \/ \E op, pc : pc \in {"retrieve", "disconnect"} /\ Enter(c, op, pc)
    BY DEF connectiotf, disconnect, publishEvent, publishDeviceEvent, publishGatewayEvent,
           Publish, Usable, memory, session
<1>2. CASE UNCHANGED call
    BY <1>1, <1>2, OthersKeepSafe DEF SessionInv
<1>3. CASE \E op, pc : pc \in {"retrieve", "disconnect"} /\ Enter(c, op, pc)
    <2>1. call'[c].pc \in {"retrieve", "disconnect"}
          /\ \A d \in Clients \ {c} : call'[d] = call[d]
        BY <1>3, MovesTo
    <2>2. ClientSafe(c)'
        BY <1>1, <2>1, MoveKeepsSafe DEF SessionInv
    <2> QED
        BY <1>1, <2>1, <2>2, OthersKeepSafe DEF SessionInv
<1> QED
    BY <1>1, <1>2, <1>3

LEMMA InitializeKeepsSafe ==
    ASSUME TypeOK, SessionInv, NEW c \in Clients, initialize(c) PROVE SessionInv'
<1>1. /\ UNCHANGED <<handle, a71chInited, answered, call>> /\ call[c].pc = "start"
      /\ cfg'[c].mem = "live" /\ AsConfigured(c)' /\ ~Up(c)
      /\ \A d \in Clients \ {c} : cfg'[d] = cfg[d]
    BY DEF initialize, Ready, NoCall, TypeOK, session, AsConfigured, SessionInv, ClientSafe, MemoryInv
<1>2. ClientSafe(c)'
    BY <1>1 DEF SessionInv, ClientSafe, MemoryInv, ElementInv, PathsInv, AsConfigured,
        FromElement, Retrieved, Cut, CertificateInv, HasElementId
<1> QED
    BY <1>1, <1>2, OthersKeepSafe DEF SessionInv

LEMMA NeededKeepsSafe ==
    ASSUME TypeOK, HostInv, SessionInv, NEW c \in Clients,
           CertificatesNeeded(c) \/ PublishAgain(c)
    PROVE  SessionInv'
<1>1. UNCHANGED <<cfg, handle, a71chInited, answered>> /\ cfg[c].mem = "live"
    BY DEF CertificatesNeeded, PublishAgain, memory, session, SessionInv, ClientSafe, MemoryInv
<1>2. /\ \/ call'[c].pc = "extract" /\ ~a71chInited /\ Configured(c).se
         \/ call'[c].pc = "create" /\ (Configured(c).se => a71chInited)
         \/ call'[c].pc = "start"
      /\ \A d \in Clients \ {c} : call'[d] = call[d]
    <2>1. CASE CertificatesNeeded(c)
        BY <2>1, MovesTo DEF CertificatesNeeded, TypeOK
    <2>2. CASE PublishAgain(c)
        BY <2>2, MovesTo DEF PublishAgain
    <2> QED
        BY <2>1, <2>2
<1>3. /\ ~a71chInited => ~HasElementId(c) /\ ~Retrieved(c)
      /\ Configured(c).se /\ ~a71chInited => ~Up(c)
    BY DEF SessionInv, ClientSafe, CertificateInv, HostInv, Retrieved, ElementInv
<1>5. AsConfigured(c) \/ Retrieved(c) \/ Cut(c)
    BY <1>1 DEF SessionInv, ClientSafe, PathsInv
<1>4. ClientSafe(c)'
    BY <1>1, <1>2, <1>3, <1>5, MoveKeepsSafe DEF SessionInv
<1> QED
    BY <1>1, <1>2, <1>4, OthersKeepSafe DEF SessionInv

LEMMA RetrieveKeepsSafe ==
    ASSUME TypeOK, SessionInv, NEW c \in Clients, retrieveCertificates(c) PROVE SessionInv'
<1> DEFINE given   == cfg[c].cert # NoPath
           certDir == IF given THEN dirname(cfg[c].cert) ELSE DefaultDir
<1>1. /\ At(c, "extract") /\ cfg[c].mem = "live" /\ ~HasElementId(c) /\ UNCHANGED handle
      /\ AsConfigured(c) \/ Cut(c)
      /\ ~Up(c) /\ cfg \in [Clients -> Memory] /\ cfg[c] \in Memory
    BY DEF retrieveCertificates, session, SessionInv, ClientSafe, MemoryInv, CertificateInv,
           PathsInv, TypeOK, Memory
<1>2. CASE cfg' = [cfg EXCEPT ![c].cert = IF given THEN certDir ELSE NoPath]
           /\ Rewrite(certDir, Table) /\ ExtractionFails(c)
           /\ UNCHANGED <<a71chInited, answered>>
    <2>1. /\ cfg'[c].mem = "live" /\ cfg'[c].id = cfg[c].id /\ cfg'[c].key = cfg[c].key
          /\ cfg'[c].cert = IF given THEN certDir ELSE NoPath
          /\ \A d \in Clients \ {c} : cfg'[d] = cfg[d]
        BY <1>1, <1>2 DEF Memory
    <2>2. call'[c].pc \in {"start", "retrieve"} /\ \A d \in Clients \ {c} : call'[d] = call[d]
        BY <1>2, MovesTo DEF ExtractionFails
    <2>3. given => cfg'[c].cert \in Directories
        BY <1>1, <2>1, HostAssumption DEF AsConfigured, Cut
    <2>4. ~given => AsConfigured(c)'
        <3>1. NoPath \notin Directories
            BY ConfigurationAssumption, HostAssumption
        <3> QED
            BY <1>1, <2>1, <3>1 DEF AsConfigured, Cut
    <2>5. AsConfigured(c)' \/ Cut(c)'
        BY <2>3, <2>4 DEF Cut
    <2>6. ~HasElementId(c)'
        BY <1>1, <2>1 DEF HasElementId
    <2> HIDE DEF certDir, given
    <2>7. ClientSafe(c)'
        BY <1>1, <1>2, <2>1, <2>2, <2>5, <2>6
        DEF ClientSafe, MemoryInv, ElementInv, PathsInv, CertificateInv
    <2> QED
        BY <1>1, <1>2, <2>1, <2>2, <2>7, OthersKeepSafe DEF SessionInv
<1>3. ASSUME NEW paths \in RetrievedPaths(c, certDir),
             cfg' = [cfg EXCEPT ![c].id = UID, ![c].cert = paths[1], ![c].key = paths[2]],
             Rewrite(certDir, Table \cup {"ref_key"}), answered' = answered \cup {certDir},
             MarkInited, Goto(c, "create")
      PROVE  SessionInv'
    <2>1. certDir \in Path
        BY <1>1, DirnameTyped, HostAssumption DEF Memory
    <2>2. paths[1] = Append(certDir, Own(c)) /\ paths[2] \in {Append(certDir, "ref_key"), Dangling}
        BY <2>1, RetrievedTyped
    <2>3. /\ cfg'[c].mem = "live" /\ cfg'[c].cert = paths[1] /\ cfg'[c].key = paths[2]
          /\ cfg'[c].id = UID
          /\ \A d \in Clients \ {c} : cfg'[d] = cfg[d]
        BY <1>1, <1>3 DEF Memory
    <2>4. call'[c].pc = "create" /\ \A d \in Clients \ {c} : call'[d] = call[d]
        BY <1>3, MovesTo
    <2>5. a71chInited' /\ certDir \in answered' /\ answered \subseteq answered'
        BY <1>3 DEF MarkInited
    <2> HIDE DEF certDir, given
    <2>7. Retrieved(c)'
        BY <2>2, <2>3, <2>5 DEF Retrieved, Own
    <2>6. ClientSafe(c)'
        BY <1>1, <2>3, <2>4, <2>5, <2>7
        DEF ClientSafe, MemoryInv, ElementInv, PathsInv, CertificateInv
    <2> QED
        BY <1>1, <2>3, <2>4, <2>5, <2>6, OthersKeepSafe DEF SessionInv
<1> QED
    BY <1>2, <1>3 DEF retrieveCertificates

LEMMA CreateKeepsSafe ==
    ASSUME TypeOK, SessionInv, NEW c \in Clients, MQTTClient_create(c) PROVE SessionInv'
<1>1. /\ UNCHANGED <<cfg, a71chInited, answered>> /\ cfg[c].mem = "live"
      /\ Configured(c).se => a71chInited
    BY DEF MQTTClient_create, memory, SessionInv, ClientSafe, MemoryInv, ElementInv
<1>2. /\ call'[c].pc \in {"start", "retrieve", "connect"}
      /\ \A d \in Clients \ {c} : call'[d] = call[d]
    BY MovesTo DEF MQTTClient_create
<1>3. \A d \in Clients : handle'[d] = "up" => handle[d] = "up"
    BY DEF MQTTClient_create, session, TypeOK
<1>4. ClientSafe(c)'
    BY <1>1, <1>2, <1>3
    DEF SessionInv, ClientSafe, MemoryInv, ElementInv, PathsInv, AsConfigured,
        FromElement, Retrieved, Cut, CertificateInv, HasElementId
<1> QED
    BY <1>1, <1>2, <1>3, <1>4, OthersKeepSafe DEF SessionInv

LEMMA ConnectKeepsSafe ==
    ASSUME TypeOK, HostInv, SessionInv, NEW c \in Clients, MQTTClient_connect(c)
    PROVE  SessionInv'
<1>1. /\ UNCHANGED <<cfg, a71chInited, answered>> /\ cfg[c].mem = "live"
      /\ Configured(c).se => a71chInited
    BY DEF MQTTClient_connect, memory, SessionInv, ClientSafe, MemoryInv, ElementInv
<1>2. /\ call'[c].pc \in {"start", "retrieve", "again"}
      /\ \A d \in Clients \ {c} : call'[d] = call[d]
    BY MovesTo DEF MQTTClient_connect
<1>3. \A d \in Clients \ {c} : handle'[d] = "up" => handle[d] = "up"
    BY DEF MQTTClient_connect, TypeOK
<1>5. Accepts(c) => AsConfigured(c) \/ FromElement(c)
    <2> SUFFICES ASSUME Accepts(c) PROVE AsConfigured(c) \/ FromElement(c)
        OBVIOUS
    <2>1. /\ cfg[c].cert # NoPath => cfg[c].cert \in files
          /\ cfg[c].key # NoPath => cfg[c].key \in files
        BY DEF Accepts, Presentable
    <2>2. ~Cut(c)
        BY <2>1, ConfigurationAssumption, HostAssumption DEF Cut, HostInv
    <2>3. cfg[c].key # Dangling
        BY <2>1, ConfigurationAssumption DEF TypeOK
    <2> QED
        BY <1>1, <2>2, <2>3 DEF SessionInv, ClientSafe, PathsInv, Retrieved, FromElement
<1>6. handle'[c] = "up" => Up(c) \/ Accepts(c)
    BY DEF MQTTClient_connect
<1>7. /\ AsConfigured(c)' <=> AsConfigured(c)
      /\ (FromElement(c)' <=> FromElement(c)) /\ (Retrieved(c)' <=> Retrieved(c))
      /\ (Cut(c)' <=> Cut(c)) /\ (HasElementId(c)' <=> HasElementId(c))
    BY <1>1 DEF AsConfigured, FromElement, Retrieved, Cut, HasElementId
<1>4. ClientSafe(c)'
    BY <1>1, <1>2, <1>5, <1>6, <1>7
    DEF SessionInv, ClientSafe, MemoryInv, ElementInv, PathsInv, CertificateInv
<1> QED
    BY <1>1, <1>2, <1>3, <1>4, OthersKeepSafe DEF SessionInv

LEMMA DisconnectKeepsSafe ==
    ASSUME TypeOK, SessionInv, NEW c \in Clients, DisconnectSession(c) \/ FreeClient(c)
    PROVE  SessionInv'
<1>1. CASE DisconnectSession(c)
    <2>1. /\ UNCHANGED <<cfg, a71chInited, answered>> /\ cfg[c].mem = "live" /\ handle'[c] # "up"
          /\ \A d \in Clients \ {c} : handle'[d] = handle[d]
        BY <1>1 DEF DisconnectSession, CloseSession, TypeOK, SessionInv, ClientSafe, MemoryInv
    <2>2. call'[c].pc = "free" /\ \A d \in Clients \ {c} : call'[d] = call[d]
        BY <1>1, MovesTo DEF DisconnectSession
    <2>3. ClientSafe(c)'
        BY <2>1, <2>2
        DEF SessionInv, ClientSafe, MemoryInv, ElementInv, PathsInv, AsConfigured,
        FromElement, Retrieved, Cut, CertificateInv, HasElementId
    <2> QED
        BY <2>1, <2>2, <2>3, OthersKeepSafe DEF SessionInv
<1>2. CASE FreeClient(c)
    <2>1. /\ UNCHANGED <<handle, a71chInited, answered>> /\ ~Up(c) /\ cfg'[c].mem = "freed"
          /\ \A d \in Clients \ {c} : cfg'[d] = cfg[d]
        BY <1>2 DEF FreeClient, freeConfig, session, TypeOK, SessionInv, ClientSafe, MemoryInv
    <2>2. call'[c].pc = "start" /\ \A d \in Clients \ {c} : call'[d] = call[d]
        BY <1>2, MovesTo DEF FreeClient
    <2>3. ClientSafe(c)'
        BY <2>1, <2>2
        DEF SessionInv, ClientSafe, MemoryInv, ElementInv, PathsInv, AsConfigured,
        FromElement, Retrieved, Cut, CertificateInv, HasElementId
    <2> QED
        BY <2>1, <2>2, <2>3, OthersKeepSafe DEF SessionInv
<1> QED
    BY <1>1, <1>2

\* Subscriptions, losses, the platform and stuttering open no session.
LEMMA RestKeepsSafe ==
    ASSUME TypeOK, SessionInv,
           \/ \E c \in Clients : subscribeCommand(c) \/ SubscribeGateway(c)
           \/ Network
           \/ UNCHANGED vars
    PROVE  SessionInv'
<1>1. /\ UNCHANGED <<cfg, a71chInited, answered, call>>
      /\ \A d \in Clients : handle'[d] = "up" => handle[d] = "up"
    BY DEF subscribeCommand, SubscribeGateway, Network, PlatformChanges, connlost, CloseSession,
           OrphanLost, vars, memory, session, TypeOK
<1> QED
    BY <1>1, OthersKeepSafe DEF SessionInv

LEMMA NextSafe == TypeOK /\ HostInv /\ SessionInv /\ [Next]_vars => SessionInv'
<1> SUFFICES ASSUME TypeOK, HostInv, SessionInv, [Next]_vars PROVE SessionInv'
    OBVIOUS
<1>1. ASSUME NEW c \in Clients, Step(c) PROVE SessionInv'
    BY <1>1, NeededKeepsSafe, RetrieveKeepsSafe, CreateKeepsSafe, ConnectKeepsSafe,
       DisconnectKeepsSafe DEF Step
<1>2. ASSUME NEW c \in Clients, Application(c) PROVE SessionInv'
    BY <1>2, InitializeKeepsSafe, EnterKeepsSafe, RestKeepsSafe DEF Application
<1> QED
    BY <1>1, <1>2, RestKeepsSafe DEF Next

\* Only a retrieval writes files and marks the element.
LEMMA RetrieveKeepsHost ==
    ASSUME TypeOK, HostInv, NEW c \in Clients, retrieveCertificates(c) PROVE HostInv'
<1> DEFINE given   == cfg[c].cert # NoPath
           certDir == IF given THEN dirname(cfg[c].cert) ELSE DefaultDir
<1>1. certDir \in Path
    BY DirnameTyped, HostAssumption DEF TypeOK
<1>2. \E names \in SUBSET RetrievedNames : Rewrite(certDir, names)
    BY TableNames DEF retrieveCertificates
<1>3. files' \cap Directories = {}
    BY <1>1, <1>2, RewriteTyped DEF HostInv
<1>4. (answered' = answered /\ a71chInited' = a71chInited) \/ a71chInited'
    BY DEF retrieveCertificates, MarkInited
<1> QED
    BY <1>3, <1>4 DEF HostInv

LEMMA NextHost == TypeOK /\ HostInv /\ [Next]_vars => HostInv'
<1> SUFFICES ASSUME TypeOK, HostInv, [Next]_vars PROVE HostInv'
    OBVIOUS
<1>1. CASE \E c \in Clients : retrieveCertificates(c)
    BY <1>1, RetrieveKeepsHost
<1>2. CASE ~\E c \in Clients : retrieveCertificates(c)
    <2>1. UNCHANGED <<files, answered, a71chInited>>
        <3>1. ASSUME NEW c \in Clients, Step(c) PROVE UNCHANGED <<files, answered, a71chInited>>
            BY <1>2, <3>1 DEF Step, CertificatesNeeded, MQTTClient_create, MQTTClient_connect,
                              PublishAgain, DisconnectSession, FreeClient, memory
        <3>2. ASSUME NEW c \in Clients, Application(c)
              PROVE  UNCHANGED <<files, answered, a71chInited>>
            BY <3>2 DEF Application, initialize, connectiotf, disconnect, publishEvent,
                        publishDeviceEvent, publishGatewayEvent, Publish, subscribeCommand,
                        SubscribeGateway, memory
        <3>3. Network \/ UNCHANGED vars => UNCHANGED <<files, answered, a71chInited>>
            BY DEF Network, PlatformChanges, connlost, OrphanLost, vars, memory
        <3> QED
            BY <3>1, <3>2, <3>3 DEF Next
    <2> QED
        BY <2>1 DEF HostInv
<1> QED
    BY <1>1, <1>2

LEMMA SessionsSafe == Spec => []SessionInv
<1>1. Init => TypeOK /\ HostInv /\ SessionInv
    <2>1. Init => HostInv
        BY HostAssumption DEF Init, HostInv
    <2> QED
        BY <2>1, InitTyped, InitSafe
<1>2. TypeOK /\ HostInv /\ SessionInv /\ [Next]_vars => (TypeOK /\ HostInv /\ SessionInv)'
    BY NextTyped, NextHost, NextSafe
<1> QED
    BY <1>1, <1>2, PTL DEF Spec

\* A handle with a session has a live configuration, whatever attempts, losses
\* and disconnects came before: the memory that a callback or a publish of the
\* session would read is not freed.
THEOREM SessionsHaveConfig == Spec => []SessionHasConfig
<1>1. SessionInv => SessionHasConfig
    BY DEF SessionInv, ClientSafe, MemoryInv, SessionHasConfig
<1> QED
    BY <1>1, SessionsSafe, PTL

\* A session stands under the configured id with the configured paths, or under
\* the element's id with the certificate and the key of one retrieval; and under
\* the configured one, if the client asks for the element, only after the
\* element has answered.  No attempt that failed mixes the two, nor leaves a path
\* that dirname cut or that dangles under a session, for any number of clients,
\* retries and threads.
THEOREM SessionsHaveOneIdentity == Spec => []OneIdentity
<1>1. SessionInv => OneIdentity
    BY DEF SessionInv, ClientSafe, ElementInv, PathsInv, OneIdentity
<1> QED
    BY <1>1, SessionsSafe, PTL

\* A client with the element's id has the path of the certificate for its kind
\* where a retrieval that returned the id was to store it, however often and from
\* however many threads retrievals fail, each of them cutting the configured
\* path; its key is there too, or dangles.
THEOREM CertificateStored == Spec => []CertificateWhereStored
<1>1. SessionInv => CertificateWhereStored
    BY DEF SessionInv, ClientSafe, CertificateInv, HasElementId, Retrieved,
           CertificateWhereStored
<1> QED
    BY <1>1, SessionsSafe, PTL

-----------------------------------------------------------------------------
(* Identities.  The platform tells clients apart by their ids.             *)

\* Clients of one kind are configured with ids of their own, if with any, and
\* not with that of an element which another one asks.
DistinctIds ==
    \A c, d \in Clients : c # d /\ Configured(c).gateway = Configured(d).gateway =>
        /\ Configured(c).id = Configured(d).id => Configured(c).id = NoId
        /\ Configured(c).se => Configured(d).id # UID

\* A client's id is configured or the element's; it asks the element while
\* nobody else has had an answer; and it connects with an id.
IdInv(c) ==
    /\ \/ cfg[c].id \in {NoId, Configured(c).id}
       \/ cfg[c].id = UID /\ a71chInited /\ Configured(c).se
    /\ At(c, "extract") => Configured(c).se /\ ~a71chInited
    /\ At(c, "connect") => cfg[c].id # NoId

OneCall  == \A c, d \in Clients : c # d => call[c] = NoCall \/ call[d] = NoCall
IdsApart == \A c, d \in Clients : c # d /\ clientId(c) = clientId(d) => cfg[c].id = NoId
IdentityInv == OneCall /\ IdsApart /\ \A c \in Clients : IdInv(c)

LEMMA InitApart == Init => IdentityInv
BY DEF Init, NoCall, IdentityInv, OneCall, IdsApart, IdInv

\* One thread is in one call at a time: while the library goes on for one
\* client, and while the application starts a call, the others are idle.
LEMMA OthersIdle ==
    ASSUME TypeOK, OneCall, ~Threaded, NEW c \in Clients, Step(c) \/ Application(c)
    PROVE  /\ \A d \in Clients \ {c} : call[d] = NoCall /\ call'[d] = NoCall
           /\ OneCall'
<1>1. \A d \in Clients \ {c} : call[d] = NoCall
    <2>1. CASE Step(c)
        <3>1. call[c] # NoCall
            <4>1. call[c].pc # "start"
                BY <2>1 DEF Step, CertificatesNeeded, retrieveCertificates, MQTTClient_create,
                            MQTTClient_connect, PublishAgain, DisconnectSession, FreeClient
            <4> QED
                BY <4>1 DEF NoCall
        <3> QED
            BY <3>1 DEF OneCall
    <2>2. CASE Application(c)
        BY <2>2 DEF Application, initialize, connectiotf, disconnect, publishEvent,
                    publishDeviceEvent, publishGatewayEvent, Publish, subscribeCommand,
                    SubscribeGateway, Usable, Ready
    <2> QED
        BY <2>1, <2>2
<1>2. \A d \in Clients \ {c} : call'[d] = call[d]
    <2>1. CASE Step(c)
        BY <2>1, MovesTo DEF Step, CertificatesNeeded, retrieveCertificates, ExtractionFails,
                             MQTTClient_create, MQTTClient_connect, PublishAgain,
                             DisconnectSession, FreeClient
    <2>2. CASE Application(c)
        BY <2>2, MovesTo DEF Application, initialize, connectiotf, disconnect, publishEvent,
                             publishDeviceEvent, publishGatewayEvent, Publish,
                             subscribeCommand, SubscribeGateway
    <2> QED
        BY <2>1, <2>2
<1> QED
    BY <1>1, <1>2 DEF OneCall

\* Steps that give nobody another id, and bring no call to a step that asks
\* something of the id.
LEMMA SameIdsApart ==
    ASSUME IdentityInv, OneCall', a71chInited' = a71chInited,
           \A d \in Clients : cfg'[d].id = cfg[d].id,
           \A d \in Clients : At(d, "extract")' => Configured(d).se /\ ~a71chInited,
           \A d \in Clients : At(d, "connect")' => cfg[d].id # NoId
    PROVE  IdentityInv'
BY DEF IdentityInv, IdsApart, IdInv, clientId

LEMMA StepApart ==
    ASSUME TypeOK, IdentityInv, ~Threaded, NEW c \in Clients,
           \/ CertificatesNeeded(c) \/ MQTTClient_create(c) \/ MQTTClient_connect(c)
           \/ PublishAgain(c) \/ DisconnectSession(c) \/ FreeClient(c),
           Step(c)
    PROVE  IdentityInv'
<1>1. OneCall' /\ \A d \in Clients \ {c} : call'[d] = NoCall
    BY OthersIdle DEF IdentityInv
<1>2. a71chInited' = a71chInited /\ \A d \in Clients : cfg'[d].id = cfg[d].id
    <2>1. CASE FreeClient(c)
        <3>1. cfg' = [cfg EXCEPT ![c].mem = "freed"] /\ cfg \in [Clients -> Memory]
            BY <2>1 DEF FreeClient, freeConfig, TypeOK, Memory
        <3> QED
            BY <2>1, <3>1 DEF FreeClient, Memory
    <2>2. CASE ~FreeClient(c)
        BY <2>2 DEF CertificatesNeeded, MQTTClient_create, MQTTClient_connect, PublishAgain,
                    DisconnectSession, memory
    <2> QED
        BY <2>1, <2>2
<1>3. /\ At(c, "extract")' => Configured(c).se /\ ~a71chInited
      /\ At(c, "connect")' => cfg[c].id # NoId
    <2>1. CASE CertificatesNeeded(c)
        BY <2>1, MovesTo DEF CertificatesNeeded
    <2>2. CASE MQTTClient_create(c)
        BY <2>2, MovesTo DEF MQTTClient_create
    <2>3. CASE MQTTClient_connect(c) \/ PublishAgain(c) \/ DisconnectSession(c) \/ FreeClient(c)
        BY <2>3, MovesTo DEF MQTTClient_connect, PublishAgain, DisconnectSession, FreeClient
    <2> QED
        BY <2>1, <2>2, <2>3
<1> QED
    BY <1>1, <1>2, <1>3, SameIdsApart DEF NoCall

\* The element answers once, and nobody else has its id then.
LEMMA RetrieveApart ==
    ASSUME TypeOK, IdentityInv, ~Threaded, DistinctIds, NEW c \in Clients,
           retrieveCertificates(c), Step(c)
    PROVE  IdentityInv'
<1> DEFINE given   == cfg[c].cert # NoPath
           certDir == IF given THEN dirname(cfg[c].cert) ELSE DefaultDir
<1>1. /\ cfg \in [Clients -> Memory] /\ cfg[c] \in Memory /\ ~a71chInited /\ Configured(c).se
      /\ \A d \in Clients : cfg[d].id \in {NoId, Configured(d).id}
    BY DEF retrieveCertificates, TypeOK, Memory, IdentityInv, IdInv
<1>2. OneCall' /\ \A d \in Clients \ {c} : call'[d] = NoCall
    BY OthersIdle DEF IdentityInv
<1>3. CASE cfg' = [cfg EXCEPT ![c].cert = IF given THEN certDir ELSE NoPath]
           /\ Rewrite(certDir, Table) /\ ExtractionFails(c)
           /\ UNCHANGED <<a71chInited, answered>>
    <2>1. \A d \in Clients : cfg'[d].id = cfg[d].id
        BY <1>1, <1>3 DEF Memory
    <2>2. call'[c].pc \in {"start", "retrieve"}
        BY <1>3, MovesTo DEF ExtractionFails
    <2> QED
        BY <1>2, <1>3, <2>1, <2>2, SameIdsApart DEF NoCall
<1>4. ASSUME NEW paths \in RetrievedPaths(c, certDir),
             cfg' = [cfg EXCEPT ![c].id = UID, ![c].cert = paths[1], ![c].key = paths[2]],
             Rewrite(certDir, Table \cup {"ref_key"}), answered' = answered \cup {certDir},
             MarkInited, Goto(c, "create")
      PROVE  IdentityInv'
    <2>1. cfg'[c].id = UID /\ \A d \in Clients \ {c} : cfg'[d] = cfg[d]
        BY <1>1, <1>4 DEF Memory
    <2>2. a71chInited' /\ call'[c].pc = "create"
        BY <1>4, MovesTo DEF MarkInited
    <2>3. \A d \in Clients : IdInv(d)'
        BY <1>1, <1>2, <2>1, <2>2 DEF IdInv, NoCall
    <2>4. IdsApart'
        BY <1>1, <2>1 DEF IdentityInv, IdsApart, clientId, DistinctIds
    <2> QED
        BY <1>2, <2>3, <2>4 DEF IdentityInv
<1> QED
    BY <1>3, <1>4 DEF retrieveCertificates

\* A configuration brings an id that no other client has.
LEMMA InitializeApart ==
    ASSUME TypeOK, IdentityInv, ~Threaded, DistinctIds, NEW c \in Clients,
           initialize(c), Application(c)
    PROVE  IdentityInv'
<1>1. OneCall'
    BY OthersIdle DEF IdentityInv
<1>2. /\ cfg'[c].id = Configured(c).id /\ \A d \in Clients \ {c} : cfg'[d] = cfg[d]
      /\ UNCHANGED <<a71chInited, call>> /\ call[c] = NoCall
    BY DEF initialize, Ready, TypeOK
<1>3. \A d \in Clients : IdInv(d)'
    BY <1>2 DEF IdentityInv, IdInv, NoCall
<1>4. IdsApart'
    BY <1>2 DEF IdentityInv, IdsApart, IdInv, clientId, DistinctIds
<1> QED
    BY <1>1, <1>3, <1>4 DEF IdentityInv

LEMMA NextApart ==
    ASSUME ~Threaded, DistinctIds, TypeOK, IdentityInv, [Next]_vars
    PROVE  IdentityInv'
<1>1. ASSUME NEW c \in Clients, Step(c) PROVE IdentityInv'
    BY <1>1, StepApart, RetrieveApart DEF Step
<1>2. ASSUME NEW c \in Clients, Application(c), ~initialize(c) PROVE IdentityInv'
    <2>1. OneCall' /\ \A d \in Clients \ {c} : call'[d] = call[d]
        BY <1>2, OthersIdle DEF IdentityInv
    <2>2. UNCHANGED <<cfg, a71chInited>>
        BY <1>2 DEF Application, connectiotf, disconnect, publishEvent, publishDeviceEvent,
                    publishGatewayEvent, Publish, subscribeCommand, SubscribeGateway, memory
    <2>3. call'[c] = call[c] \/ call'[c].pc \in {"retrieve", "disconnect"}
        BY <1>2, MovesTo DEF Application, connectiotf, disconnect, publishEvent,
                             publishDeviceEvent, publishGatewayEvent, Publish,
                             subscribeCommand, SubscribeGateway
    <2> QED
        BY <2>1, <2>2, <2>3, SameIdsApart DEF IdentityInv, IdInv
<1>3. CASE Network \/ UNCHANGED vars
    <2>1. UNCHANGED <<cfg, a71chInited, call>>
        BY <1>3 DEF Network, PlatformChanges, connlost, OrphanLost, vars, memory
    <2> QED
        BY <2>1, SameIdsApart DEF IdentityInv, IdInv, OneCall
<1> QED
    BY <1>1, <1>2, <1>3, InitializeApart DEF Next, Application

\* A connect goes ahead under an id that no other client has, so that the
\* platform closes no other session of the process for it.
LEMMA ConnectStealsNothing ==
    ASSUME TypeOK, IdentityInv, [Next]_vars, NEW c \in Clients, NEW d \in Clients, c # d,
           At(c, "connect"), call'[c] # call[c], Up(d)
    PROVE  handle'[d] = "up"
<1>1. MQTTClient_connect(c)
    <2>1. ASSUME NEW e \in Clients, Step(e) PROVE e = c
        BY <2>1, MovesTo DEF Step, CertificatesNeeded, retrieveCertificates, ExtractionFails,
                             MQTTClient_create, MQTTClient_connect, PublishAgain,
                             DisconnectSession, FreeClient
    <2>2. ASSUME NEW e \in Clients, Application(e) PROVE FALSE
        <3>1. call'[c] = call[c] \/ (e = c /\ call[e] = NoCall)
            BY <2>2, MovesTo DEF Application, initialize, connectiotf, disconnect, publishEvent,
                                 publishDeviceEvent, publishGatewayEvent, Publish, Usable, Ready,
                                 subscribeCommand, SubscribeGateway
        <3> QED
            BY <3>1 DEF NoCall
    <2>3. ~Network /\ ~UNCHANGED vars
        BY DEF Network, PlatformChanges, connlost, OrphanLost, vars
    <2>4. Step(c)
        BY <2>1, <2>2, <2>3 DEF Next
    <2> QED
        BY <2>4 DEF Step, CertificatesNeeded, retrieveCertificates, MQTTClient_create,
                    PublishAgain, DisconnectSession, FreeClient
<1>2. clientId(d) # clientId(c)
    BY DEF IdentityInv, IdsApart, IdInv
<1> QED
    BY <1>1, <1>2 DEF MQTTClient_connect, TypeOK

\* A client that connects takes no session from another client of its process,
\* if one thread drives them and their configured ids differ: the element's id
\* is given to one client, through all retries, disconnects and second lives.
\* (With a thread each, two clients may find a71chInited unset together.)
THEOREM NoSessionTaken ==
    ASSUME ~Threaded, DistinctIds
    PROVE  Spec => NoSessionStolen
<1>1. Init => TypeOK /\ IdentityInv
    BY InitTyped, InitApart
<1>2. TypeOK /\ IdentityInv /\ [Next]_vars => (TypeOK /\ IdentityInv)'
    BY NextTyped, NextApart
<1>3. TypeOK /\ IdentityInv /\ [Next]_vars
      => [\A c, d \in Clients : c # d /\ At(c, "connect") /\ call'[c] # call[c]
            => (Up(d) => handle'[d] = "up")]_vars
    BY ConnectStealsNothing
<1> QED
    BY <1>1, <1>2, <1>3, PTL DEF Spec, NoSessionStolen
=============================================================================
