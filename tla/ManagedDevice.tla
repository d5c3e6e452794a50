---------------------------- MODULE ManagedDevice ----------------------------
(***************************************************************************)
(* Device management: src/src/manageddevice.c, driven by the message       *)
(* callback of src/src/iotfclient.c.                                       *)
(*                                                                         *)
(* Two threads share the globals currentRequestID, dmClient and the        *)
(* handler pointers without a lock: the application thread "app", which    *)
(* calls manage, unmanage, changeState..., and the callback thread "net"   *)
(* of the MQTT library, which runs messageArrived for one message after    *)
(* the other.  A step of a thread reads or writes one shared variable.     *)
(*                                                                         *)
(* Request ids are copied with strcpy, which is not atomic: an id has two  *)
(* halves, and a copy writes them one at a time in either order.           *)
(*                                                                         *)
(* Left out: the members of dmClient that no code reads (firmware name,    *)
(* url, version, verifier, updateStatus, ...), message texts and logging.  *)
(***************************************************************************)
EXTENDS Integers, Sequences

CONSTANTS
    AppIds,        \* ids generateUUID can return to manage and unmanage
    PlatformIds,   \* ids the platform gives to its own requests
    NoId,          \* the empty string currentRequestID starts with
    Requests,      \* the requests the platform may send
    ArgPassing,    \* how messageArrived's five arguments reach the four
                   \* parameters of messageArrived_dm: "matched", "shifted"
    HandlerCalls,  \* the <<handler, set or clear>> calls the application makes
    ActionCodes,   \* the codes the application passes to changeState
    ReportedStates,\* ... and the states to changeFirmwareDownloadState
    MaxInbox       \* bound on the messages in flight to the device

Threads  == {"app", "net"}
Halves   == {"lo", "hi"}
Ids      == AppIds \cup PlatformIds \cup {NoId}
Handlers == {"dm", "reboot", "factory_reset", "download", "firmware_update"}

IDLE        == 0
DOWNLOADING == 1
DOWNLOADED  == 2
FirmwareStates == {IDLE, DOWNLOADING, DOWNLOADED}

RequestKinds == {"update", "observe", "cancel", "reboot", "factory_reset",
                 "download", "firmware_update", "other"}
Field   == [name : {"location", "mgmt.firmware", "unsupported"},
            state : FirmwareStates]
Message == [kind : RequestKinds \cup {"response", "none"}, req : Ids,
            payload : {"json", "malformed", "shifted"}, fields : Seq(Field)]

ASSUME IdsAssumption ==
    AppIds \cap PlatformIds = {} /\ NoId \notin AppIds \cup PlatformIds

\* Every request of the platform has an id of its own.
ASSUME RequestsAssumption ==
    /\ Requests \subseteq {m \in Message : /\ m.kind \in RequestKinds
                                           /\ m.req \in PlatformIds}
    /\ \A m1, m2 \in Requests : m1.req = m2.req => m1 = m2

ASSUME EnvironmentAssumption ==
    /\ ArgPassing \subseteq {"matched", "shifted"}
    /\ HandlerCalls \subseteq Handlers \X BOOLEAN
    /\ ActionCodes \subseteq {202, 500, 501} /\ ReportedStates \subseteq FirmwareStates
    /\ MaxInbox \in Nat

VARIABLES
    currentRequestID,  \* the shared id, one value per half
    dmClient,          \* bObserve, DeviceData.mgmt.firmware.state, client # NULL
    managed,           \* client->managed
    interrupt,         \* the library's global
    handler,           \* which of the dmcb pointers are not NULL
    frame,             \* per thread: the call it is executing and its locals
    crash,             \* "none", or the pointer whose use ended the process
    connected, subscribed, enrolled,  \* session, "iotdm-1/#", platform's view
    inbox,             \* messages in flight to messageArrived
    issued, taken, called, sent       \* history: ids, messages, callbacks, publishes

devVars  == <<currentRequestID, dmClient, interrupt>>
appVars  == <<managed, handler, issued>>
linkVars == <<connected, subscribed, enrolled>>
vars == <<devVars, appVars, linkVars, frame, crash, inbox, taken, called, sent>>

-----------------------------------------------------------------------------
Whole(id) == [h \in Halves |-> id]

NoMessage == [kind |-> "none", req |-> NoId, payload |-> "json", fields |-> <<>>]
Response(id) == [NoMessage EXCEPT !.kind = "response", !.req = id]

Idle == [op |-> "none", pc |-> "start", msg |-> NoMessage, id |-> Whole(NoId),
         left |-> {}, i |-> 1, rc |-> 0, cb |-> "none"]

\* dmClient after memset.
Cleared == [bObserve |-> FALSE, state |-> IDLE, client |-> FALSE]

Init ==
    /\ currentRequestID = Whole(NoId) /\ dmClient = Cleared /\ interrupt = FALSE
    /\ managed = FALSE /\ handler = [h \in Handlers |-> FALSE] /\ issued = {}
    /\ connected = TRUE /\ subscribed = FALSE /\ enrolled = FALSE
    /\ frame = [t \in Threads |-> Idle] /\ crash = "none"
    /\ inbox = <<>> /\ taken = {} /\ called = {} /\ sent = {}

-----------------------------------------------------------------------------
(* Moves of a thread inside a call.                                        *)

app == frame["app"]
net == frame["net"]

At(t, op, pc) == frame[t].op = op /\ frame[t].pc = pc
Move(t, f)    == frame' = [frame EXCEPT ![t] = f]
Goto(t, pc)   == Move(t, [frame[t] EXCEPT !.pc = pc])
Return(t)     == Move(t, Idle)

NextField_Stuck(t) == Move(t, [frame[t] EXCEPT !.pc = "loop"])
NextField(t) == Move(t, [frame[t] EXCEPT !.pc = "loop", !.i = @ + 1])

\* Start of strcpy(currentRequestID, id).
BeginCopy_Uninitialised(t, id) ==
    Move(t, [frame[t] EXCEPT !.pc = "copy", !.id = Whole("garbage"), !.left = Halves])
BeginCopy_ShortDownload(t, id) ==
    Move(t, [frame[t] EXCEPT !.pc = "copy", !.id = Whole(id),
               !.left = IF frame[t].op = "download" THEN {"lo"} ELSE Halves])
BeginCopy(t, id) ==
    Move(t, [frame[t] EXCEPT !.pc = "copy", !.id = Whole(id), !.left = Halves])

\* strcpy(currentRequestID, id): one half per step.
CopyRequestID(t) ==
    /\ frame[t].pc = "copy"
    /\ \E h \in frame[t].left :
         /\ currentRequestID' = [currentRequestID EXCEPT ![h] = frame[t].id[h]]
         /\ Move(t, [frame[t] EXCEPT !.left = @ \ {h},
                      !.pc = IF frame[t].left = {h} THEN "copied" ELSE "copy"])
    /\ UNCHANGED <<dmClient, interrupt, appVars, linkVars, crash, inbox,
                   taken, called, sent>>

\* sprintf of a message that carries currentRequestID.
FormatMessage(t) ==
    /\ frame[t].pc = "format"
    /\ Move(t, [frame[t] EXCEPT !.id = currentRequestID, !.pc = "send"])
    /\ UNCHANGED <<devVars, appVars, linkVars, crash, inbox, taken, called, sent>>

Publication(t, topic) ==
    [topic |-> topic, op |-> frame[t].op, req |-> frame[t].msg.req,
     id |-> frame[t].id, rc |-> frame[t].rc]

\* publishData(client, ...), whose return code the caller ignores: a NULL
\* client is dereferenced, a publish without a session fails.
PublishIgnoringRc(t, topic) ==
    IF dmClient.client
    THEN /\ \/ connected /\ sent' = sent \cup {Publication(t, topic)}
            \/ UNCHANGED sent
         /\ UNCHANGED crash
    ELSE crash' = "client" /\ UNCHANGED sent

-----------------------------------------------------------------------------
(* The callback thread: the handlers of platform messages.                 *)

\* messageArrived hands the next message to messageArrived_dm, which selects
\* the handler.  "shifted": the fifth argument does not exist for the callee,
\* so its payload parameter holds topicLen.
messageArrived_dm ==
    /\ net.op = "none" /\ inbox # <<>>
    /\ \E passing \in ArgPassing :
         Move("net", IF Head(inbox).kind = "other" THEN Idle
                     ELSE [Idle EXCEPT !.op = Head(inbox).kind,
                             !.msg = IF passing = "matched" THEN Head(inbox)
                                     ELSE [Head(inbox) EXCEPT !.payload = "shifted"]])
    /\ inbox' = Tail(inbox) /\ taken' = taken \cup {Head(inbox)}
    /\ UNCHANGED <<devVars, appVars, linkVars, crash, called, sent>>

\* Parsing the payload and starting to copy its reqId: a payload pointer that
\* is not one, or a payload without a reqId, is dereferenced.
ParseRequestID_RebootOnly ==
    IF net.msg.payload = "json"
    THEN /\ IF net.op = "reboot" THEN BeginCopy("net", net.msg.req) ELSE Goto("net", "copied")
         /\ UNCHANGED crash
    ELSE crash' = "payload" /\ UNCHANGED frame
ParseRequestID ==
    IF net.msg.payload = "json"
    THEN BeginCopy("net", net.msg.req) /\ UNCHANGED crash
    ELSE crash' = "payload" /\ UNCHANGED frame

\* A request answered with 202 is acted on.
AfterAnswer_Unchecked == Goto("net", "check")
AfterAnswer == IF net.rc = 202 THEN Goto("net", "check") ELSE Return("net")

messageFirmwareDownload ==
    /\ \/ At("net", "download", "start") /\ ParseRequestID /\ UNCHANGED sent
       \/ /\ At("net", "download", "copied")
          /\ Move("net", [net EXCEPT !.pc = "format", !.cb = "download",
                            !.rc = IF dmClient.state # IDLE THEN 400 ELSE 202])
          /\ UNCHANGED <<crash, sent>>
       \/ /\ At("net", "download", "send")
          /\ PublishIgnoringRc("net", "RESPONSE")
          /\ AfterAnswer
    /\ UNCHANGED <<devVars, appVars, linkVars, inbox, taken, called>>

FirmwareUpdateCode_NotIdle == IF dmClient.state = IDLE THEN 400 ELSE 202
FirmwareUpdateCode == IF dmClient.state # DOWNLOADED THEN 400 ELSE 202

messageFirmwareUpdate ==
    /\ \/ /\ At("net", "firmware_update", "start")
          /\ Move("net", [net EXCEPT !.pc = "format", !.cb = "firmware_update",
                            !.rc = FirmwareUpdateCode])
          /\ UNCHANGED <<crash, sent>>
       \/ /\ At("net", "firmware_update", "send")
          /\ PublishIgnoringRc("net", "RESPONSE")
          /\ AfterAnswer
    /\ UNCHANGED <<devVars, appVars, linkVars, inbox, taken, called>>

\* The request is not parsed and dmClient.bObserve is not set.
messageObserve ==
    /\ \/ /\ At("net", "observe", "start")
          /\ Move("net", [net EXCEPT !.pc = "format", !.rc = 200])
          /\ UNCHANGED <<crash, sent>>
       \/ /\ At("net", "observe", "send")
          /\ PublishIgnoringRc("net", "RESPONSE")
          /\ Return("net")
    /\ UNCHANGED <<devVars, appVars, linkVars, inbox, taken, called>>

AtField(op, pc) == At("net", op, pc) /\ net.i \in 1 .. Len(net.msg.fields)
field == net.msg.fields[net.i]

\* One answer for every "mgmt.firmware" among the fields.
messageCancel ==
    /\ \/ At("net", "cancel", "start") /\ ParseRequestID /\ UNCHANGED <<dmClient, sent>>
       \/ /\ At("net", "cancel", "copied") /\ Goto("net", "loop")
          /\ UNCHANGED <<dmClient, crash, sent>>
       \/ /\ AtField("cancel", "loop")
          /\ IF field.name = "mgmt.firmware"
             THEN /\ dmClient' = [dmClient EXCEPT !.bObserve = FALSE]
                  /\ Move("net", [net EXCEPT !.pc = "format", !.rc = 200])
             ELSE NextField("net") /\ UNCHANGED dmClient
          /\ UNCHANGED <<crash, sent>>
       \/ /\ At("net", "cancel", "loop") /\ net.i > Len(net.msg.fields)
          /\ Return("net") /\ UNCHANGED <<dmClient, crash, sent>>
       \/ /\ At("net", "cancel", "send")
          /\ PublishIgnoringRc("net", "RESPONSE")
          /\ NextField("net") /\ UNCHANGED dmClient
    /\ UNCHANGED <<currentRequestID, interrupt, appVars, linkVars, inbox, taken, called>>

\* updateLocationRequest: the location is published back to the platform.
updateLocationRequest ==
    /\ field.name = "location" /\ Goto("net", "format") /\ UNCHANGED dmClient

\* updateFirmwareRequest: the state is stored, then answered with 204.
updateFirmwareRequest_FirstOnly ==
    /\ field.name = "mgmt.firmware"
    /\ dmClient' = [dmClient EXCEPT !.state = IF @ = IDLE THEN field.state ELSE @]
    /\ Move("net", [net EXCEPT !.pc = "format", !.rc = 204])
updateFirmwareRequest ==
    /\ field.name = "mgmt.firmware"
    /\ dmClient' = [dmClient EXCEPT !.state = field.state]
    /\ Move("net", [net EXCEPT !.pc = "format", !.rc = 204])

messageUpdate ==
    /\ \/ /\ At("net", "update", "start")
          /\ IF net.msg.payload = "malformed"
             THEN Return("net") /\ UNCHANGED crash
             ELSE ParseRequestID
          /\ UNCHANGED <<dmClient, sent>>
       \/ /\ At("net", "update", "copied") /\ Goto("net", "loop")
          /\ UNCHANGED <<dmClient, crash, sent>>
       \/ /\ AtField("update", "loop")
          /\ \/ updateLocationRequest
             \/ updateFirmwareRequest
             \/ field.name = "unsupported" /\ NextField("net") /\ UNCHANGED dmClient
          /\ UNCHANGED <<crash, sent>>
       \/ /\ At("net", "update", "loop") /\ net.i > Len(net.msg.fields)
          /\ Return("net") /\ UNCHANGED <<dmClient, crash, sent>>
       \/ /\ AtField("update", "send")
          /\ PublishIgnoringRc("net", IF field.name = "location" THEN "UPDATE_LOCATION"
                                                                 ELSE "RESPONSE")
          /\ NextField("net") /\ UNCHANGED dmClient
    /\ UNCHANGED <<currentRequestID, interrupt, appVars, linkVars, inbox, taken, called>>

messageResponse ==
    /\ \/ /\ At("net", "response", "start")
          /\ IF ~handler["dm"] THEN Return("net") /\ UNCHANGED crash
             ELSE IF net.msg.payload = "json"
             THEN Goto("net", "match") /\ UNCHANGED crash
             ELSE crash' = "payload" /\ UNCHANGED frame
          /\ UNCHANGED interrupt
       \/ /\ At("net", "response", "match")
          /\ IF currentRequestID = Whole(net.msg.req)
             THEN /\ interrupt' = TRUE
                  /\ Move("net", [net EXCEPT !.pc = "call", !.cb = "dm"])
             ELSE Return("net") /\ UNCHANGED interrupt
          /\ UNCHANGED crash
    /\ UNCHANGED <<currentRequestID, dmClient, appVars, linkVars, inbox, taken, called, sent>>

\* Reboot and factory reset.  Without any of the two handlers the request is
\* neither read nor answered.
messageForAction ==
    /\ net.op \in {"reboot", "factory_reset"}
    /\ \/ /\ net.pc = "start"
          /\ IF handler["reboot"] \/ handler["factory_reset"]
             THEN ParseRequestID
             ELSE Return("net") /\ UNCHANGED crash
       \/ /\ net.pc = "copied"
          /\ IF net.op = "reboot" /\ handler["reboot"]
             THEN Move("net", [net EXCEPT !.pc = "call", !.cb = "reboot"])
             ELSE Move("net", [net EXCEPT !.pc = "check", !.cb = "factory_reset"])
          /\ UNCHANGED crash
    /\ UNCHANGED <<devVars, appVars, linkVars, inbox, taken, called, sent>>

\* if (dmcb... != 0) (*dmcb...)(...): the pointer is read twice.
InvokeCallback ==
    /\ \/ /\ net.pc = "check"
          /\ IF handler[net.cb] THEN Goto("net", "call") ELSE Return("net")
          /\ UNCHANGED <<crash, called>>
       \/ /\ net.pc = "call"
          /\ IF handler[net.cb]
             THEN /\ called' = called \cup {[cb |-> net.cb, op |-> net.op, req |-> net.msg.req]}
                  /\ Goto("net", "callback") /\ UNCHANGED crash
             ELSE crash' = "callback" /\ UNCHANGED <<frame, called>>
    /\ UNCHANGED <<devVars, appVars, linkVars, inbox, taken, sent>>

\* The application's callback returns.
CallbackReturns ==
    /\ net.pc = "callback" /\ Return("net")
    /\ UNCHANGED <<devVars, appVars, linkVars, crash, inbox, taken, called, sent>>

-----------------------------------------------------------------------------
(* The application thread.                                                 *)

\* generateUUID, then strcpy to currentRequestID.
BeginRequest(op) ==
    /\ app.op = "none"
    /\ \E id \in AppIds \ issued :
         /\ issued' = issued \cup {id}
         /\ Move("app", [Idle EXCEPT !.op = op, !.pc = "copy",
                                      !.id = Whole(id), !.left = Halves])

\* memset(&dmClient, 0, sizeof(dmClient))
ClearDevice_DataOnly == dmClient' = [dmClient EXCEPT !.bObserve = FALSE, !.state = IDLE]
ClearDevice == dmClient' = Cleared

\* dmClient.client = client
StoreClient_Omitted == UNCHANGED dmClient
StoreClient == dmClient' = [dmClient EXCEPT !.client = TRUE]

\* subscribeTopic's return code is overwritten by publishData's; the first
\* message of the platform can arrive before dmClient.client is set.
manage ==
    /\ \/ /\ ~managed /\ BeginRequest("manage")
          /\ UNCHANGED <<dmClient, managed, subscribed, enrolled, sent>>
       \/ /\ At("app", "manage", "copied") /\ Goto("app", "send")
          /\ \/ connected /\ subscribed' = TRUE
             \/ UNCHANGED subscribed
          /\ UNCHANGED <<dmClient, managed, issued, enrolled, sent>>
       \/ /\ At("app", "manage", "send")
          /\ \/ /\ connected /\ managed' = TRUE /\ Goto("app", "memset")
                /\ sent' = sent \cup {Publication("app", "MANAGE")}
                /\ enrolled' \in {enrolled, TRUE}
             \/ Return("app") /\ UNCHANGED <<managed, enrolled, sent>>
          /\ UNCHANGED <<dmClient, issued, subscribed>>
       \/ /\ At("app", "manage", "memset") /\ Goto("app", "client")
          /\ ClearDevice
          /\ UNCHANGED <<managed, issued, subscribed, enrolled, sent>>
       \/ /\ At("app", "manage", "client") /\ Return("app")
          /\ StoreClient
          /\ UNCHANGED <<managed, issued, subscribed, enrolled, sent>>
    /\ UNCHANGED <<currentRequestID, interrupt, handler, connected, crash,
                   inbox, taken, called>>

unmanage ==
    /\ \/ /\ managed /\ BeginRequest("unmanage")
          /\ UNCHANGED <<dmClient, managed, enrolled, sent>>
       \/ /\ At("app", "unmanage", "copied")
          /\ \/ /\ connected /\ Goto("app", "memset")
                /\ sent' = sent \cup {Publication("app", "UNMANAGE")}
                /\ enrolled' \in {enrolled, FALSE}
             \/ Return("app") /\ UNCHANGED <<enrolled, sent>>
          /\ UNCHANGED <<dmClient, managed, issued>>
       \/ /\ At("app", "unmanage", "memset") /\ Goto("app", "unmark")
          /\ ClearDevice
          /\ UNCHANGED <<managed, issued, enrolled, sent>>
       \/ /\ At("app", "unmanage", "unmark") /\ Return("app")
          /\ managed' = FALSE
          /\ UNCHANGED <<dmClient, issued, enrolled, sent>>
    /\ UNCHANGED <<currentRequestID, interrupt, handler, connected, subscribed,
                   crash, inbox, taken, called>>

\* A callback reports from the callback thread, at most once, the application
\* from its own thread, once a callback asked it to.
CanReport(t, cbs) ==
    \/ t = "app" /\ app.op = "none" /\ \E c \in called : c.cb \in cbs
    \/ t = "net" /\ net.pc = "callback" /\ net.cb \in cbs

publishActionResponse(t, topic) ==
    PublishIgnoringRc(t, topic) /\ Return(t)

changeState(t) ==
    /\ \/ /\ CanReport(t, {"reboot", "factory_reset"})
          /\ \E rc \in ActionCodes :
               Move(t, [frame[t] EXCEPT !.op = "changeState", !.pc = "format",
                                        !.rc = rc])
          /\ UNCHANGED <<crash, sent>>
       \/ At(t, "changeState", "send") /\ publishActionResponse(t, "RESPONSE")
    /\ UNCHANGED <<devVars, appVars, linkVars, inbox, taken, called>>

\* What the two functions that report a firmware state share: op is the
\* function, new the dmClient that it stores if the state is observed.
NotifyIfObserved(t, op, new) ==
    \/ /\ At(t, op, "start")
       /\ IF dmClient.bObserve
          THEN dmClient' = new /\ Goto(t, "send")
          ELSE Return(t) /\ UNCHANGED dmClient
       /\ UNCHANGED <<crash, sent>>
    \/ /\ At(t, op, "send") /\ publishActionResponse(t, "NOTIFY")
       /\ UNCHANGED dmClient

changeFirmwareDownloadState(t) ==
    /\ \/ /\ CanReport(t, {"download"})
          /\ \E state \in ReportedStates :
               Move(t, [frame[t] EXCEPT !.op = "changeFirmwareDownloadState",
                                        !.pc = "start", !.rc = state])
          /\ UNCHANGED <<dmClient, crash, sent>>
       \/ NotifyIfObserved(t, "changeFirmwareDownloadState",
                           [dmClient EXCEPT !.state = frame[t].rc])
    /\ UNCHANGED <<currentRequestID, interrupt, appVars, linkVars, inbox, taken, called>>

\* Stores updateStatus, which no code reads.
changeFirmwareUpdateState(t) ==
    /\ \/ /\ CanReport(t, {"firmware_update"})
          /\ Move(t, [frame[t] EXCEPT !.op = "changeFirmwareUpdateState",
                                       !.pc = "start"])
          /\ UNCHANGED <<dmClient, crash, sent>>
       \/ NotifyIfObserved(t, "changeFirmwareUpdateState", dmClient)
    /\ UNCHANGED <<currentRequestID, interrupt, appVars, linkVars, inbox, taken, called>>

Register(h) ==
    /\ app.op = "none"
    /\ \E set \in BOOLEAN : /\ <<h, set>> \in HandlerCalls /\ handler[h] # set
                            /\ handler' = [handler EXCEPT ![h] = set]
    /\ UNCHANGED <<devVars, managed, issued, linkVars, frame, crash, inbox,
                   taken, called, sent>>

setDMCommandHandler        == Register("dm")
setRebootHandler           == Register("reboot")
setFactoryResetHandler     == Register("factory_reset")
setFirmwareDownloadHandler == Register("download")
setFirmwareUpdateHandler   == Register("firmware_update")

\* publishEvent without a session runs retry_connection: a new clean session,
\* in which "iotdm-1/#" is not subscribed.
publishEvent ==
    /\ app.op = "none" /\ ~connected
    /\ connected' = TRUE /\ subscribed' = FALSE
    /\ UNCHANGED <<devVars, appVars, enrolled, frame, crash, inbox, taken, called, sent>>

-----------------------------------------------------------------------------
(* The platform and the network.                                           *)

InFlight == {inbox[i] : i \in 1 .. Len(inbox)}

\* The platform sends its requests to a device it believes managed, and
\* answers the manage and unmanage requests.
PlatformSends ==
    /\ connected /\ subscribed /\ Len(inbox) < MaxInbox
    /\ \E m \in (IF enrolled THEN Requests ELSE {})
                  \cup {Response(a.id["lo"]) : a \in {p \in sent : p.topic \in {"MANAGE", "UNMANAGE"}}} :
         /\ m \notin taken \cup InFlight
         /\ inbox' = Append(inbox, m)
    /\ UNCHANGED <<devVars, appVars, linkVars, frame, crash, taken, called, sent>>

\* connlost only logs; the messages not yet received are lost.
connlost ==
    /\ connected /\ connected' = FALSE /\ subscribed' = FALSE
    /\ \E n \in 0 .. Len(inbox) : inbox' = SubSeq(inbox, 1, n)
    /\ UNCHANGED <<devVars, appVars, enrolled, frame, crash, taken, called, sent>>

-----------------------------------------------------------------------------
Shared(t) ==
    \/ CopyRequestID(t) \/ FormatMessage(t) \/ changeState(t)
    \/ changeFirmwareDownloadState(t) \/ changeFirmwareUpdateState(t)

NetStep ==
    /\ crash = "none"
    /\ \/ messageArrived_dm \/ messageFirmwareDownload \/ messageFirmwareUpdate
       \/ messageObserve \/ messageCancel \/ messageUpdate \/ messageResponse
       \/ messageForAction \/ InvokeCallback \/ CallbackReturns
       \/ Shared("net")

AppStep ==
    /\ crash = "none"
    /\ \/ manage \/ unmanage
       \/ setDMCommandHandler \/ setRebootHandler \/ setFactoryResetHandler
       \/ setFirmwareDownloadHandler \/ setFirmwareUpdateHandler
       \/ publishEvent \/ Shared("app")

Environment == crash = "none" /\ (PlatformSends \/ connlost)

Next == NetStep \/ AppStep \/ Environment

Spec == Init /\ [][Next]_vars

\* The library calls messageArrived as long as messages wait, and callbacks
\* return; nothing is assumed of the application or of the platform.
FairSpec == Spec /\ WF_vars(NetStep)

-----------------------------------------------------------------------------
(* Properties.                                                             *)

Steps == {"start", "copy", "copied", "format", "send", "memset", "client", "unmark",
          "loop", "match", "check", "call", "callback"}
Operations == {"none", "response", "manage", "unmanage", "changeState",
               "changeFirmwareDownloadState", "changeFirmwareUpdateState"} \cup RequestKinds

Frame == [op : Operations, pc : Steps, msg : Message, id : [Halves -> Ids],
          left : SUBSET Halves, i : Nat, rc : Nat, cb : Handlers \cup {"none"}]

Crashes == {"none", "payload", "client", "callback"}

Topics == {"MANAGE", "UNMANAGE", "NOTIFY", "RESPONSE", "UPDATE_LOCATION"}
Publications == [topic : Topics, op : Operations, req : Ids, id : [Halves -> Ids], rc : Nat]
Callbacks == [cb : Handlers \cup {"none"}, op : Operations, req : Ids]

\* The type invariant.
TypeOK ==
    /\ currentRequestID \in [Halves -> Ids]
    /\ dmClient \in [bObserve : BOOLEAN, state : FirmwareStates, client : BOOLEAN]
    /\ managed \in BOOLEAN /\ interrupt \in BOOLEAN
    /\ handler \in [Handlers -> BOOLEAN]
    /\ frame \in [Threads -> Frame]
    /\ crash \in Crashes
    /\ connected \in BOOLEAN /\ subscribed \in BOOLEAN /\ enrolled \in BOOLEAN
    /\ inbox \in Seq(Message) /\ issued \subseteq AppIds
    /\ taken \subseteq Message
    /\ called \subseteq Callbacks
    /\ sent \subseteq Publications

\* What the device publishes about a request it has parsed carries, in each of
\* its halves, the id of that request, or an id the application issued: never
\* the id of another request of the platform, although all of them pass
\* through one unprotected buffer.
AnswersOwnRequest ==
    \A a \in sent :
        a.req # NoId /\ a.op \notin {"observe", "firmware_update"}
            => \A h \in Halves : a.id[h] \in {a.req} \cup issued

\* Observe and firmware update requests are not parsed, and are answered under
\* what the buffer holds: that is one id, whole, unless a request of the
\* application has written to the buffer too.  Ids of two requests of the
\* platform never mix.
UnparsedAnswersWhole ==
    \A a \in sent :
        a.op \in {"observe", "firmware_update"}
            => a.id["lo"] = a.id["hi"] \/ \E h \in Halves : a.id[h] \in issued

\* manage has marked the device managed and not yet stored its client; unmanage
\* has cleared the client and not yet marked the device unmanaged.
Enrolling == At("app", "manage", "memset") \/ At("app", "manage", "client")
Leaving   == At("app", "unmanage", "unmark")

\* The handlers have a client to answer through exactly while the device is
\* managed, the last steps of manage and of unmanage excepted.
ClientIffManaged == ~(Enrolling \/ Leaving) => (dmClient.client <=> managed)

\* An answer is published through a NULL client only in those last steps, or
\* when the device is not managed (before manage, or after unmanage, whose
\* subscription to "iotdm-1/#" stays).
NullClientOnlyUnmanaged == crash = "client" => ~managed \/ Enrolling \/ Leaving

\* A firmware update acknowledged with 204 is the one in force, unless manage
\* or unmanage has cleared dmClient meanwhile.
AckedFirmwareState ==
    [][\A a \in sent' \ sent :
          a.op = "update" /\ a.topic = "RESPONSE"
              => dmClient.state \in {field.state, IDLE}]_vars

\* The firmware update callback runs only if the firmware was declared
\* downloaded: by an update request of the platform, or by the application,
\* which reports states from its download callback on.
FirmwareUpdateEarned ==
    \A c \in called : c.cb = "firmware_update" =>
        \/ \E m \in taken : \E i \in 1 .. Len(m.fields) :
              m.kind = "update" /\ m.fields[i] = [name |-> "mgmt.firmware", state |-> DOWNLOADED]
        \/ DOWNLOADED \in ReportedStates /\ \E d \in called : d.cb = "download"

\* Codes of the answers to a kind of request, and the callbacks it may run: a
\* reboot without a handler runs that of the factory reset.
CodesOf == [k \in RequestKinds \cup {"response"} |->
    CASE k = "update" -> {204}
      [] k \in {"observe", "cancel"} -> {200}
      [] k \in {"download", "firmware_update"} -> {202, 400}
      [] k \in {"reboot", "factory_reset"} -> ActionCodes
      [] OTHER -> {}]
CallbacksOf == [k \in RequestKinds \cup {"response"} |->
    CASE k = "response" -> {"dm"}
      [] k = "reboot" -> {"reboot", "factory_reset"}
      [] k \in {"factory_reset", "download", "firmware_update"} -> {k}
      [] OTHER -> {}]

Key(m) == [kind |-> m.kind, req |-> m.req]
S == INSTANCE DeviceService WITH
        Messages  <- {Key(m) : m \in Requests} \cup {Key(Response(id)) : id \in AppIds},
        Nothing   <- Key(NoMessage),
        Codes     <- CodesOf,
        Callbacks <- CallbacksOf,
        serving   <- Key(net.msg),
        served    <- {Key(m) : m \in taken},
        answers   <- {<<a.req, a.rc>> : a \in {p \in sent : p.topic = "RESPONSE" /\ p.req # NoId}},
        acted     <- {<<c.req, c.cb>> : c \in called}

\* Each message is served once and by itself; it gets one code, runs one
\* callback of its own kind and none after a refusal, whatever the application
\* registers, reports and manages meanwhile: device management implements its
\* abstraction.
Service == S!Spec

\* The callback thread finishes what it has received: no payload makes a
\* handler loop, and no state of the application makes it wait.
CallbackThreadDrains == []<>((inbox = <<>> /\ net.op = "none") \/ crash # "none")
=============================================================================
