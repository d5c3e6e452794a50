-------------------------- MODULE RequestHistoryProofs -------------------------
(***************************************************************************)
(* Proofs about what ManagedDevice remembers of its requests: the id that  *)
(* the buffer holds, the firmware that the update callback was earned by,  *)
(* and the firmware state that is acknowledged.                            *)
(***************************************************************************)
EXTENDS DeviceServiceProofs

-----------------------------------------------------------------------------
(* The invariant.                                                          *)

\* An update request has declared the firmware downloaded.
Declared ==
    \E m \in taken : \E i \in 1 .. Len(m.fields) :
        m.kind = "update" /\ m.fields[i] = [name |-> "mgmt.firmware", state |-> DOWNLOADED]

\* A handler on its way to the update callback, and the fields of an update.
Earns(f) ==
    /\ f.op = "firmware_update" /\ f.pc \in {"format", "send"} /\ f.rc = 202 => Declared
    /\ f.pc \in {"check", "call", "callback"} /\ f.cb = "firmware_update" => Declared
    /\ f.op = "update" => \E m \in taken : m.kind = "update" /\ m.fields = f.msg.fields

PastInv ==
    /\ dmClient.state = DOWNLOADED => Declared
    /\ Earns(net)
    /\ \A c \in called : c.cb = "firmware_update" => Declared

-----------------------------------------------------------------------------
(* Steps of either thread.                                                 *)

\* The operation and the place that a move of the callback thread leads to.
LEMMA Places ==
    ASSUME TypeInv
    PROVE  /\ \A pc : Goto("net", pc) => net'.op = net.op /\ net'.pc = pc
           /\ NextField("net") => net'.op = net.op /\ net'.pc = "loop"
           /\ Return("net") => net'.op = "none" /\ net'.pc = "start"
           /\ BeginCopy("net", net.msg.req) => net'.op = net.op /\ net'.pc = "copy"
           /\ \A pc, rc : Move("net", [net EXCEPT !.pc = pc, !.rc = rc]) => net'.op = net.op
           /\ \A pc, cb : Move("net", [net EXCEPT !.pc = pc, !.cb = cb]) => net'.op = net.op
           /\ \A pc, cb, rc :
                  Move("net", [net EXCEPT !.pc = pc, !.cb = cb, !.rc = rc]) => net'.op = net.op
           /\ UNCHANGED frame => net' = net
<1>0. net \in Frame /\ "net" \in Threads /\ TypeOK
    BY FramesTyped DEF TypeInv, Threads
<1>1. ASSUME NEW g, Move("net", g) PROVE net' = g
    BY <1>0, <1>1, MoveTyped DEF net
<1>2. ASSUME NEW pc, Goto("net", pc) PROVE net'.op = net.op /\ net'.pc = pc
    <2> DEFINE g == [net EXCEPT !.pc = pc]
    <2>1. g.op = net.op /\ g.pc = pc
        BY <1>0, Frames
    <2>2. Move("net", g)
        BY <1>2 DEF Goto, net
    <2> HIDE DEF g
    <2> QED
        BY <1>1, <2>1, <2>2
<1>3. ASSUME NextField("net") PROVE net'.op = net.op /\ net'.pc = "loop"
    <2> DEFINE g == [net EXCEPT !.pc = "loop", !.i = @ + 1]
    <2>1. g.op = net.op /\ g.pc = "loop"
        BY <1>0, Frames
    <2>2. Move("net", g)
        BY <1>3 DEF NextField, net
    <2> HIDE DEF g
    <2> QED
        BY <1>1, <2>1, <2>2
<1>4. ASSUME Return("net") PROVE net'.op = "none" /\ net'.pc = "start"
    BY <1>1, <1>4 DEF Return, Idle
<1>5. ASSUME BeginCopy("net", net.msg.req) PROVE net'.op = net.op /\ net'.pc = "copy"
    <2> DEFINE g == [net EXCEPT !.pc = "copy", !.id = Whole(net.msg.req), !.left = Halves]
    <2>1. g.op = net.op /\ g.pc = "copy"
        BY <1>0, Frames
    <2>2. Move("net", g)
        BY <1>5 DEF BeginCopy, net
    <2> HIDE DEF g
    <2> QED
        BY <1>1, <2>1, <2>2
<1>6. ASSUME NEW pc, NEW rc, Move("net", [net EXCEPT !.pc = pc, !.rc = rc]) PROVE net'.op = net.op
    <2> DEFINE g == [net EXCEPT !.pc = pc, !.rc = rc]
    <2>1. g.op = net.op
        BY <1>0, Frames
    <2>2. Move("net", g)
        BY <1>6
    <2> HIDE DEF g
    <2> QED
        BY <1>1, <2>1, <2>2
<1>7. ASSUME NEW pc, NEW cb, Move("net", [net EXCEPT !.pc = pc, !.cb = cb]) PROVE net'.op = net.op
    <2> DEFINE g == [net EXCEPT !.pc = pc, !.cb = cb]
    <2>1. g.op = net.op
        BY <1>0, Frames
    <2>2. Move("net", g)
        BY <1>7
    <2> HIDE DEF g
    <2> QED
        BY <1>1, <2>1, <2>2
<1>8. ASSUME NEW pc, NEW cb, NEW rc, Move("net", [net EXCEPT !.pc = pc, !.cb = cb, !.rc = rc])
      PROVE  net'.op = net.op
    <2> DEFINE g == [net EXCEPT !.pc = pc, !.cb = cb, !.rc = rc]
    <2>1. g.op = net.op
        BY <1>0, Frames
    <2>2. Move("net", g)
        BY <1>8
    <2> HIDE DEF g
    <2> QED
        BY <1>1, <2>1, <2>2
<1>9. UNCHANGED frame => net' = net
    BY DEF net
<1> QED
    BY <1>2, <1>3, <1>4, <1>5, <1>6, <1>7, <1>8, <1>9

\* A step of the application thread leaves the other thread where it is, and
\* keeps or clears the firmware state.
LEMMA AppLeaves ==
    ASSUME TypeInv, AppStep
    PROVE  /\ UNCHANGED <<net, taken, called>> /\ issued \subseteq issued'
           /\ dmClient'.state \in {dmClient.state, IDLE}
<1>0. TypeOK /\ dmClient.bObserve = FALSE
    BY DEF TypeInv
<1>1. ASSUME NEW g, Move("app", g) PROVE net' = net
    BY <1>0, <1>1, MoveTyped DEF net, Threads
<1>2. ASSUME ClearDevice \/ StoreClient \/ UNCHANGED dmClient
      PROVE  dmClient'.state \in {dmClient.state, IDLE}
    BY <1>0, <1>2 DEF ClearDevice, StoreClient, Cleared, TypeOK
<1> DEFINE Leaves == UNCHANGED net /\ dmClient'.state \in {dmClient.state, IDLE}
<1>3. CASE manage
    <2>1. net' = net
        BY <1>1, <1>3 DEF manage, BeginRequest, Goto, Return
    <2> QED
        BY <1>2, <1>3, <2>1 DEF manage, BeginRequest
<1>4. CASE unmanage
    <2>1. net' = net
        BY <1>1, <1>4 DEF unmanage, BeginRequest, Goto, Return
    <2> QED
        BY <1>2, <1>4, <2>1 DEF unmanage, BeginRequest
<1>5. ASSUME NEW op, NEW new, NotifyIfObserved("app", op, new) PROVE Leaves
    BY <1>0, <1>1, <1>5 DEF NotifyIfObserved, publishActionResponse, Goto, Return
<1>6. ASSUME NEW g, Move("app", g), UNCHANGED dmClient PROVE Leaves
    BY <1>1, <1>6
<1>7. CASE Shared("app")
    <2>1. CASE CopyRequestID("app") \/ FormatMessage("app")
        BY <1>6, <2>1 DEF CopyRequestID, FormatMessage, devVars, appVars
    <2>2. CASE changeState("app")
        BY <1>6, <2>2 DEF changeState, publishActionResponse, Return, devVars, appVars
    <2>3. CASE changeFirmwareDownloadState("app")
        BY <1>5, <1>6, <2>3 DEF changeFirmwareDownloadState, appVars
    <2>4. CASE changeFirmwareUpdateState("app")
        BY <1>5, <1>6, <2>4 DEF changeFirmwareUpdateState, appVars
    <2> QED
        BY <1>7, <2>1, <2>2, <2>3, <2>4 DEF Shared
<1>8. ASSUME NEW h, Register(h) PROVE Leaves /\ UNCHANGED <<taken, called, issued>>
    BY <1>8 DEF Register, devVars, net
<1>9. CASE publishEvent
    BY <1>9 DEF publishEvent, devVars, appVars, net
<1> QED
    BY <1>3, <1>4, <1>7, <1>8, <1>9
    DEF AppStep, setDMCommandHandler, setRebootHandler, setFactoryResetHandler,
        setFirmwareDownloadHandler, setFirmwareUpdateHandler

LEMMA IdleIsPast == Earns(Idle)
BY DEF Idle, Earns

\* A step of the callback thread that receives nothing and calls nothing.
LEMMA NetPast ==
    ASSUME TypeInv, PastInv, NEW g, Move("net", g), Earns(g),
           UNCHANGED <<taken, called>>, dmClient'.state = DOWNLOADED => Declared
    PROVE  PastInv'
<1>1. net' = g
    BY MoveTyped DEF Threads, net, TypeInv
<1>2. Declared <=> Declared'
    BY DEF Declared
<1> QED
    BY <1>1, <1>2 DEF PastInv, Earns

\* One that keeps its message.
LEMMA NetGoesOn ==
    ASSUME TypeInv, PastInv, NEW g, Move("net", g), g.msg = net.msg,
           g.op = net.op \/ g.op \in Reports,
           g.op = "firmware_update" /\ g.pc \in {"format", "send"} /\ g.rc = 202 => Declared,
           g.pc \in {"check", "call", "callback"} /\ g.cb = "firmware_update" => Declared,
           UNCHANGED <<taken, called>>, dmClient'.state = DOWNLOADED => Declared
    PROVE  PastInv'
<1>1. Earns(g)
    BY DEF PastInv, Earns, Reports
<1> QED
    BY <1>1, NetPast

\* The end of a call.
LEMMA NetEnds ==
    ASSUME TypeInv, PastInv, Return("net"),
           UNCHANGED <<taken, called>>, dmClient'.state = DOWNLOADED => Declared
    PROVE  PastInv'
BY NetPast, IdleIsPast DEF Return

\* A step that leaves the callback thread where it is.
LEMMA PastRests ==
    ASSUME PastInv, UNCHANGED <<net, taken, called>>, dmClient'.state = DOWNLOADED => Declared
    PROVE  PastInv'
<1>1. Declared <=> Declared'
    BY DEF Declared
<1> QED
    BY <1>1 DEF PastInv, Earns

-----------------------------------------------------------------------------
(* The callback thread.                                                    *)

\* The frame of a thread changes its place only, or ends.
LEMMA PlacePast ==
    ASSUME TypeInv, PastInv, NEW pc, net.pc \notin {"check", "call", "callback"},
           UNCHANGED <<taken, called>>, dmClient'.state = DOWNLOADED => Declared
    PROVE  /\ Goto("net", pc) /\ pc \notin {"check", "call", "callback"}
                /\ (net.op # "firmware_update" \/ pc \notin {"format", "send"}) => PastInv'
           /\ NextField("net") => PastInv'
<1>0. net \in Frame
    BY FramesTyped DEF TypeInv
<1>1. ASSUME Goto("net", pc), pc \notin {"check", "call", "callback"},
             net.op # "firmware_update" \/ pc \notin {"format", "send"}
      PROVE  PastInv'
    <2> DEFINE g == [net EXCEPT !.pc = pc]
    <2>1. g.pc = pc /\ g.op = net.op /\ g.msg = net.msg
        BY <1>0, Frames
    <2>2. Move("net", g)
        BY <1>1 DEF Goto, net
    <2> HIDE DEF g
    <2> QED
        BY <1>1, <2>1, <2>2, NetGoesOn
<1>2. ASSUME NextField("net") PROVE PastInv'
    <2> DEFINE g == [net EXCEPT !.pc = "loop", !.i = @ + 1]
    <2>1. g.pc = "loop" /\ g.op = net.op /\ g.msg = net.msg
        BY <1>0, Frames
    <2>2. Move("net", g)
        BY <1>2 DEF NextField, net
    <2> HIDE DEF g
    <2> QED
        BY <2>1, <2>2, NetGoesOn
<1> QED
    BY <1>1, <1>2

LEMMA ParsePast ==
    ASSUME TypeInv, ServiceInv, PastInv, ParseRequestID,
           UNCHANGED <<dmClient, taken, called>>
    PROVE  PastInv'
<1>1. CASE UNCHANGED frame
    BY <1>1, PastRests DEF PastInv, net
<1>2. CASE BeginCopy("net", net.msg.req)
    <2> DEFINE g == [net EXCEPT !.pc = "copy", !.id = Whole(net.msg.req), !.left = Halves]
    <2>1. g.pc = "copy" /\ g.op = net.op /\ g.msg = net.msg
        BY FramesTyped, Frames DEF TypeInv
    <2>2. Move("net", g)
        BY <1>2 DEF BeginCopy, net
    <2> HIDE DEF g
    <2>3. Earns(g)
        BY <2>1 DEF PastInv, Earns
    <2> QED
        BY <2>2, <2>3, NetPast DEF PastInv
<1> QED
    BY <1>1, <1>2 DEF ParseRequestID

\* After the answer to a download or firmware update request.
LEMMA DecidedPast ==
    ASSUME TypeInv, ServiceInv, PastInv, net.op \in Decides, net.pc = "send",
           PublishIgnoringRc("net", "RESPONSE"), AfterAnswer,
           UNCHANGED <<dmClient, taken, called>>
    PROVE  PastInv'
<1>1. /\ Working(net, AnswersTo(sent, net.msg.req), ActsOn(called, net.msg.req), Received)
      /\ net \in Frame
    BY ServesMessage, KindsApart
<1>2. net.cb = net.op
    BY <1>1 DEF Working, Progress, Decides, Actions
<1>3. CASE net.rc = 202
    <2> DEFINE g == [net EXCEPT !.pc = "check"]
    <2>1. g.pc = "check" /\ g.op = net.op /\ g.msg = net.msg /\ g.cb = net.cb
        BY <1>1, Frames
    <2>2. Move("net", g)
        BY <1>3 DEF AfterAnswer, Goto, net
    <2>3. net.op = "firmware_update" => Declared
        BY <1>3 DEF PastInv, Earns
    <2> HIDE DEF g
    <2> QED
        BY <1>2, <2>1, <2>2, <2>3, NetGoesOn DEF PastInv
<1>4. CASE net.rc # 202
    BY <1>4, NetEnds DEF AfterAnswer, PastInv
<1> QED
    BY <1>3, <1>4

LEMMA DownloadPast == TypeInv /\ ServiceInv /\ PastInv /\ messageFirmwareDownload => PastInv'
<1> SUFFICES ASSUME TypeInv, ServiceInv, PastInv, messageFirmwareDownload PROVE PastInv'
    OBVIOUS
<1>0. UNCHANGED <<dmClient, taken, called>> /\ net.op = "download"
    BY DEF messageFirmwareDownload, devVars, appVars, At, net
<1>1. CASE ParseRequestID /\ UNCHANGED sent
    BY <1>0, <1>1, ParsePast
<1>2. CASE /\ Move("net", [net EXCEPT !.pc = "format", !.cb = "download",
                             !.rc = IF dmClient.state # IDLE THEN 400 ELSE 202])
           /\ UNCHANGED <<crash, sent>>
    <2> DEFINE rc == IF dmClient.state # IDLE THEN 400 ELSE 202
               g  == [net EXCEPT !.pc = "format", !.cb = "download", !.rc = rc]
    <2>1. Move("net", g)
        BY <1>2
    <2> HIDE DEF rc
    <2>2. g.pc = "format" /\ g.op = net.op /\ g.msg = net.msg
        BY FramesTyped, Frames DEF TypeInv
    <2> HIDE DEF g
    <2> QED
        BY <1>0, <1>2, <2>1, <2>2, NetGoesOn DEF PastInv
<1>3. CASE At("net", "download", "send") /\ PublishIgnoringRc("net", "RESPONSE") /\ AfterAnswer
    BY <1>0, <1>3, DecidedPast DEF At, net, Decides
<1> QED
    BY <1>1, <1>2, <1>3 DEF messageFirmwareDownload

\* Only a downloaded firmware is answered with 202.
LEMMA FirmwareUpdatePast == TypeInv /\ ServiceInv /\ PastInv /\ messageFirmwareUpdate => PastInv'
<1> SUFFICES ASSUME TypeInv, ServiceInv, PastInv, messageFirmwareUpdate PROVE PastInv'
    OBVIOUS
<1>0. UNCHANGED <<dmClient, taken, called>> /\ net.op = "firmware_update"
    BY DEF messageFirmwareUpdate, devVars, appVars, At, net
<1>1. CASE /\ Move("net", [net EXCEPT !.pc = "format", !.cb = "firmware_update",
                             !.rc = FirmwareUpdateCode])
           /\ UNCHANGED <<crash, sent>>
    <2> DEFINE rc == FirmwareUpdateCode
               g  == [net EXCEPT !.pc = "format", !.cb = "firmware_update", !.rc = rc]
    <2>1. Move("net", g)
        BY <1>1
    <2>2. rc = 202 => Declared
        BY DEF FirmwareUpdateCode, PastInv
    <2> HIDE DEF rc
    <2>3. g.pc = "format" /\ g.op = net.op /\ g.msg = net.msg /\ g.rc = rc
        BY FramesTyped, Frames DEF TypeInv
    <2> HIDE DEF g
    <2> QED
        BY <1>0, <1>1, <2>1, <2>2, <2>3, NetGoesOn DEF PastInv
<1>2. CASE At("net", "firmware_update", "send") /\ PublishIgnoringRc("net", "RESPONSE")
           /\ AfterAnswer
    BY <1>0, <1>2, DecidedPast DEF At, net, Decides
<1> QED
    BY <1>1, <1>2 DEF messageFirmwareUpdate

\* A handler decides on a code.
LEMMA CodePast ==
    ASSUME TypeInv, PastInv, NEW rc, Move("net", [net EXCEPT !.pc = "format", !.rc = rc]),
           net.op # "firmware_update",
           UNCHANGED <<taken, called>>,
           dmClient'.state = DOWNLOADED => Declared
    PROVE  PastInv'
<1> DEFINE g == [net EXCEPT !.pc = "format", !.rc = rc]
<1>1. g.pc = "format" /\ g.op = net.op /\ g.msg = net.msg
    BY FramesTyped, Frames DEF TypeInv
<1>2. Move("net", g)
    OBVIOUS
<1> HIDE DEF g
<1> QED
    BY <1>1, <1>2, NetGoesOn

LEMMA ObservePast == TypeInv /\ ServiceInv /\ PastInv /\ messageObserve => PastInv'
<1> SUFFICES ASSUME TypeInv, ServiceInv, PastInv, messageObserve PROVE PastInv'
    OBVIOUS
<1>0. UNCHANGED <<dmClient, taken, called>> /\ net.op = "observe"
    BY DEF messageObserve, devVars, appVars, At, net
<1>1. dmClient'.state = DOWNLOADED => Declared
    BY <1>0 DEF PastInv
<1>2. CASE Move("net", [net EXCEPT !.pc = "format", !.rc = 200]) /\ UNCHANGED <<crash, sent>>
    BY <1>0, <1>1, <1>2, CodePast
<1>3. CASE PublishIgnoringRc("net", "RESPONSE") /\ Return("net")
    BY <1>0, <1>1, <1>3, NetEnds
<1> QED
    BY <1>2, <1>3 DEF messageObserve

LEMMA CancelPast == TypeInv /\ ServiceInv /\ PastInv /\ messageCancel => PastInv'
<1> SUFFICES ASSUME TypeInv, ServiceInv, PastInv, messageCancel PROVE PastInv'
    OBVIOUS
<1>0. /\ UNCHANGED <<taken, called>> /\ net.op = "cancel"
      /\ net.pc \notin {"check", "call", "callback"}
    BY DEF messageCancel, appVars, At, AtField, net
<1>1. dmClient'.state = DOWNLOADED => Declared
    BY DEF messageCancel, PastInv, TypeInv, TypeOK
<1>2. CASE ParseRequestID /\ UNCHANGED <<dmClient, sent>>
    BY <1>0, <1>2, ParsePast
<1>3. CASE Goto("net", "loop") /\ UNCHANGED sent
    BY <1>0, <1>1, <1>3, PlacePast
<1>4. CASE Move("net", [net EXCEPT !.pc = "format", !.rc = 200]) /\ UNCHANGED sent
    BY <1>0, <1>1, <1>4, CodePast
<1>5. CASE NextField("net") /\ UNCHANGED sent
    BY <1>0, <1>1, <1>5, PlacePast
<1>6. CASE Return("net") /\ UNCHANGED sent
    BY <1>0, <1>1, <1>6, NetEnds
<1>7. CASE PublishIgnoringRc("net", "RESPONSE") /\ NextField("net")
    BY <1>0, <1>1, <1>7, PlacePast
<1> QED
    BY <1>2, <1>3, <1>4, <1>5, <1>6, <1>7 DEF messageCancel

LEMMA UpdatePast == TypeInv /\ ServiceInv /\ PastInv /\ messageUpdate => PastInv'
<1> SUFFICES ASSUME TypeInv, ServiceInv, PastInv, messageUpdate PROVE PastInv'
    OBVIOUS
<1>0. /\ UNCHANGED <<taken, called>> /\ net.op = "update"
      /\ net.pc \notin {"check", "call", "callback"}
    BY DEF messageUpdate, appVars, At, AtField, net
<1>1. UNCHANGED dmClient => (dmClient'.state = DOWNLOADED => Declared)
    BY DEF PastInv
<1>2. ASSUME ParseRequestID, UNCHANGED <<dmClient, sent>> PROVE PastInv'
    BY <1>0, <1>2, ParsePast
<1>3. ASSUME Return("net"), UNCHANGED <<dmClient, sent>> PROVE PastInv'
    BY <1>0, <1>1, <1>3, NetEnds
<1>4. CASE Goto("net", "loop") /\ UNCHANGED <<dmClient, sent>>
    BY <1>0, <1>1, <1>4, PlacePast
<1>5. CASE updateLocationRequest /\ UNCHANGED sent
    BY <1>0, <1>1, <1>5, PlacePast DEF updateLocationRequest
<1>6. CASE AtField("update", "loop") /\ updateFirmwareRequest /\ UNCHANGED sent
    <2>1. PICK m \in taken : m.kind = "update" /\ m.fields = net.msg.fields
        BY <1>0 DEF PastInv, Earns
    <2>2. field \in Field /\ net.i \in 1 .. Len(m.fields) /\ m.fields[net.i] = field
        <3>1. net.msg.fields \in Seq(Field) /\ net.i \in 1 .. Len(net.msg.fields)
            BY <1>6, FramesTyped DEF Frame, Message, AtField, TypeInv
        <3> QED
            BY <2>1, <3>1 DEF field
    <2>3. field.state = DOWNLOADED => field = [name |-> "mgmt.firmware", state |-> DOWNLOADED]
        BY <1>6, <2>2 DEF updateFirmwareRequest, Field
    <2>4. dmClient'.state = field.state
        BY <1>6 DEF updateFirmwareRequest, TypeInv, TypeOK
    <2>5. dmClient'.state = DOWNLOADED => Declared
        BY <2>1, <2>2, <2>3, <2>4 DEF Declared
    <2>6. Move("net", [net EXCEPT !.pc = "format", !.rc = 204])
        BY <1>6 DEF updateFirmwareRequest
    <2> QED
        BY <1>0, <1>6, <2>5, <2>6, CodePast
<1>7. CASE NextField("net") /\ UNCHANGED <<dmClient, sent>>
    BY <1>0, <1>1, <1>7, PlacePast
<1>8. CASE (\E topic : PublishIgnoringRc("net", topic)) /\ NextField("net") /\ UNCHANGED dmClient
    BY <1>0, <1>1, <1>8, PlacePast
<1> QED
    BY <1>2, <1>3, <1>4, <1>5, <1>6, <1>7, <1>8 DEF messageUpdate

LEMMA ResponsePast == TypeInv /\ ServiceInv /\ PastInv /\ messageResponse => PastInv'
<1> SUFFICES ASSUME TypeInv, ServiceInv, PastInv, messageResponse PROVE PastInv'
    OBVIOUS
<1>0. /\ UNCHANGED <<dmClient, taken, called>>
      /\ net.op = "response" /\ net.pc \notin {"check", "call", "callback"}
    BY DEF messageResponse, appVars, At, net
<1>1. dmClient'.state = DOWNLOADED => Declared
    BY <1>0 DEF PastInv
<1>2. CASE Goto("net", "match")
    BY <1>0, <1>1, <1>2, PlacePast
<1>3. CASE Return("net")
    BY <1>0, <1>1, <1>3, NetEnds
<1>4. CASE UNCHANGED frame
    BY <1>0, <1>1, <1>4, PastRests DEF net
<1>5. CASE Move("net", [net EXCEPT !.pc = "call", !.cb = "dm"])
    <2> DEFINE g == [net EXCEPT !.pc = "call", !.cb = "dm"]
    <2>1. g.pc = "call" /\ g.op = net.op /\ g.msg = net.msg /\ g.cb = "dm"
        BY FramesTyped, Frames DEF TypeInv
    <2>2. Move("net", g)
        BY <1>5
    <2> HIDE DEF g
    <2> QED
        BY <1>0, <1>1, <2>1, <2>2, NetGoesOn
<1> QED
    BY <1>2, <1>3, <1>4, <1>5 DEF messageResponse

LEMMA ActionPast == TypeInv /\ ServiceInv /\ PastInv /\ messageForAction => PastInv'
<1> SUFFICES ASSUME TypeInv, ServiceInv, PastInv, messageForAction PROVE PastInv'
    OBVIOUS
<1>0. UNCHANGED <<dmClient, taken, called>>
      /\ net.op # "firmware_update"
    BY DEF messageForAction, devVars, appVars
<1>1. dmClient'.state = DOWNLOADED => Declared
    BY <1>0 DEF PastInv
<1>2. CASE ParseRequestID
    BY <1>0, <1>2, ParsePast
<1>3. CASE Return("net")
    BY <1>0, <1>1, <1>3, NetEnds
<1>4. ASSUME NEW pc \in {"check", "call"}, NEW cb \in {"reboot", "factory_reset"},
             Move("net", [net EXCEPT !.pc = pc, !.cb = cb])
      PROVE  PastInv'
    <2> DEFINE g == [net EXCEPT !.pc = pc, !.cb = cb]
    <2>1. g.pc = pc /\ g.op = net.op /\ g.msg = net.msg /\ g.cb = cb
        BY FramesTyped, Frames DEF TypeInv
    <2>2. Move("net", g)
        BY <1>4
    <2> HIDE DEF g
    <2> QED
        BY <1>0, <1>1, <2>1, <2>2, NetGoesOn
<1> QED
    BY <1>2, <1>3, <1>4 DEF messageForAction

LEMMA CallbackPast ==
    TypeInv /\ ServiceInv /\ PastInv /\ (InvokeCallback \/ CallbackReturns) => PastInv'
<1> SUFFICES ASSUME TypeInv, ServiceInv, PastInv, InvokeCallback \/ CallbackReturns PROVE PastInv'
    OBVIOUS
<1>0. UNCHANGED <<dmClient, taken>>
    BY DEF InvokeCallback, CallbackReturns, devVars
<1>1. dmClient'.state = DOWNLOADED => Declared
    BY <1>0 DEF PastInv
<1>2. CASE Return("net") /\ UNCHANGED called
    BY <1>0, <1>1, <1>2, NetEnds
<1>3. CASE UNCHANGED <<frame, called>>
    BY <1>0, <1>1, <1>3, PastRests DEF net
<1>4. ASSUME NEW pc \in {"call", "callback"}, net.pc \in {"check", "call"}, Goto("net", pc)
      PROVE  Earns(net')
    <2> DEFINE g == [net EXCEPT !.pc = pc]
    <2>1. g.pc = pc /\ g.op = net.op /\ g.msg = net.msg /\ g.cb = net.cb
        BY FramesTyped, Frames DEF TypeInv
    <2>2. net' = g
        BY <1>4, MoveTyped DEF Goto, Threads, net, TypeInv
    <2> HIDE DEF g
    <2>3. net.cb = "firmware_update" => Declared
        BY <1>4 DEF PastInv, Earns
    <2> QED
        BY <1>4, <2>1, <2>2, <2>3 DEF PastInv, Earns
<1>5. ASSUME NEW pc \in {"call", "callback"}, net.pc \in {"check", "call"}, Goto("net", pc),
             \A c \in called' : c.cb = "firmware_update" => Declared
      PROVE  PastInv'
    <2>1. Declared <=> Declared'
        BY <1>0 DEF Declared
    <2>2. Earns(net)'
        BY <1>0, <1>4, <1>5, <2>1 DEF Earns
    <2> QED
        BY <1>1, <1>5, <2>1, <2>2 DEF PastInv
<1>6. CASE net.pc = "check" /\ Goto("net", "call") /\ UNCHANGED called
    BY <1>5, <1>6 DEF PastInv
<1>7. CASE /\ net.pc = "call" /\ Goto("net", "callback")
           /\ called' = called \cup {[cb |-> net.cb, op |-> net.op, req |-> net.msg.req]}
    <2> DEFINE c == [cb |-> net.cb, op |-> net.op, req |-> net.msg.req]
    <2>1. c.cb = net.cb /\ called' = called \cup {c}
        BY <1>7
    <2> HIDE DEF c
    <2>2. net.cb = "firmware_update" => Declared
        BY <1>7 DEF PastInv, Earns
    <2>3. \A d \in called' : d.cb = "firmware_update" => Declared
        BY <2>1, <2>2 DEF PastInv
    <2> QED
        BY <1>5, <1>7, <2>3
<1> QED
    BY <1>2, <1>3, <1>6, <1>7 DEF InvokeCallback, CallbackReturns

\* A message is received.
LEMMA ArrivalPast == TypeInv /\ ServiceInv /\ PastInv /\ messageArrived_dm => PastInv'
<1> SUFFICES ASSUME TypeInv, ServiceInv, PastInv, messageArrived_dm PROVE PastInv'
    OBVIOUS
<1> DEFINE m == Head(inbox)
<1>0. /\ UNCHANGED <<dmClient, called>>
      /\ taken' = taken \cup {m} /\ inbox # <<>>
    BY DEF messageArrived_dm, devVars
<1>1. m \in Message
    BY <1>0 DEF TypeInv, TypeOK
<1>2. PICK g : /\ Move("net", g)
               /\ \/ g = Idle
                  \/ g.op = m.kind /\ g.pc = "start" /\ g.msg.fields = m.fields
    <2>1. PICK passing \in ArgPassing :
            Move("net", IF m.kind = "other" THEN Idle
                        ELSE [Idle EXCEPT !.op = m.kind,
                                !.msg = IF passing = "matched" THEN m
                                        ELSE [m EXCEPT !.payload = "shifted"]])
        BY DEF messageArrived_dm
    <2> DEFINE n == IF passing = "matched" THEN m ELSE [m EXCEPT !.payload = "shifted"]
               f == [Idle EXCEPT !.op = m.kind, !.msg = n]
    <2>2. n.fields = m.fields
        BY <1>1 DEF Message
    <2>3. CASE m.kind = "other"
        BY <2>1, <2>3
    <2>4. CASE m.kind # "other"
        <3>1. Move("net", f)
            BY <2>1, <2>4
        <3> HIDE DEF n
        <3>2. f.op = m.kind /\ f.pc = "start" /\ f.msg = n
            BY DEF Idle
        <3> HIDE DEF f
        <3> QED
            BY <2>2, <3>1, <3>2
    <2> QED
        BY <2>3, <2>4
<1>3. net' = g
    BY <1>2, MoveTyped DEF Threads, net, TypeInv
<1>4. Declared => Declared'
    BY <1>0 DEF Declared
<1>5. Earns(net)'
    <2>1. g.op # "none" => g.op = m.kind /\ g.pc = "start" /\ g.msg.fields = m.fields
        BY <1>2 DEF Idle
    <2>2. g.pc = "start"
        BY <1>2 DEF Idle
    <2>3. g.op = "update" => \E n \in taken' : n.kind = "update" /\ n.fields = g.msg.fields
        BY <1>0, <2>1
    <2> QED
        BY <1>3, <2>2, <2>3 DEF Earns
<1> QED
    BY <1>0, <1>4, <1>5 DEF PastInv

\* Copying and formatting.
LEMMA CopyPast ==
    ASSUME TypeInv, PastInv, CopyRequestID("net") \/ FormatMessage("net") PROVE PastInv'
<1>0. UNCHANGED <<dmClient, taken, called>> /\ net \in Frame
    BY FramesTyped DEF CopyRequestID, FormatMessage, devVars, TypeInv
<1>1. CASE CopyRequestID("net")
    <2>1. PICK h \in net.left, pc \in {"copy", "copied"} :
            Move("net", [net EXCEPT !.left = @ \ {h}, !.pc = pc])
        BY <1>1 DEF CopyRequestID, net
    <2> DEFINE left == net.left \ {h}
               g    == [net EXCEPT !.left = left, !.pc = pc]
    <2>2. Move("net", g)
        BY <2>1
    <2> HIDE DEF left
    <2>3. g.pc = pc /\ g.op = net.op /\ g.msg = net.msg
        BY <1>0, Frames
    <2> HIDE DEF g
    <2> QED
        BY <1>0, <2>2, <2>3, NetGoesOn DEF PastInv
<1>2. CASE FormatMessage("net")
    <2> DEFINE g == [net EXCEPT !.id = currentRequestID, !.pc = "send"]
    <2>1. g.pc = "send" /\ g.op = net.op /\ g.msg = net.msg /\ g.rc = net.rc
        BY <1>0, Frames
    <2>2. Move("net", g) /\ net.pc = "format"
        BY <1>2 DEF FormatMessage, net
    <2> HIDE DEF g
    <2> QED
        BY <1>0, <2>1, <2>2, NetGoesOn DEF PastInv, Earns
<1> QED
    BY <1>1, <1>2

\* A callback reports.
LEMMA ReportPast ==
    ASSUME TypeInv, PastInv,
           changeState("net") \/ changeFirmwareDownloadState("net") \/ changeFirmwareUpdateState("net")
    PROVE  PastInv'
<1>0. /\ net \in Frame /\ (dmClient'.state = DOWNLOADED => Declared)
      /\ UNCHANGED <<taken, called>>
    BY FramesTyped DEF TypeInv, PastInv, changeState, changeFirmwareDownloadState,
       changeFirmwareUpdateState, NotifyIfObserved, devVars
<1>1. ASSUME NEW op \in Reports, NEW rc,
             \/ Move("net", [net EXCEPT !.op = op, !.pc = "format", !.rc = rc])
             \/ Move("net", [net EXCEPT !.op = op, !.pc = "start", !.rc = rc])
             \/ Move("net", [net EXCEPT !.op = op, !.pc = "start"])
      PROVE  PastInv'
    <2> DEFINE f == [net EXCEPT !.op = op, !.pc = "format", !.rc = rc]
               g == [net EXCEPT !.op = op, !.pc = "start", !.rc = rc]
               h == [net EXCEPT !.op = op, !.pc = "start"]
    <2>1. /\ f.op = op /\ f.pc = "format" /\ f.msg = net.msg
          /\ g.op = op /\ g.pc = "start" /\ g.msg = net.msg
          /\ h.op = op /\ h.pc = "start" /\ h.msg = net.msg
        BY <1>0, Frames
    <2>2. Move("net", f) \/ Move("net", g) \/ Move("net", h)
        BY <1>1
    <2> HIDE DEF f, g, h
    <2>3. ASSUME NEW k, Move("net", k), k.op = op, k.pc \in {"format", "start"}, k.msg = net.msg
          PROVE  PastInv'
        BY <1>0, <2>3, NetGoesOn DEF Reports
    <2> QED
        BY <2>1, <2>2, <2>3
<1>2. ASSUME NEW op \in Reports, NEW new, NotifyIfObserved("net", op, new) PROVE PastInv'
    BY <1>0, <1>2, NetEnds DEF NotifyIfObserved, publishActionResponse, TypeInv
<1>3. CASE changeState("net")
    <2>1. CASE publishActionResponse("net", "RESPONSE")
        BY <1>0, <2>1, NetEnds DEF publishActionResponse
    <2> QED
        BY <1>1, <1>3, <2>1 DEF changeState, net, Reports
<1>4. CASE changeFirmwareDownloadState("net")
    <2>1. CASE NotifyIfObserved("net", "changeFirmwareDownloadState",
                                [dmClient EXCEPT !.state = frame["net"].rc])
        BY <1>2, <2>1 DEF Reports
    <2> QED
        BY <1>1, <1>4, <2>1 DEF changeFirmwareDownloadState, net, Reports
<1>5. CASE changeFirmwareUpdateState("net")
    <2>1. CASE NotifyIfObserved("net", "changeFirmwareUpdateState", dmClient)
        BY <1>2, <2>1 DEF Reports
    <2> QED
        BY <1>1, <1>5, <2>1 DEF changeFirmwareUpdateState, net, Reports
<1> QED
    BY <1>3, <1>4, <1>5

LEMMA NextPast == TypeInv /\ ServiceInv /\ PastInv /\ [Next]_vars => PastInv'
<1> SUFFICES ASSUME TypeInv, ServiceInv, PastInv, [Next]_vars PROVE PastInv'
    OBVIOUS
<1>1. ASSUME UNCHANGED <<net, taken, called>>, dmClient'.state \in {dmClient.state, IDLE}
      PROVE  PastInv'
    BY <1>1, PastRests DEF PastInv, IDLE, DOWNLOADED
<1>2. CASE UNCHANGED vars
    BY <1>1, <1>2 DEF vars, devVars, net
<1>3. CASE NetStep
    BY <1>3, ArrivalPast, DownloadPast, FirmwareUpdatePast, ObservePast, CancelPast, UpdatePast,
       ResponsePast, ActionPast, CallbackPast, CopyPast, ReportPast DEF NetStep, Shared
<1>4. CASE AppStep
    BY <1>1, <1>4, AppLeaves
<1>5. CASE Environment
    BY <1>1, <1>5 DEF Environment, PlatformSends, connlost, devVars, net
<1> QED
    BY <1>2, <1>3, <1>4, <1>5 DEF Next

LEMMA AlwaysPast == Spec => [](TypeInv /\ ServiceInv /\ PastInv)
<1>1. Init => TypeInv /\ ServiceInv /\ PastInv
    <2>1. Init => PastInv
        BY IdleIsPast DEF Init, PastInv, net, Threads, Cleared, IDLE, DOWNLOADED
    <2> QED
        BY <2>1, InitTyped, InitServes
<1>2. TypeInv /\ ServiceInv /\ PastInv /\ [Next]_vars => (TypeInv /\ ServiceInv /\ PastInv)'
    BY NextTyped, NextServes, NextPast DEF Good
<1> QED
    BY <1>1, <1>2, PTL DEF Spec

\* Whatever is managed, unmanaged, lost or reported meanwhile, the update
\* callback runs only for a firmware that was declared downloaded.
THEOREM UpdateEarned == Spec => []FirmwareUpdateEarned
<1>1. PastInv => FirmwareUpdateEarned
    BY DEF PastInv, Declared, FirmwareUpdateEarned
<1> QED
    BY <1>1, AlwaysPast, PTL

-----------------------------------------------------------------------------
(* The firmware state that is acknowledged.                                *)

\* Between storing a state and answering, only manage and unmanage touch it.
Acking(f) == f.op = "update" /\ f.pc \in {"format", "send"}
AckInv == Acking(net) /\ field.name # "location" => dmClient.state \in {field.state, IDLE}

LEMMA Stays ==
    ASSUME AckInv, net' = net, dmClient'.state \in {dmClient.state, IDLE} PROVE AckInv'
BY DEF AckInv, Acking, field

LEMMA NotAcking == ASSUME ~Acking(net') PROVE AckInv'
BY DEF AckInv

\* A request of another kind is served.
LEMMA OtherAck ==
    ASSUME TypeInv, net.op # "update",
           \/ messageFirmwareDownload \/ messageFirmwareUpdate \/ messageObserve \/ messageCancel
           \/ messageResponse \/ messageForAction \/ InvokeCallback \/ CallbackReturns
    PROVE  AckInv'
<1> SUFFICES net'.op # "update"
    BY NotAcking DEF Acking
<1>1. ASSUME ParseRequestID PROVE net'.op # "update"
    BY <1>1, Places DEF ParseRequestID
<1>2. ASSUME AfterAnswer PROVE net'.op # "update"
    BY <1>2, Places DEF AfterAnswer
<1>3. CASE messageFirmwareDownload
    <2>1. ASSUME NEW rc, Move("net", [net EXCEPT !.pc = "format", !.cb = "download", !.rc = rc])
          PROVE  net'.op # "update"
        BY <2>1, Places
    <2>2. CASE \E rc : Move("net", [net EXCEPT !.pc = "format", !.cb = "download", !.rc = rc])
        BY <2>1, <2>2
    <2> QED
        BY <1>1, <1>2, <1>3, <2>2 DEF messageFirmwareDownload, Move
<1>4. CASE messageFirmwareUpdate
    BY <1>2, <1>4, Places DEF messageFirmwareUpdate
<1>5. CASE messageObserve
    BY <1>5, Places DEF messageObserve
<1>6. CASE messageCancel
    <2>1. CASE Goto("net", "loop") \/ NextField("net") \/ Return("net")
        BY <2>1, Places
    <2>2. CASE Move("net", [net EXCEPT !.pc = "format", !.rc = 200])
        BY <2>2, Places
    <2> QED
        BY <1>1, <1>6, <2>1, <2>2 DEF messageCancel
<1>7. CASE messageResponse
    BY <1>7, Places DEF messageResponse
<1>8. CASE messageForAction
    BY <1>1, <1>8, Places DEF messageForAction
<1>9. CASE InvokeCallback \/ CallbackReturns
    BY <1>9, Places DEF InvokeCallback, CallbackReturns
<1> QED
    BY <1>3, <1>4, <1>5, <1>6, <1>7, <1>8, <1>9

LEMMA UpdateAck == TypeInv /\ messageUpdate => AckInv'
<1> SUFFICES ASSUME TypeInv, messageUpdate PROVE AckInv'
    OBVIOUS
<1>0. net \in Frame /\ TypeOK
    BY FramesTyped DEF TypeInv
<1>1. ASSUME ParseRequestID, net.pc = "start" PROVE AckInv'
    <2>1. ~Acking(net')
        BY <1>1, Places DEF ParseRequestID, Acking
    <2> QED
        BY <2>1, NotAcking
<1>2. ASSUME NextField("net") \/ Return("net") \/ Goto("net", "loop") PROVE AckInv'
    <2>1. net'.pc = "loop" \/ net'.op = "none"
        BY <1>2, Places
    <2>2. ~Acking(net')
        BY <2>1 DEF Acking
    <2> QED
        BY <2>2, NotAcking
<1>3. CASE updateLocationRequest
    <2> DEFINE g == [net EXCEPT !.pc = "format"]
    <2>1. g.msg = net.msg /\ g.i = net.i
        BY <1>0, Frames
    <2>2. net' = g
        BY <1>0, <1>3, MoveTyped DEF updateLocationRequest, Goto, net, Threads
    <2> HIDE DEF g
    <2>3. field'.name = "location"
        BY <1>3, <2>1, <2>2 DEF updateLocationRequest, field
    <2> QED
        BY <2>3 DEF AckInv
<1>4. CASE updateFirmwareRequest
    <2> DEFINE g == [net EXCEPT !.pc = "format", !.rc = 204]
    <2>1. g.msg = net.msg /\ g.i = net.i
        BY <1>0, Frames
    <2>2. net' = g
        BY <1>0, <1>4, MoveTyped DEF updateFirmwareRequest, net, Threads
    <2> HIDE DEF g
    <2>3. field' = field
        BY <2>1, <2>2 DEF field
    <2>4. dmClient'.state = field.state
        BY <1>0, <1>4 DEF updateFirmwareRequest, TypeOK
    <2> QED
        BY <2>3, <2>4 DEF AckInv
<1> QED
    BY <1>1, <1>2, <1>3, <1>4 DEF messageUpdate, At, net

LEMMA FormatAck ==
    TypeInv /\ AckInv /\ (CopyRequestID("net") \/ FormatMessage("net")) => AckInv'
<1> SUFFICES ASSUME TypeInv, AckInv, CopyRequestID("net") \/ FormatMessage("net") PROVE AckInv'
    OBVIOUS
<1>0. net \in Frame /\ TypeOK
    BY FramesTyped DEF TypeInv
<1>1. CASE CopyRequestID("net")
    <2>1. PICK h \in net.left, pc \in {"copy", "copied"} :
            Move("net", [net EXCEPT !.left = @ \ {h}, !.pc = pc])
        BY <1>1 DEF CopyRequestID, net
    <2> DEFINE left == net.left \ {h}
               g    == [net EXCEPT !.left = left, !.pc = pc]
    <2>2. net' = g
        BY <1>0, <2>1, MoveTyped DEF net, Threads
    <2> HIDE DEF left
    <2>3. g.pc = pc
        BY <1>0, Frames
    <2> HIDE DEF g
    <2> QED
        BY <2>1, <2>2, <2>3, NotAcking DEF Acking
<1>2. CASE FormatMessage("net")
    <2> DEFINE g == [net EXCEPT !.id = currentRequestID, !.pc = "send"]
    <2>1. g.msg = net.msg /\ g.i = net.i /\ g.op = net.op /\ g.pc = "send"
        BY <1>0, Frames
    <2>2. net' = g /\ net.pc = "format" /\ dmClient' = dmClient
        BY <1>0, <1>2, MoveTyped DEF FormatMessage, net, Threads, devVars
    <2> HIDE DEF g
    <2> QED
        BY <2>1, <2>2 DEF AckInv, Acking, field
<1> QED
    BY <1>1, <1>2

\* A report acknowledges no update.
LEMMA ReportAck ==
    /\ TypeInv /\ AckInv
    /\ changeState("net") \/ changeFirmwareDownloadState("net") \/ changeFirmwareUpdateState("net")
    => AckInv'
<1> SUFFICES ASSUME TypeInv, AckInv,
                    changeState("net") \/ changeFirmwareDownloadState("net")
                        \/ changeFirmwareUpdateState("net")
             PROVE  net'.op \in Reports \cup {"none"}
    BY NotAcking DEF Acking, Reports
<1>0. net \in Frame /\ TypeOK
    BY FramesTyped DEF TypeInv
<1>1. ASSUME NEW op \in Reports, NEW pc, NEW rc,
             \/ Move("net", [net EXCEPT !.op = op, !.pc = pc, !.rc = rc])
             \/ Move("net", [net EXCEPT !.op = op, !.pc = pc])
      PROVE  net'.op = op
    <2> DEFINE f == [net EXCEPT !.op = op, !.pc = pc, !.rc = rc]
               g == [net EXCEPT !.op = op, !.pc = pc]
    <2>1. f.op = op /\ g.op = op
        BY <1>0, Frames
    <2>2. net' = f \/ net' = g
        BY <1>0, <1>1, MoveTyped DEF net, Threads
    <2> QED
        BY <2>1, <2>2
<1>2. ASSUME NEW op \in Reports, NEW new, NotifyIfObserved("net", op, new)
      PROVE  net'.op \in Reports \cup {"none"}
    BY <1>2, Places DEF NotifyIfObserved, publishActionResponse, At, net
<1>3. CASE changeState("net")
    <2>1. CASE publishActionResponse("net", "RESPONSE")
        BY <2>1, Places DEF publishActionResponse
    <2> QED
        BY <1>1, <1>3, <2>1 DEF changeState, net, Reports
<1>4. CASE changeFirmwareDownloadState("net")
    <2>1. CASE NotifyIfObserved("net", "changeFirmwareDownloadState",
                                [dmClient EXCEPT !.state = frame["net"].rc])
        BY <1>2, <2>1 DEF Reports
    <2> QED
        BY <1>1, <1>4, <2>1 DEF changeFirmwareDownloadState, net, Reports
<1>5. CASE changeFirmwareUpdateState("net")
    <2>1. CASE NotifyIfObserved("net", "changeFirmwareUpdateState", dmClient)
        BY <1>2, <2>1 DEF Reports
    <2> QED
        BY <1>1, <1>5, <2>1 DEF changeFirmwareUpdateState, net, Reports
<1> QED
    BY <1>3, <1>4, <1>5

LEMMA NextAck == TypeInv /\ AckInv /\ [Next]_vars => AckInv'
<1> SUFFICES ASSUME TypeInv, AckInv, [Next]_vars PROVE AckInv'
    OBVIOUS
<1>1. ASSUME UNCHANGED <<frame, dmClient>> PROVE AckInv'
    BY <1>1, Stays DEF net
<1>2. CASE UNCHANGED vars
    BY <1>1, <1>2 DEF vars, devVars
<1>3. CASE NetStep
    <2>1. CASE messageArrived_dm
        <3> DEFINE m == Head(inbox)
        <3>1. PICK passing \in ArgPassing :
                Move("net", IF m.kind = "other" THEN Idle
                            ELSE [Idle EXCEPT !.op = m.kind,
                                    !.msg = IF passing = "matched" THEN m
                                            ELSE [m EXCEPT !.payload = "shifted"]])
            BY <2>1 DEF messageArrived_dm
        <3> DEFINE n == IF passing = "matched" THEN m ELSE [m EXCEPT !.payload = "shifted"]
                   f == [Idle EXCEPT !.op = m.kind, !.msg = n]
        <3>2. net' = Idle \/ net' = f
            BY <3>1, MoveTyped DEF Threads, net, TypeInv
        <3> HIDE DEF n
        <3>3. Idle.pc = "start" /\ f.pc = "start"
            BY DEF Idle
        <3> HIDE DEF f
        <3>4. ~Acking(net')
            BY <3>2, <3>3 DEF Acking
        <3> QED
            BY <3>4, NotAcking
    <2>2. CASE Shared("net")
        BY <2>2, FormatAck, ReportAck DEF Shared
    <2>3. CASE messageUpdate
        BY <2>3, UpdateAck
    <2>4. ASSUME \/ messageFirmwareDownload \/ messageFirmwareUpdate \/ messageObserve
                 \/ messageCancel \/ messageResponse \/ messageForAction
          PROVE  net.op # "update"
        BY <2>4 DEF messageFirmwareDownload, messageFirmwareUpdate, messageObserve, messageCancel,
                    messageResponse, messageForAction, At, AtField, net
    <2>5. CASE InvokeCallback \/ CallbackReturns
        <3>1. ~Acking(net')
            <4>1. net.pc \in {"check", "call", "callback"}
                BY <2>5 DEF InvokeCallback, CallbackReturns
            <4>2. net' = net \/ net'.pc \in {"call", "callback"} \/ net'.op = "none"
                BY <2>5, Places DEF InvokeCallback, CallbackReturns
            <4> QED
                BY <4>1, <4>2 DEF Acking
        <3> QED
            BY <3>1, NotAcking
    <2> QED
        BY <1>3, <2>1, <2>2, <2>3, <2>4, <2>5, OtherAck DEF NetStep
<1>4. CASE AppStep
    BY <1>4, AppLeaves, Stays
<1>5. CASE Environment
    BY <1>1, <1>5 DEF Environment, PlatformSends, connlost, devVars
<1> QED
    BY <1>2, <1>3, <1>4, <1>5 DEF Next

\* The answers to updates that a step publishes.
AcksOf(new) == {a \in new : a.op = "update" /\ a.topic = "RESPONSE"}

\* Only messageUpdate publishes one, for the field that it is at.
LEMMA AckSender ==
    ASSUME TypeInv, Next, AcksOf(sent' \ sent) # {}
    PROVE  Acking(net) /\ field.name # "location"
<1>1. ASSUME NEW t \in Threads, NEW topic, PublishIgnoringRc(t, topic)
      PROVE  \/ frame[t].op = "update" /\ topic = "RESPONSE"
             \/ AcksOf(sent' \ sent) = {}
    <2> DEFINE p == Publication(t, topic)
    <2>1. p.op = frame[t].op /\ p.topic = topic
        BY DEF Publication
    <2>2. sent' \ sent \subseteq {p}
        BY <1>1 DEF PublishIgnoringRc
    <2> HIDE DEF p
    <2> QED
        BY <2>1, <2>2 DEF AcksOf
<1>2. UNCHANGED sent => FALSE
    BY DEF AcksOf
<1>3. CASE messageUpdate
    <2>1. CASE AtField("update", "send") /\ field.name # "location"
        BY <2>1 DEF AtField, At, Acking, net
    <2>2. CASE PublishIgnoringRc("net", "UPDATE_LOCATION")
        BY <1>1, <2>2 DEF Threads
    <2> QED
        BY <1>2, <1>3, <2>1, <2>2 DEF messageUpdate
<1>4. ASSUME NEW t \in Threads, NEW topic, publishActionResponse(t, topic), frame[t].op # "update"
      PROVE  FALSE
    BY <1>1, <1>4 DEF publishActionResponse
<1>5. ASSUME NEW t \in Threads, Shared(t) PROVE FALSE
    <2>1. ~CopyRequestID(t) /\ ~FormatMessage(t)
        BY <1>2 DEF CopyRequestID, FormatMessage
    <2>2. ~changeState(t)
        BY <1>2, <1>4 DEF changeState, At
    <2>3. ASSUME NEW op \in Reports, NEW new, NotifyIfObserved(t, op, new) PROVE FALSE
        BY <1>2, <1>4, <2>3 DEF NotifyIfObserved, At, Reports
    <2>4. ~changeFirmwareDownloadState(t)
        BY <1>2, <2>3 DEF changeFirmwareDownloadState, Reports
    <2>5. ~changeFirmwareUpdateState(t)
        BY <1>2, <2>3 DEF changeFirmwareUpdateState, Reports
    <2> QED
        BY <1>5, <2>1, <2>2, <2>4, <2>5 DEF Shared
<1>6. ASSUME PublishIgnoringRc("net", "RESPONSE"), net.op # "update" PROVE FALSE
    BY <1>1, <1>6 DEF Threads, net
<1>7. ~messageFirmwareDownload /\ ~messageFirmwareUpdate /\ ~messageObserve /\ ~messageCancel
    BY <1>2, <1>6 DEF messageFirmwareDownload, messageFirmwareUpdate, messageObserve,
                      messageCancel, At, net
<1>8. ~messageArrived_dm /\ ~messageResponse /\ ~messageForAction /\ ~InvokeCallback
      /\ ~CallbackReturns
    BY <1>2 DEF messageArrived_dm, messageResponse, messageForAction, InvokeCallback, CallbackReturns
<1>9. ~manage /\ ~unmanage
    <2>1. ASSUME NEW topic \in {"MANAGE", "UNMANAGE"}, sent' = sent \cup {Publication("app", topic)}
          PROVE  FALSE
        <3> DEFINE p == Publication("app", topic)
        <3>1. p.topic = topic
            BY DEF Publication
        <3>2. sent' \ sent \subseteq {p}
            BY <2>1
        <3> HIDE DEF p
        <3> QED
            BY <3>1, <3>2 DEF AcksOf
    <2> QED
        BY <1>2, <2>1 DEF manage, unmanage
<1>10. \A h : ~Register(h)
    BY <1>2 DEF Register
<1>11. ~publishEvent /\ ~PlatformSends /\ ~connlost
    BY <1>2 DEF publishEvent, PlatformSends, connlost
<1> QED
    BY <1>3, <1>5, <1>7, <1>8, <1>9, <1>10, <1>11
    DEF Next, NetStep, AppStep, Environment, Threads, setDMCommandHandler, setRebootHandler,
        setFactoryResetHandler, setFirmwareDownloadHandler, setFirmwareUpdateHandler

\* An update is answered with 204 only while the state that it declared is in
\* force, or after manage or unmanage has cleared the device, whatever the
\* application does between the two.
THEOREM AckedInForce == Spec => AckedFirmwareState
<1> DEFINE Acked == \A a \in sent' \ sent :
                        a.op = "update" /\ a.topic = "RESPONSE"
                            => dmClient.state \in {field.state, IDLE}
<1>1. Init => TypeInv /\ AckInv
    <2>1. Init => net.op = "none"
        BY DEF Init, net, Threads, Idle
    <2> QED
        BY <2>1, InitTyped DEF AckInv, Acking
<1>2. TypeInv /\ AckInv /\ [Next]_vars => TypeInv' /\ AckInv'
    BY NextTyped, NextAck
<1>3. TypeInv /\ AckInv /\ [Next]_vars => [Acked]_vars
    <2> SUFFICES ASSUME TypeInv, AckInv, Next PROVE Acked
        OBVIOUS
    <2>1. CASE AcksOf(sent' \ sent) = {}
        BY <2>1 DEF AcksOf
    <2>2. CASE AcksOf(sent' \ sent) # {}
        BY <2>2, AckSender DEF AckInv
    <2> QED
        BY <2>1, <2>2
<1> QED
    BY <1>1, <1>2, <1>3, PTL DEF Spec, AckedFirmwareState
-----------------------------------------------------------------------------
(* The id under which a request that is not parsed is answered.            *)

Unparsed == {"observe", "firmware_update"}
Unmixed(id) == id["lo"] = id["hi"] \/ \E h \in Halves : id[h] \in issued

\* Between two copies of the callback thread the buffer holds one id, or a
\* half of the application.
WholeInv ==
    /\ net.pc # "copy" => Unmixed(currentRequestID)
    /\ net.op \in Unparsed \cup {"none"} => net.pc # "copy"
    /\ net.op \in Unparsed /\ net.pc = "send" => Unmixed(net.id)
    /\ UnparsedAnswersWhole

\* A step that does not write to the buffer.
LEMMA WholeKept ==
    ASSUME WholeInv, issued \subseteq issued', UNCHANGED currentRequestID,
           net.pc = "copy" => net'.pc = "copy",
           net'.op \in Unparsed \cup {"none"} => net'.pc # "copy",
           net'.op \in Unparsed /\ net'.pc = "send" => Unmixed(net'.id),
           \A a \in sent' \ sent : a.op \in Unparsed => Unmixed(a.id)
    PROVE  WholeInv'
<1>1. \A id : Unmixed(id) => Unmixed(id)'
    BY DEF Unmixed
<1>2. UnparsedAnswersWhole'
    <2> SUFFICES ASSUME NEW a \in sent', a.op \in Unparsed PROVE Unmixed(a.id)'
        BY DEF UnparsedAnswersWhole, Unparsed, Unmixed
    <2>1. a \in sent => Unmixed(a.id)
        BY DEF WholeInv, UnparsedAnswersWhole, Unparsed, Unmixed
    <2> QED
        BY <1>1, <2>1
<1>3. Unmixed(currentRequestID) => Unmixed(currentRequestID)'
    BY <1>1
<1>4. Unmixed(net'.id) => Unmixed(net.id)'
    BY DEF Unmixed
<1> QED
    BY <1>2, <1>3, <1>4 DEF WholeInv

LEMMA NetPublishes ==
    ASSUME NEW topic, PublishIgnoringRc("net", topic)
    PROVE  \A a \in sent' \ sent : a.op = net.op /\ a.id = net.id
BY DEF PublishIgnoringRc, Publication, net

\* A step of a request that is parsed, of a response or of a report.
LEMMA ElsewhereWhole ==
    ASSUME TypeInv, WholeInv, UNCHANGED <<currentRequestID, issued>>,
           net.op \notin Unparsed \cup {"none"}, net.pc # "copy",
           net'.op = net.op \/ (net'.op = "none" /\ net'.pc = "start"),
           UNCHANGED sent \/ \E topic : PublishIgnoringRc("net", topic)
    PROVE  WholeInv'
<1>1. \A a \in sent' \ sent : a.op \notin Unparsed
    BY NetPublishes
<1>2. net'.op \notin Unparsed
    BY DEF Unparsed
<1>3. net'.op = "none" => net'.pc # "copy"
    OBVIOUS
<1> QED
    BY <1>1, <1>2, <1>3, WholeKept

LEMMA ParsedWhole ==
    ASSUME TypeInv, WholeInv,
           \/ messageFirmwareDownload \/ messageCancel \/ messageUpdate
           \/ messageResponse \/ messageForAction
    PROVE  WholeInv'
<1>0. net.op \notin Unparsed \cup {"none"} /\ net.pc # "copy"
    BY DEF messageFirmwareDownload, messageCancel, messageUpdate, messageResponse,
           messageForAction, At, AtField, net, Unparsed
<1>1. UNCHANGED <<currentRequestID, issued>>
    BY DEF messageFirmwareDownload, messageCancel, messageUpdate, messageResponse,
           messageForAction, devVars, appVars
<1> DEFINE Stay == net'.op = net.op \/ (net'.op = "none" /\ net'.pc = "start")
           Says == UNCHANGED sent \/ \E topic : PublishIgnoringRc("net", topic)
<1>2. ASSUME Stay, Says PROVE WholeInv'
    BY <1>0, <1>1, <1>2, ElsewhereWhole
<1>3. ParseRequestID => Stay
    BY Places DEF ParseRequestID
<1>4. AfterAnswer => Stay
    BY Places DEF AfterAnswer
<1>5. CASE messageFirmwareDownload
    <2>1. ASSUME NEW rc, Move("net", [net EXCEPT !.pc = "format", !.cb = "download", !.rc = rc])
          PROVE  Stay
        BY <2>1, Places
    <2>2. CASE Move("net", [net EXCEPT !.pc = "format", !.cb = "download",
                              !.rc = IF dmClient.state # IDLE THEN 400 ELSE 202]) /\ UNCHANGED sent
        BY <1>2, <2>1, <2>2
    <2>3. CASE ParseRequestID /\ UNCHANGED sent
        BY <1>2, <1>3, <2>3
    <2>4. CASE PublishIgnoringRc("net", "RESPONSE") /\ AfterAnswer
        BY <1>2, <1>4, <2>4
    <2> QED
        BY <1>5, <2>2, <2>3, <2>4 DEF messageFirmwareDownload
<1>6. CASE messageCancel
    <2>1. Stay
        <3>1. CASE Goto("net", "loop") \/ NextField("net") \/ Return("net")
            BY <3>1, Places
        <3>2. CASE Move("net", [net EXCEPT !.pc = "format", !.rc = 200])
            BY <3>2, Places
        <3> QED
            BY <1>3, <1>6, <3>1, <3>2 DEF messageCancel
    <2>2. Says
        BY <1>6 DEF messageCancel
    <2> QED
        BY <1>2, <2>1, <2>2
<1>7. CASE messageUpdate
    <2>1. Stay
        <3>1. CASE Goto("net", "loop") \/ NextField("net") \/ Return("net")
            BY <3>1, Places
        <3>2. CASE updateLocationRequest \/ updateFirmwareRequest
            BY <3>2, Places DEF updateLocationRequest, updateFirmwareRequest
        <3> QED
            BY <1>3, <1>7, <3>1, <3>2 DEF messageUpdate
    <2>2. Says
        BY <1>7 DEF messageUpdate
    <2> QED
        BY <1>2, <2>1, <2>2
<1>8. CASE messageResponse
    <2>1. Stay
        BY <1>8, Places DEF messageResponse
    <2>2. Says
        BY <1>8 DEF messageResponse
    <2> QED
        BY <1>2, <2>1, <2>2
<1>9. CASE messageForAction
    <2>1. Stay
        BY <1>3, <1>9, Places DEF messageForAction
    <2>2. Says
        BY <1>9 DEF messageForAction
    <2> QED
        BY <1>2, <2>1, <2>2
<1> QED
    BY <1>5, <1>6, <1>7, <1>8, <1>9

\* The requests that are not parsed never copy: what they publish they have
\* read from the buffer.
LEMMA UnparsedWhole ==
    ASSUME TypeInv, WholeInv, messageObserve \/ messageFirmwareUpdate PROVE WholeInv'
<1>0. /\ net.op \in Unparsed /\ net.pc \in {"start", "send"}
      /\ UNCHANGED <<currentRequestID, issued>>
    BY DEF messageObserve, messageFirmwareUpdate, At, net, Unparsed, devVars, appVars
<1>1. net'.pc \in {"format", "check", "start"}
    <2>0. net \in Frame /\ TypeOK
        BY FramesTyped DEF TypeInv
    <2>1. ASSUME NEW rc, Move("net", [net EXCEPT !.pc = "format", !.rc = rc])
          PROVE  net'.pc = "format"
        <3> DEFINE g == [net EXCEPT !.pc = "format", !.rc = rc]
        <3>1. g.pc = "format"
            BY <2>0, Frames
        <3>2. net' = g
            BY <2>0, <2>1, MoveTyped DEF net, Threads
        <3> QED
            BY <3>1, <3>2
    <2>2. ASSUME NEW rc, Move("net", [net EXCEPT !.pc = "format", !.cb = "firmware_update", !.rc = rc])
          PROVE  net'.pc = "format"
        <3> DEFINE g == [net EXCEPT !.pc = "format", !.cb = "firmware_update", !.rc = rc]
        <3>1. g.pc = "format"
            BY <2>0, Frames
        <3>2. net' = g
            BY <2>0, <2>2, MoveTyped DEF net, Threads
        <3> QED
            BY <3>1, <3>2
    <2>3. AfterAnswer => net'.pc \in {"check", "start"}
        BY Places DEF AfterAnswer
    <2> QED
        BY <2>1, <2>2, <2>3, Places DEF messageObserve, messageFirmwareUpdate
<1>2. \A a \in sent' \ sent : Unmixed(a.id)
    <2>1. CASE UNCHANGED sent
        BY <2>1
    <2>2. CASE net.pc = "send" /\ PublishIgnoringRc("net", "RESPONSE")
        BY <1>0, <2>2, NetPublishes DEF WholeInv
    <2> QED
        BY <2>1, <2>2 DEF messageObserve, messageFirmwareUpdate, At, net
<1> QED
    BY <1>0, <1>1, <1>2, WholeKept

LEMMA CallbackWhole ==
    ASSUME TypeInv, WholeInv, InvokeCallback \/ CallbackReturns PROVE WholeInv'
<1>1. net.pc # "copy" /\ UNCHANGED <<currentRequestID, issued, sent>>
    BY DEF InvokeCallback, CallbackReturns, devVars, appVars
<1>2. net' = net \/ net'.pc \in {"call", "callback", "start"}
    BY Places DEF InvokeCallback, CallbackReturns
<1> QED
    BY <1>1, <1>2, WholeKept DEF WholeInv

LEMMA ArrivalWhole == ASSUME TypeInv, WholeInv, messageArrived_dm PROVE WholeInv'
<1>1. UNCHANGED <<currentRequestID, issued, sent>> /\ net.pc # "copy"
    BY DEF messageArrived_dm, devVars, appVars, WholeInv
<1>2. net'.pc = "start"
    <2> DEFINE m == Head(inbox)
    <2>1. PICK passing \in ArgPassing :
            Move("net", IF m.kind = "other" THEN Idle
                        ELSE [Idle EXCEPT !.op = m.kind,
                                !.msg = IF passing = "matched" THEN m
                                        ELSE [m EXCEPT !.payload = "shifted"]])
        BY DEF messageArrived_dm
    <2> DEFINE n == IF passing = "matched" THEN m ELSE [m EXCEPT !.payload = "shifted"]
               f == [Idle EXCEPT !.op = m.kind, !.msg = n]
    <2>2. net' = Idle \/ net' = f
        BY <2>1, MoveTyped DEF Threads, net, TypeInv
    <2> HIDE DEF n
    <2>3. Idle.pc = "start" /\ f.pc = "start"
        BY DEF Idle
    <2> HIDE DEF f
    <2> QED
        BY <2>2, <2>3
<1> QED
    BY <1>1, <1>2, WholeKept

\* A copy of the callback thread ends with a buffer of its own id, except for
\* what the application wrote to it.
LEMMA CopyWhole == ASSUME TypeInv, OwnInv, WholeInv, CopyRequestID("net") PROVE WholeInv'
<1>0. net \in Frame /\ TypeOK /\ UNCHANGED <<issued, sent>> /\ net.pc = "copy"
    BY FramesTyped DEF CopyRequestID, appVars, TypeInv, net
<1>1. PICK h \in net.left :
        /\ currentRequestID' = [currentRequestID EXCEPT ![h] = net.id[h]]
        /\ Move("net", [net EXCEPT !.left = @ \ {h},
                          !.pc = IF net.left = {h} THEN "copied" ELSE "copy"])
    BY DEF CopyRequestID, net
<1> DEFINE left == net.left \ {h}
           pc   == IF net.left = {h} THEN "copied" ELSE "copy"
           g    == [net EXCEPT !.left = left, !.pc = pc]
<1>2. net' = g
    BY <1>0, <1>1, MoveTyped DEF net, Threads
<1> HIDE DEF left
<1>3. g.pc = pc /\ g.op = net.op
    BY <1>0, Frames
<1> HIDE DEF g
<1>4. net.op \notin Unparsed \cup {"none"}
    BY <1>0 DEF WholeInv
<1>5. pc # "copy" => Unmixed(currentRequestID)'
    <2> SUFFICES ASSUME net.left = {h} PROVE Unmixed(currentRequestID)'
        OBVIOUS
    <2>1. h \in Halves /\ net.id = Whole(net.msg.req)
        BY <1>0 DEF OwnInv, NetCopiesOwn, Frame
    <2>2. currentRequestID'[h] = net.msg.req
        BY <1>0, <1>1, <2>1 DEF Whole, TypeOK
    <2>3. \A k \in Halves \ {h} : currentRequestID'[k] \in {net.msg.req} \cup issued
        BY <1>0, <1>1 DEF OwnInv, NetCopiesOwn, TypeOK
    <2> QED
        BY <1>0, <2>1, <2>2, <2>3 DEF Unmixed, Halves
<1>6. UnparsedAnswersWhole'
    BY <1>0 DEF WholeInv, UnparsedAnswersWhole
<1> QED
    BY <1>2, <1>3, <1>4, <1>5, <1>6 DEF WholeInv

\* A message is formatted with what the buffer holds.
LEMMA FormatWhole == ASSUME TypeInv, WholeInv, FormatMessage("net") PROVE WholeInv'
<1>0. net \in Frame /\ UNCHANGED <<currentRequestID, issued, sent>> /\ net.pc = "format"
    BY FramesTyped DEF FormatMessage, devVars, appVars, TypeInv, net
<1> DEFINE g == [net EXCEPT !.id = currentRequestID, !.pc = "send"]
<1>1. g.pc = "send" /\ g.id = currentRequestID
    BY <1>0, Frames
<1>2. net' = g
    BY MoveTyped DEF FormatMessage, net, Threads, TypeInv
<1> HIDE DEF g
<1> QED
    BY <1>0, <1>1, <1>2, WholeKept DEF WholeInv

\* A callback reports.
LEMMA ReportWhole ==
    ASSUME TypeInv, WholeInv,
           changeState("net") \/ changeFirmwareDownloadState("net") \/ changeFirmwareUpdateState("net")
    PROVE  WholeInv'
<1>0. net \in Frame /\ UNCHANGED <<currentRequestID, issued>>
    BY FramesTyped DEF TypeInv, changeState, changeFirmwareDownloadState,
       changeFirmwareUpdateState, devVars, appVars
<1>1. ASSUME NEW op \in Reports, NEW pc \in {"format", "start"}, NEW rc,
             \/ Move("net", [net EXCEPT !.op = op, !.pc = pc, !.rc = rc])
             \/ Move("net", [net EXCEPT !.op = op, !.pc = pc]),
             UNCHANGED sent, net.pc = "callback"
      PROVE  WholeInv'
    <2> DEFINE f == [net EXCEPT !.op = op, !.pc = pc, !.rc = rc]
               g == [net EXCEPT !.op = op, !.pc = pc]
    <2>1. f.op = op /\ g.op = op /\ f.pc = pc /\ g.pc = pc
        BY <1>0, Frames
    <2>2. net' = f \/ net' = g
        BY <1>0, <1>1, MoveTyped DEF net, Threads, TypeInv
    <2> HIDE DEF f, g
    <2>3. net'.pc # "copy" /\ net'.pc # "send"
        BY <1>1, <2>1, <2>2
    <2> QED
        BY <1>0, <1>1, <2>3, WholeKept
<1>2. ASSUME NEW op \in Reports, net.op = op, net.pc # "copy",
             UNCHANGED sent \/ \E topic : PublishIgnoringRc("net", topic),
             Return("net") \/ Goto("net", "send")
      PROVE  WholeInv'
    <2>1. net'.op = net.op \/ (net'.op = "none" /\ net'.pc = "start")
        BY <1>2, Places
    <2>2. net.op \notin Unparsed \cup {"none"}
        BY <1>2 DEF Reports, Unparsed
    <2> QED
        BY <1>0, <1>2, <2>1, <2>2, ElsewhereWhole
<1>3. ASSUME NEW op \in Reports, NEW new, NotifyIfObserved("net", op, new) PROVE WholeInv'
    BY <1>2, <1>3 DEF NotifyIfObserved, publishActionResponse, At, net
<1>4. CASE changeState("net")
    <2>1. CASE At("net", "changeState", "send") /\ publishActionResponse("net", "RESPONSE")
        BY <1>2, <2>1 DEF publishActionResponse, At, net, Reports
    <2> QED
        BY <1>1, <1>4, <2>1 DEF changeState, CanReport, net, Reports
<1>5. CASE changeFirmwareDownloadState("net")
    <2>1. CASE NotifyIfObserved("net", "changeFirmwareDownloadState",
                                [dmClient EXCEPT !.state = frame["net"].rc])
        BY <1>3, <2>1 DEF Reports
    <2> QED
        BY <1>1, <1>5, <2>1 DEF changeFirmwareDownloadState, CanReport, net, Reports
<1>6. CASE changeFirmwareUpdateState("net")
    <2>1. CASE NotifyIfObserved("net", "changeFirmwareUpdateState", dmClient)
        BY <1>3, <2>1 DEF Reports
    <2> QED
        BY <1>1, <1>6, <2>1 DEF changeFirmwareUpdateState, CanReport, net, Reports
<1> QED
    BY <1>4, <1>5, <1>6

\* The application's copies leave a half of its own, and what it publishes
\* answers no request.
LEMMA AppWhole == ASSUME TypeInv, OwnInv, WholeInv, AppStep PROVE WholeInv'
<1>0. net' = net /\ issued \subseteq issued' /\ TypeOK
    BY AppLeaves DEF TypeInv
<1>1. ASSUME UNCHANGED currentRequestID, \A a \in sent' \ sent : a.op \notin Unparsed
      PROVE  WholeInv'
    BY <1>0, <1>1, WholeKept DEF WholeInv
<1>2. ASSUME NEW topic, app.op \notin Unparsed,
             \/ UNCHANGED sent
             \/ PublishIgnoringRc("app", topic)
             \/ sent' = sent \cup {Publication("app", topic)}
      PROVE  \A a \in sent' \ sent : a.op \notin Unparsed
    BY <1>2 DEF PublishIgnoringRc, Publication, app
<1>3. CASE CopyRequestID("app")
    <2>1. PICK h \in app.left :
            app.pc = "copy" /\ currentRequestID' = [currentRequestID EXCEPT ![h] = app.id[h]]
        BY <1>3 DEF CopyRequestID, app
    <2>2. h \in Halves /\ app.id[h] \in issued
        BY <1>0, <2>1, FramesTyped DEF Frame, OwnInv, AppCopiesIssued
    <2>3. UNCHANGED <<issued, sent>>
        BY <1>3 DEF CopyRequestID, appVars
    <2>4. currentRequestID'[h] \in issued'
        BY <1>0, <2>1, <2>2, <2>3 DEF TypeOK
    <2>5. Unmixed(currentRequestID)'
        BY <2>2, <2>4 DEF Unmixed
    <2> QED
        BY <1>0, <2>3, <2>5 DEF WholeInv, UnparsedAnswersWhole, Unmixed
<1>4. CASE manage \/ unmanage
    <2>1. UNCHANGED currentRequestID
        BY <1>4 DEF manage, unmanage
    <2>2. UNCHANGED sent \/ /\ app.op \in {"manage", "unmanage"}
                            /\ \E topic : sent' = sent \cup {Publication("app", topic)}
        BY <1>4 DEF manage, unmanage, At, app
    <2> QED
        BY <1>1, <1>2, <2>1, <2>2 DEF Unparsed
<1>5. CASE FormatMessage("app")
    BY <1>1, <1>5 DEF FormatMessage, devVars
<1>6. ASSUME NEW op \in Reports, NEW new, NotifyIfObserved("app", op, new)
      PROVE  \A a \in sent' \ sent : a.op \notin Unparsed
    <2>1. UNCHANGED sent \/ (app.op = op /\ PublishIgnoringRc("app", "NOTIFY"))
        BY <1>6 DEF NotifyIfObserved, publishActionResponse, At, app
    <2> QED
        BY <1>2, <2>1 DEF Reports, Unparsed
<1>7. CASE changeState("app")
    <2>1. UNCHANGED sent \/ (app.op = "changeState" /\ PublishIgnoringRc("app", "RESPONSE"))
        BY <1>7 DEF changeState, publishActionResponse, At, app
    <2> QED
        BY <1>1, <1>2, <1>7, <2>1 DEF changeState, devVars, Unparsed
<1>8. CASE changeFirmwareDownloadState("app") \/ changeFirmwareUpdateState("app")
    BY <1>1, <1>6, <1>8
    DEF changeFirmwareDownloadState, changeFirmwareUpdateState, Reports
<1>9. ASSUME UNCHANGED <<currentRequestID, sent>> PROVE WholeInv'
    BY <1>1, <1>9
<1>10. CASE publishEvent \/ \E h : Register(h)
    BY <1>9, <1>10 DEF publishEvent, Register, devVars
<1> QED
    BY <1>3, <1>4, <1>5, <1>7, <1>8, <1>10
    DEF AppStep, Shared, setDMCommandHandler, setRebootHandler, setFactoryResetHandler,
        setFirmwareDownloadHandler, setFirmwareUpdateHandler

LEMMA NextWhole == TypeInv /\ OwnInv /\ WholeInv /\ [Next]_vars => WholeInv'
<1> SUFFICES ASSUME TypeInv, OwnInv, WholeInv, [Next]_vars PROVE WholeInv'
    OBVIOUS
<1>1. ASSUME UNCHANGED <<frame, currentRequestID, issued, sent>> PROVE WholeInv'
    BY <1>1, WholeKept DEF WholeInv, net
<1>2. CASE UNCHANGED vars
    BY <1>1, <1>2 DEF vars, devVars, appVars
<1>3. CASE NetStep
    BY <1>3, ArrivalWhole, UnparsedWhole, ParsedWhole, CallbackWhole, CopyWhole, FormatWhole,
       ReportWhole DEF NetStep, Shared
<1>4. CASE AppStep
    BY <1>4, AppWhole
<1>5. CASE Environment
    BY <1>1, <1>5 DEF Environment, PlatformSends, connlost, devVars, appVars
<1> QED
    BY <1>2, <1>3, <1>4, <1>5 DEF Next

\* Observe and firmware update requests, which are answered under whatever the
\* shared buffer holds, are never answered under parts of two requests of the
\* platform: the buffer holds one id whole between any two copies, except for
\* what the application wrote to it.
THEOREM NeverMixed == Spec => []UnparsedAnswersWhole
<1>1. Init => TypeInv /\ OwnInv /\ WholeInv
    <2>1. Init => WholeInv
        BY DEF Init, WholeInv, net, Threads, Idle, Unmixed, Whole, Halves, Unparsed,
               UnparsedAnswersWhole
    <2> QED
        BY <2>1, InitTyped, InitOwn
<1>2. TypeInv /\ OwnInv /\ WholeInv /\ [Next]_vars => (TypeInv /\ OwnInv /\ WholeInv)'
    BY NextTyped, NextKeepsOwn, NextWhole
<1>3. WholeInv => UnparsedAnswersWhole
    BY DEF WholeInv
<1> QED
    BY <1>1, <1>2, <1>3, PTL DEF Spec
=============================================================================
