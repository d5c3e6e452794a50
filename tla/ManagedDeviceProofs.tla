------------------------- MODULE ManagedDeviceProofs -------------------------
(***************************************************************************)
(* Proofs about ManagedDevice, for any sets of ids, requests, handlers and *)
(* codes, and any bound on the messages in flight.                         *)
(***************************************************************************)
EXTENDS ManagedDevice, SequenceTheorems, TLAPS

\* messageObserve does not set bObserve, so the branches that would store a
\* reported state are not taken; typing dmClient.state needs it.
TypeInv == TypeOK /\ dmClient.bObserve = FALSE

-----------------------------------------------------------------------------
(* Typing lemmas.                                                          *)

LEMMA IdleTyped == Idle \in Frame
BY DEF Idle, Frame, NoMessage, Message, Whole, Ids, Field, RequestKinds,
       Operations, Steps, Handlers, Halves

\* Every request and answer of the platform is a message.
LEMMA RequestsAreMessages ==
    ASSUME NEW m \in Requests PROVE m \in Message
BY RequestsAssumption

LEMMA ResponsesAreMessages ==
    ASSUME NEW id \in Ids PROVE Response(id) \in Message
<1>1. NoMessage \in Message
    BY DEF NoMessage, Message, RequestKinds, Ids
<1> QED
    BY <1>1 DEF Response, Message

LEMMA FramesTyped ==
    ASSUME TypeOK PROVE net \in Frame /\ app \in Frame
BY DEF TypeOK, net, app, Threads

\* A move to a frame keeps the frames typed, and concerns one thread.
LEMMA MoveTyped ==
    ASSUME TypeOK, NEW t \in Threads, NEW f, Move(t, f)
    PROVE  /\ f \in Frame => frame' \in [Threads -> Frame]
           /\ frame'[t] = f
           /\ \A s \in Threads \ {t} : frame'[s] = frame[s]
BY DEF Move, TypeOK

\* The operation of a frame that starts to report a code.
LEMMA ReportOperation ==
    ASSUME NEW f \in Frame, NEW op, NEW pc, NEW rc
    PROVE  /\ [f EXCEPT !.op = op, !.pc = pc, !.rc = rc].op = op
           /\ [f EXCEPT !.op = op, !.pc = pc].op = op
BY DEF Frame

\* The frames in which a handler has decided on its answer.
LEMMA DecidedTyped ==
    ASSUME NEW f \in Frame, NEW rc \in Nat, NEW cb \in Handlers
    PROVE  [f EXCEPT !.pc = "format", !.cb = cb, !.rc = rc] \in Frame
BY DEF Frame, Steps

\* Those of the handlers that answer with a constant code.
LEMMA AnsweredTyped ==
    ASSUME TypeOK
    PROVE  /\ [net EXCEPT !.pc = "format", !.rc = 200] \in Frame
           /\ [net EXCEPT !.pc = "format", !.rc = 204] \in Frame
<1>1. ASSUME NEW rc \in Nat PROVE [net EXCEPT !.pc = "format", !.rc = rc] \in Frame
    <2>1. net \in Frame
        BY FramesTyped
    <2> QED
        BY <2>1 DEF Frame, Steps
<1> DEFINE ok == 200
           changed == 204
<1>2. ok \in Nat /\ changed \in Nat
    OBVIOUS
<1> HIDE DEF ok, changed
<1>3. [net EXCEPT !.pc = "format", !.rc = ok] \in Frame
    BY <1>1, <1>2
<1>4. [net EXCEPT !.pc = "format", !.rc = changed] \in Frame
    BY <1>1, <1>2
<1> QED
    BY <1>3, <1>4 DEF ok, changed

LEMMA StepMovesTyped ==
    ASSUME TypeOK, NEW t \in Threads
    PROVE  /\ \A pc \in Steps : Goto(t, pc) => frame' \in [Threads -> Frame]
           /\ Return(t) => frame' \in [Threads -> Frame]
           /\ NextField(t) => frame' \in [Threads -> Frame]
           /\ \A id \in Ids : BeginCopy(t, id) => frame' \in [Threads -> Frame]
<1>1. frame[t] \in Frame
    BY DEF TypeOK
<1>2. ASSUME NEW pc \in Steps PROVE [frame[t] EXCEPT !.pc = pc] \in Frame
    BY <1>1 DEF Frame
<1>3. [frame[t] EXCEPT !.pc = "loop", !.i = @ + 1] \in Frame
    <2>1. frame[t].i + 1 \in Nat
        BY <1>1 DEF Frame
    <2> QED
        BY <1>1, <2>1 DEF Frame, Steps
<1>4. ASSUME NEW id \in Ids
      PROVE [frame[t] EXCEPT !.pc = "copy", !.id = Whole(id), !.left = Halves] \in Frame
    <2>1. Whole(id) \in [Halves -> Ids]
        BY DEF Whole
    <2> QED
        BY <1>1, <2>1 DEF Frame, Steps
<1> QED
    BY <1>2, <1>3, <1>4, MoveTyped, IdleTyped DEF Goto, Return, NextField, BeginCopy

\* What a publish adds to the history is typed.
LEMMA PublishTyped ==
    ASSUME TypeOK, NEW t \in Threads, NEW topic \in Topics,
           PublishIgnoringRc(t, topic)
    PROVE  sent' \subseteq Publications /\ crash' \in Crashes
<1>1. Publication(t, topic) \in Publications
    <2>1. frame[t] \in Frame
        BY DEF TypeOK
    <2>2. frame[t].op \in Operations
        BY <2>1 DEF Frame
    <2>3. frame[t].msg.req \in Ids
        BY <2>1 DEF Frame, Message
    <2> QED
        BY <2>1, <2>2, <2>3 DEF Publication, Publications, Frame
<1> QED
    BY <1>1 DEF PublishIgnoringRc, TypeOK, Crashes

LEMMA ParseTyped ==
    ASSUME TypeOK, ParseRequestID
    PROVE  frame' \in [Threads -> Frame] /\ crash' \in Crashes
<1>1. net.msg.req \in Ids
    BY FramesTyped DEF Frame, Message
<1>2. CASE net.msg.payload = "json"
    BY <1>1, <1>2, StepMovesTyped DEF ParseRequestID, Threads, TypeOK
<1>3. CASE net.msg.payload # "json"
    BY <1>3 DEF ParseRequestID, TypeOK, Crashes
<1> QED
    BY <1>2, <1>3


\* The initial state is typed.
LEMMA InitTyped == Init => TypeInv
<1> SUFFICES ASSUME Init PROVE TypeInv
    OBVIOUS
<1>1. currentRequestID \in [Halves -> Ids]
    BY DEF Init, Whole, Ids
<1>2. dmClient \in [bObserve : BOOLEAN, state : FirmwareStates, client : BOOLEAN]
      /\ dmClient.bObserve = FALSE
    BY DEF Init, Cleared, FirmwareStates
<1>3. frame \in [Threads -> Frame]
    BY IdleTyped DEF Init
<1>4. inbox \in Seq(Message)
    BY DEF Init
<1>5. handler \in [Handlers -> BOOLEAN]
    BY DEF Init
<1> QED
    BY <1>1, <1>2, <1>3, <1>4, <1>5 DEF TypeInv, TypeOK, Init, Crashes

-----------------------------------------------------------------------------
(* Every step keeps the types: one lemma per group of actions.             *)

USE DEF TypeInv

\* A step that changes no more than frames, crash, sent, inbox, taken, called.
LEMMA HandlerTyped ==
    ASSUME TypeInv, UNCHANGED <<devVars, appVars, linkVars>>,
           frame' \in [Threads -> Frame], crash' \in Crashes,
           sent' \subseteq Publications, inbox' \in Seq(Message),
           taken' \subseteq Message,
           called' \subseteq Callbacks
    PROVE  TypeInv'
BY DEF TypeOK, devVars, appVars, linkVars

LEMMA ArrivalTyped == TypeInv /\ messageArrived_dm => TypeInv'
<1> SUFFICES ASSUME TypeInv, messageArrived_dm PROVE TypeInv'
    OBVIOUS
<1> DEFINE m == Head(inbox)
<1>1. m \in Message /\ Tail(inbox) \in Seq(Message)
    BY DEF messageArrived_dm, TypeOK
<1>2. [m EXCEPT !.payload = "shifted"] \in Message
    BY <1>1 DEF Message
<1>3. ASSUME NEW n \in Message
      PROVE [Idle EXCEPT !.op = m.kind, !.msg = n] \in Frame
    BY <1>1, IdleTyped DEF Frame, Message, Operations
<1>4. frame' \in [Threads -> Frame]
    <2>1. PICK passing \in ArgPassing :
            Move("net", IF m.kind = "other" THEN Idle
                        ELSE [Idle EXCEPT !.op = m.kind,
                                !.msg = IF passing = "matched" THEN m
                                        ELSE [m EXCEPT !.payload = "shifted"]])
        BY DEF messageArrived_dm
    <2> QED
        BY <1>1, <1>2, <1>3, <2>1, IdleTyped, MoveTyped DEF Threads
<1> QED
    BY <1>1, <1>4, HandlerTyped DEF messageArrived_dm, TypeOK

LEMMA DownloadTyped == TypeInv /\ messageFirmwareDownload => TypeInv'
<1> SUFFICES ASSUME TypeInv, messageFirmwareDownload
             PROVE frame' \in [Threads -> Frame] /\ crash' \in Crashes
                   /\ sent' \subseteq Publications
    BY HandlerTyped DEF messageFirmwareDownload, TypeOK
<1> "RESPONSE" \in Topics
    BY DEF Topics
<1>1. CASE ParseRequestID /\ UNCHANGED sent
    BY <1>1, ParseTyped DEF TypeOK
<1>2. CASE /\ Move("net", [net EXCEPT !.pc = "format", !.cb = "download",
                             !.rc = IF dmClient.state # IDLE THEN 400 ELSE 202])
           /\ UNCHANGED <<crash, sent>>
    <2> DEFINE rc == IF dmClient.state # IDLE THEN 400 ELSE 202
    <2>1. rc \in Nat
        OBVIOUS
    <2> HIDE DEF rc
    <2>2. [net EXCEPT !.pc = "format", !.cb = "download", !.rc = rc] \in Frame
        BY <2>1, FramesTyped, DecidedTyped DEF Handlers
    <2> QED
        BY <1>2, <2>2, MoveTyped DEF TypeOK, Threads, rc
<1>3. CASE PublishIgnoringRc("net", "RESPONSE") /\ AfterAnswer
    BY <1>3, PublishTyped, StepMovesTyped DEF AfterAnswer, Threads, Steps
<1> QED
    BY <1>1, <1>2, <1>3 DEF messageFirmwareDownload

LEMMA FirmwareUpdateTyped == TypeInv /\ messageFirmwareUpdate => TypeInv'
<1> SUFFICES ASSUME TypeInv, messageFirmwareUpdate
             PROVE frame' \in [Threads -> Frame] /\ crash' \in Crashes
                   /\ sent' \subseteq Publications
    BY HandlerTyped DEF messageFirmwareUpdate, TypeOK
<1> "RESPONSE" \in Topics
    BY DEF Topics
<1>1. CASE /\ Move("net", [net EXCEPT !.pc = "format", !.cb = "firmware_update",
                             !.rc = FirmwareUpdateCode])
           /\ UNCHANGED <<crash, sent>>
    <2> DEFINE rc == FirmwareUpdateCode
    <2>1. rc \in Nat
        BY DEF FirmwareUpdateCode
    <2> HIDE DEF rc
    <2>2. [net EXCEPT !.pc = "format", !.cb = "firmware_update", !.rc = rc] \in Frame
        BY <2>1, FramesTyped, DecidedTyped DEF Handlers
    <2> QED
        BY <1>1, <2>2, MoveTyped DEF TypeOK, Threads, rc
<1>2. CASE PublishIgnoringRc("net", "RESPONSE") /\ AfterAnswer
    BY <1>2, PublishTyped, StepMovesTyped DEF AfterAnswer, Threads, Steps
<1> QED
    BY <1>1, <1>2 DEF messageFirmwareUpdate

LEMMA ObserveTyped == TypeInv /\ messageObserve => TypeInv'
<1> SUFFICES ASSUME TypeInv, messageObserve
             PROVE frame' \in [Threads -> Frame] /\ crash' \in Crashes
                   /\ sent' \subseteq Publications
    BY HandlerTyped DEF messageObserve, TypeOK
<1> "RESPONSE" \in Topics
    BY DEF Topics
<1>1. CASE Move("net", [net EXCEPT !.pc = "format", !.rc = 200]) /\ UNCHANGED <<crash, sent>>
    <2>1. [net EXCEPT !.pc = "format", !.rc = 200] \in Frame
        BY AnsweredTyped
    <2>2. frame' \in [Threads -> Frame]
        BY <1>1, <2>1, MoveTyped DEF Threads
    <2> QED
        BY <1>1, <2>2 DEF TypeOK
<1>2. CASE PublishIgnoringRc("net", "RESPONSE") /\ Return("net")
    BY <1>2, PublishTyped, StepMovesTyped DEF Threads
<1> QED
    BY <1>1, <1>2 DEF messageObserve

\* A step that changes dmClient too.
LEMMA DeviceTyped ==
    ASSUME TypeInv, UNCHANGED <<currentRequestID, interrupt, appVars, linkVars,
                                inbox, taken, called>>,
           dmClient' \in [bObserve : {FALSE}, state : FirmwareStates, client : BOOLEAN],
           frame' \in [Threads -> Frame], crash' \in Crashes, sent' \subseteq Publications
    PROVE  TypeInv'
BY DEF TypeOK, appVars, linkVars

LEMMA DeviceTypedNow ==
    ASSUME TypeInv
    PROVE  dmClient \in [bObserve : {FALSE}, state : FirmwareStates, client : BOOLEAN]
BY DEF TypeOK

LEMMA CancelTyped == TypeInv /\ messageCancel => TypeInv'
<1> SUFFICES ASSUME TypeInv, messageCancel
             PROVE /\ dmClient' \in [bObserve : {FALSE}, state : FirmwareStates, client : BOOLEAN]
                   /\ frame' \in [Threads -> Frame] /\ crash' \in Crashes
                   /\ sent' \subseteq Publications
    BY DeviceTyped DEF messageCancel
<1> "RESPONSE" \in Topics
    BY DEF Topics
<1>1. CASE ParseRequestID /\ UNCHANGED <<dmClient, sent>>
    BY <1>1, ParseTyped, DeviceTypedNow DEF TypeOK
<1>2. CASE Goto("net", "loop") /\ UNCHANGED <<dmClient, crash, sent>>
    BY <1>2, StepMovesTyped, DeviceTypedNow DEF TypeOK, Threads, Steps
<1>3. CASE /\ dmClient' = [dmClient EXCEPT !.bObserve = FALSE]
           /\ Move("net", [net EXCEPT !.pc = "format", !.rc = 200])
           /\ UNCHANGED <<crash, sent>>
    <2>1. [net EXCEPT !.pc = "format", !.rc = 200] \in Frame
        BY AnsweredTyped
    <2>2. frame' \in [Threads -> Frame]
        BY <1>3, <2>1, MoveTyped DEF Threads
    <2>3. dmClient' \in [bObserve : {FALSE}, state : FirmwareStates, client : BOOLEAN]
        BY <1>3, DeviceTypedNow
    <2> QED
        BY <1>3, <2>2, <2>3 DEF TypeOK
<1>4. CASE NextField("net") /\ UNCHANGED <<dmClient, crash, sent>>
    BY <1>4, StepMovesTyped, DeviceTypedNow DEF TypeOK, Threads
<1>5. CASE Return("net") /\ UNCHANGED <<dmClient, crash, sent>>
    BY <1>5, StepMovesTyped, DeviceTypedNow DEF TypeOK, Threads
<1>6. CASE PublishIgnoringRc("net", "RESPONSE") /\ NextField("net") /\ UNCHANGED dmClient
    BY <1>6, PublishTyped, StepMovesTyped, DeviceTypedNow DEF Threads
<1> QED
    BY <1>1, <1>2, <1>3, <1>4, <1>5, <1>6 DEF messageCancel

LEMMA UpdateTyped == TypeInv /\ messageUpdate => TypeInv'
<1> SUFFICES ASSUME TypeInv, messageUpdate
             PROVE /\ dmClient' \in [bObserve : {FALSE}, state : FirmwareStates, client : BOOLEAN]
                   /\ frame' \in [Threads -> Frame] /\ crash' \in Crashes
                   /\ sent' \subseteq Publications
    BY DeviceTyped DEF messageUpdate
<1> "RESPONSE" \in Topics /\ "UPDATE_LOCATION" \in Topics
    BY DEF Topics
<1>1. CASE /\ IF net.msg.payload = "malformed"
              THEN Return("net") /\ UNCHANGED crash
              ELSE ParseRequestID
           /\ UNCHANGED <<dmClient, sent>>
    BY <1>1, ParseTyped, StepMovesTyped, DeviceTypedNow DEF TypeOK, Threads
<1>2. CASE Goto("net", "loop") /\ UNCHANGED <<dmClient, crash, sent>>
    BY <1>2, StepMovesTyped, DeviceTypedNow DEF TypeOK, Threads, Steps
<1>3. CASE updateLocationRequest /\ UNCHANGED <<crash, sent>>
    BY <1>3, StepMovesTyped, DeviceTypedNow DEF updateLocationRequest, TypeOK, Threads, Steps
<1>4. CASE AtField("update", "loop") /\ updateFirmwareRequest /\ UNCHANGED <<crash, sent>>
    <2>1. field.state \in FirmwareStates
        <3>1. net.msg.fields \in Seq(Field) /\ net.i \in 1 .. Len(net.msg.fields)
            BY <1>4, FramesTyped DEF Frame, Message, AtField
        <3>2. field \in Field
            BY <3>1 DEF field
        <3> QED
            BY <3>2 DEF Field
    <2>2. [net EXCEPT !.pc = "format", !.rc = 204] \in Frame
        BY AnsweredTyped
    <2>3. frame' \in [Threads -> Frame]
        BY <1>4, <2>2, MoveTyped DEF updateFirmwareRequest, Threads
    <2>4. dmClient' \in [bObserve : {FALSE}, state : FirmwareStates, client : BOOLEAN]
        BY <1>4, <2>1, DeviceTypedNow DEF updateFirmwareRequest
    <2> QED
        BY <1>4, <2>3, <2>4 DEF TypeOK
<1>5. CASE NextField("net") /\ UNCHANGED <<dmClient, crash, sent>>
    BY <1>5, StepMovesTyped, DeviceTypedNow DEF TypeOK, Threads
<1>6. CASE Return("net") /\ UNCHANGED <<dmClient, crash, sent>>
    BY <1>6, StepMovesTyped, DeviceTypedNow DEF TypeOK, Threads
<1>7. CASE /\ PublishIgnoringRc("net", IF field.name = "location" THEN "UPDATE_LOCATION"
                                                                 ELSE "RESPONSE")
           /\ NextField("net") /\ UNCHANGED dmClient
    BY <1>7, PublishTyped, StepMovesTyped, DeviceTypedNow DEF Threads
<1> QED
    BY <1>1, <1>2, <1>3, <1>4, <1>5, <1>6, <1>7 DEF messageUpdate

LEMMA ResponseTyped == TypeInv /\ messageResponse => TypeInv'
<1> SUFFICES ASSUME TypeInv, messageResponse
             PROVE frame' \in [Threads -> Frame] /\ crash' \in Crashes /\ interrupt' \in BOOLEAN
    BY DEF messageResponse, TypeOK, appVars, linkVars
<1>1. CASE /\ Return("net") \/ Goto("net", "match") \/ UNCHANGED frame
           /\ crash' \in {crash, "payload"} /\ UNCHANGED interrupt
    BY <1>1, StepMovesTyped DEF TypeOK, Threads, Steps, Crashes
<1>2. CASE /\ interrupt' = TRUE /\ UNCHANGED crash
           /\ Move("net", [net EXCEPT !.pc = "call", !.cb = "dm"])
    <2>1. [net EXCEPT !.pc = "call", !.cb = "dm"] \in Frame
        BY FramesTyped DEF Frame, Steps, Handlers
    <2> QED
        BY <1>2, <2>1, MoveTyped DEF TypeOK, Threads
<1> QED
    BY <1>1, <1>2 DEF messageResponse

LEMMA ActionTyped == TypeInv /\ messageForAction => TypeInv'
<1> SUFFICES ASSUME TypeInv, messageForAction
             PROVE frame' \in [Threads -> Frame] /\ crash' \in Crashes
    BY HandlerTyped DEF messageForAction, TypeOK
<1>1. CASE ParseRequestID
    BY <1>1, ParseTyped
<1>2. CASE Return("net") /\ UNCHANGED crash
    BY <1>2, StepMovesTyped DEF TypeOK, Threads
<1>3. CASE /\ \/ Move("net", [net EXCEPT !.pc = "call", !.cb = "reboot"])
              \/ Move("net", [net EXCEPT !.pc = "check", !.cb = "factory_reset"])
           /\ UNCHANGED crash
    <2>1. /\ [net EXCEPT !.pc = "call", !.cb = "reboot"] \in Frame
          /\ [net EXCEPT !.pc = "check", !.cb = "factory_reset"] \in Frame
        BY FramesTyped DEF Frame, Steps, Handlers
    <2> QED
        BY <1>3, <2>1, MoveTyped DEF TypeOK, Threads
<1> QED
    BY <1>1, <1>2, <1>3 DEF messageForAction

LEMMA CallbackTyped == TypeInv /\ (InvokeCallback \/ CallbackReturns) => TypeInv'
<1> SUFFICES ASSUME TypeInv, InvokeCallback \/ CallbackReturns
             PROVE frame' \in [Threads -> Frame] /\ crash' \in Crashes /\ called' \subseteq Callbacks
    BY HandlerTyped DEF InvokeCallback, CallbackReturns, TypeOK
<1>1. CASE CallbackReturns
    BY <1>1, StepMovesTyped DEF CallbackReturns, TypeOK, Threads
<1>2. CASE InvokeCallback
    <2>1. [cb |-> net.cb, op |-> net.op, req |-> net.msg.req] \in Callbacks
        BY FramesTyped DEF Frame, Message, Callbacks
    <2> QED
        BY <1>2, <2>1, StepMovesTyped DEF InvokeCallback, TypeOK, Threads, Steps, Crashes
<1> QED
    BY <1>1, <1>2

LEMMA SharedTyped ==
    ASSUME TypeInv, NEW t \in Threads, Shared(t)
    PROVE  TypeInv'
<1>0. frame[t] \in Frame
    BY DEF TypeOK
<1>1. CASE CopyRequestID(t)
    <2>1. PICK h \in frame[t].left :
            /\ currentRequestID' = [currentRequestID EXCEPT ![h] = frame[t].id[h]]
            /\ Move(t, [frame[t] EXCEPT !.left = @ \ {h},
                          !.pc = IF frame[t].left = {h} THEN "copied" ELSE "copy"])
        BY <1>1 DEF CopyRequestID
    <2>2. currentRequestID' \in [Halves -> Ids]
        BY <1>0, <2>1 DEF TypeOK, Frame
    <2>3. ASSUME NEW pc \in Steps
          PROVE [frame[t] EXCEPT !.left = @ \ {h}, !.pc = pc] \in Frame
        BY <1>0 DEF Frame
    <2>4. frame' \in [Threads -> Frame]
        BY <2>1, <2>3, MoveTyped DEF Steps
    <2> QED
        BY <1>1, <2>2, <2>4 DEF CopyRequestID, TypeOK, appVars, linkVars
<1>2. CASE FormatMessage(t)
    <2>1. [frame[t] EXCEPT !.id = currentRequestID, !.pc = "send"] \in Frame
        BY <1>0 DEF TypeOK, Frame, Steps
    <2> QED
        BY <1>2, <2>1, MoveTyped, HandlerTyped DEF FormatMessage, TypeOK
<1>3. CASE changeState(t)
    <2> SUFFICES frame' \in [Threads -> Frame] /\ crash' \in Crashes /\ sent' \subseteq Publications
        BY <1>3, HandlerTyped DEF changeState, TypeOK
    <2>1. ASSUME NEW rc \in ActionCodes,
                 Move(t, [frame[t] EXCEPT !.op = "changeState", !.pc = "format", !.rc = rc]),
                 UNCHANGED <<crash, sent>>
          PROVE frame' \in [Threads -> Frame] /\ crash' \in Crashes /\ sent' \subseteq Publications
        <3>1. rc \in Nat
            BY EnvironmentAssumption
        <3>2. [frame[t] EXCEPT !.op = "changeState", !.pc = "format", !.rc = rc] \in Frame
            BY <1>0, <3>1 DEF Frame, Operations, Steps
        <3> QED
            BY <2>1, <3>2, MoveTyped DEF TypeOK
    <2>2. CASE PublishIgnoringRc(t, "RESPONSE") /\ Return(t)
        BY <2>2, PublishTyped, StepMovesTyped DEF Topics
    <2> QED
        BY <1>3, <2>1, <2>2 DEF changeState, publishActionResponse
<1>4. ASSUME NEW op, NEW new, NotifyIfObserved(t, op, new)
      PROVE /\ UNCHANGED dmClient
            /\ frame' \in [Threads -> Frame] /\ crash' \in Crashes /\ sent' \subseteq Publications
    <2>1. CASE Return(t) /\ UNCHANGED <<dmClient, crash, sent>>
        BY <2>1, StepMovesTyped DEF TypeOK
    <2>2. CASE PublishIgnoringRc(t, "NOTIFY") /\ Return(t) /\ UNCHANGED dmClient
        BY <2>2, PublishTyped, StepMovesTyped DEF Topics
    <2> QED
        BY <1>4, <2>1, <2>2 DEF NotifyIfObserved, publishActionResponse
<1>5. CASE changeFirmwareDownloadState(t)
    <2>1. ASSUME NEW state \in ReportedStates,
                 Move(t, [frame[t] EXCEPT !.op = "changeFirmwareDownloadState",
                                          !.pc = "start", !.rc = state])
          PROVE frame' \in [Threads -> Frame]
        <3>1. state \in Nat
            BY EnvironmentAssumption DEF FirmwareStates, IDLE, DOWNLOADING, DOWNLOADED
        <3>2. [frame[t] EXCEPT !.op = "changeFirmwareDownloadState",
                               !.pc = "start", !.rc = state] \in Frame
            BY <1>0, <3>1 DEF Frame, Operations, Steps
        <3> QED
            BY <2>1, <3>2, MoveTyped
    <2>2. /\ UNCHANGED dmClient
          /\ frame' \in [Threads -> Frame] /\ crash' \in Crashes /\ sent' \subseteq Publications
        BY <1>4, <1>5, <2>1 DEF changeFirmwareDownloadState, TypeOK
    <2> QED
        BY <1>5, <2>2, DeviceTyped, DeviceTypedNow DEF changeFirmwareDownloadState
<1>6. CASE changeFirmwareUpdateState(t)
    <2>1. [frame[t] EXCEPT !.op = "changeFirmwareUpdateState", !.pc = "start"] \in Frame
        BY <1>0 DEF Frame, Operations, Steps
    <2>2. /\ UNCHANGED dmClient
          /\ frame' \in [Threads -> Frame] /\ crash' \in Crashes /\ sent' \subseteq Publications
        BY <1>4, <1>6, <2>1, MoveTyped DEF changeFirmwareUpdateState, TypeOK
    <2> QED
        BY <1>6, <2>2, DeviceTyped, DeviceTypedNow DEF changeFirmwareUpdateState
<1> QED
    BY <1>1, <1>2, <1>3, <1>5, <1>6 DEF Shared

LEMMA NetStepTyped == TypeInv /\ NetStep => TypeInv'
BY ArrivalTyped, DownloadTyped, FirmwareUpdateTyped, ObserveTyped, CancelTyped,
   UpdateTyped, ResponseTyped, ActionTyped, CallbackTyped, SharedTyped
DEF NetStep, Threads

\* A new request of the application.
LEMMA BeginRequestTyped ==
    ASSUME TypeInv, NEW op \in Operations, BeginRequest(op)
    PROVE  frame' \in [Threads -> Frame] /\ issued' \subseteq AppIds
<1>1. PICK id \in AppIds \ issued :
        /\ issued' = issued \cup {id}
        /\ Move("app", [Idle EXCEPT !.op = op, !.pc = "copy",
                                    !.id = Whole(id), !.left = Halves])
    BY DEF BeginRequest
<1>2. Whole(id) \in [Halves -> Ids]
    BY DEF Whole, Ids
<1>3. [Idle EXCEPT !.op = op, !.pc = "copy", !.id = Whole(id), !.left = Halves] \in Frame
    BY <1>2, IdleTyped DEF Frame, Steps
<1> QED
    BY <1>1, <1>3, MoveTyped DEF TypeOK, Threads

\* A step of manage or unmanage.
LEMMA RequestTyped ==
    ASSUME TypeInv, UNCHANGED <<currentRequestID, interrupt, handler, connected,
                                crash, inbox, taken, called>>,
           dmClient' \in [bObserve : {FALSE}, state : FirmwareStates, client : BOOLEAN],
           managed' \in BOOLEAN, issued' \subseteq AppIds, subscribed' \in BOOLEAN,
           enrolled' \in BOOLEAN, frame' \in [Threads -> Frame], sent' \subseteq Publications
    PROVE  TypeInv'
BY DEF TypeOK

LEMMA AppPublicationTyped ==
    ASSUME TypeInv, NEW topic \in Topics
    PROVE  Publication("app", topic) \in Publications
BY FramesTyped DEF Publication, Publications, Frame, Message, app

LEMMA ClearTyped ==
    ASSUME TypeInv, ClearDevice \/ StoreClient \/ UNCHANGED dmClient
    PROVE  dmClient' \in [bObserve : {FALSE}, state : FirmwareStates, client : BOOLEAN]
<1>1. CASE ClearDevice
    BY <1>1 DEF ClearDevice, Cleared, FirmwareStates
<1>2. CASE StoreClient
    BY <1>2, DeviceTypedNow DEF StoreClient
<1>3. CASE UNCHANGED dmClient
    BY <1>3, DeviceTypedNow
<1> QED
    BY <1>1, <1>2, <1>3

LEMMA ManageTyped == TypeInv /\ manage => TypeInv'
<1> SUFFICES ASSUME TypeInv, manage
             PROVE /\ ClearDevice \/ StoreClient \/ UNCHANGED dmClient
                   /\ managed' \in BOOLEAN /\ issued' \subseteq AppIds
                   /\ subscribed' \in BOOLEAN /\ enrolled' \in BOOLEAN
                   /\ frame' \in [Threads -> Frame] /\ sent' \subseteq Publications
    BY ClearTyped, RequestTyped DEF manage
<1>1. CASE BeginRequest("manage") /\ UNCHANGED <<dmClient, managed, subscribed, enrolled, sent>>
    BY <1>1, BeginRequestTyped DEF TypeOK, Operations
<1>2. CASE /\ ClearDevice \/ UNCHANGED dmClient
           /\ Goto("app", "send") \/ Goto("app", "client")
           /\ subscribed' = TRUE \/ UNCHANGED subscribed
           /\ UNCHANGED <<managed, issued, enrolled, sent>>
    BY <1>2, StepMovesTyped DEF TypeOK, Threads, Steps
<1>3. CASE /\ managed' = TRUE /\ Goto("app", "memset")
           /\ sent' = sent \cup {Publication("app", "MANAGE")}
           /\ enrolled' \in {enrolled, TRUE}
           /\ UNCHANGED <<dmClient, issued, subscribed>>
    BY <1>3, StepMovesTyped, AppPublicationTyped DEF TypeOK, Threads, Steps, Topics
<1>4. CASE /\ StoreClient \/ UNCHANGED dmClient
           /\ Return("app") /\ UNCHANGED <<managed, issued, subscribed, enrolled, sent>>
    BY <1>4, StepMovesTyped DEF TypeOK, Threads
<1> QED
    BY <1>1, <1>2, <1>3, <1>4 DEF manage

LEMMA UnmanageTyped == TypeInv /\ unmanage => TypeInv'
<1> SUFFICES ASSUME TypeInv, unmanage
             PROVE /\ ClearDevice \/ UNCHANGED dmClient
                   /\ managed' \in BOOLEAN /\ issued' \subseteq AppIds /\ enrolled' \in BOOLEAN
                   /\ frame' \in [Threads -> Frame] /\ sent' \subseteq Publications
    BY ClearTyped, RequestTyped DEF unmanage, TypeOK
<1>1. CASE BeginRequest("unmanage") /\ UNCHANGED <<dmClient, managed, enrolled, sent>>
    BY <1>1, BeginRequestTyped DEF TypeOK, Operations
<1>2. CASE /\ Goto("app", "memset")
           /\ sent' = sent \cup {Publication("app", "UNMANAGE")}
           /\ enrolled' \in {enrolled, FALSE} /\ UNCHANGED <<dmClient, managed, issued>>
    BY <1>2, StepMovesTyped, AppPublicationTyped DEF TypeOK, Threads, Steps, Topics
<1>3. CASE Return("app") /\ UNCHANGED <<dmClient, managed, issued, enrolled, sent>>
    BY <1>3, StepMovesTyped DEF TypeOK, Threads
<1>4. CASE Goto("app", "unmark") /\ ClearDevice /\ UNCHANGED <<managed, issued, enrolled, sent>>
    BY <1>4, StepMovesTyped DEF TypeOK, Threads, Steps
<1>5. CASE Return("app") /\ managed' = FALSE /\ UNCHANGED <<dmClient, issued, enrolled, sent>>
    BY <1>5, StepMovesTyped DEF TypeOK, Threads
<1> QED
    BY <1>1, <1>2, <1>3, <1>4, <1>5 DEF unmanage

LEMMA RegisterTyped ==
    ASSUME TypeInv, NEW h \in Handlers, Register(h)
    PROVE  TypeInv'
BY DEF Register, TypeOK, devVars, linkVars

LEMMA AppStepTyped == TypeInv /\ AppStep => TypeInv'
<1> SUFFICES ASSUME TypeInv, AppStep PROVE TypeInv'
    OBVIOUS
<1>1. CASE \E h \in Handlers : Register(h)
    BY <1>1, RegisterTyped
<1>2. CASE publishEvent
    BY <1>2 DEF publishEvent, TypeOK, devVars, appVars
<1> QED
    BY <1>1, <1>2, ManageTyped, UnmanageTyped, SharedTyped
    DEF AppStep, Threads, Handlers, setDMCommandHandler, setRebootHandler,
        setFactoryResetHandler, setFirmwareDownloadHandler, setFirmwareUpdateHandler

LEMMA EnvironmentTyped == TypeInv /\ Environment => TypeInv'
<1> SUFFICES ASSUME TypeInv, Environment PROVE TypeInv'
    OBVIOUS
<1>1. CASE PlatformSends
    <2>1. PICK m \in (IF enrolled THEN Requests ELSE {})
                     \cup {Response(a.id["lo"]) : a \in {p \in sent : p.topic \in {"MANAGE", "UNMANAGE"}}} :
            inbox' = Append(inbox, m)
        BY <1>1 DEF PlatformSends
    <2>2. m \in Message
        <3>1. ASSUME NEW a \in sent PROVE a.id["lo"] \in Ids
            BY DEF TypeOK, Publications, Halves
        <3> QED
            BY <2>1, <3>1, RequestsAreMessages, ResponsesAreMessages
    <2>3. inbox' \in Seq(Message)
        BY <2>1, <2>2 DEF TypeOK
    <2>4. UNCHANGED <<devVars, appVars, linkVars, frame, crash, taken, called, sent>>
        BY <1>1 DEF PlatformSends
    <2> QED
        BY <2>3, <2>4, HandlerTyped DEF TypeOK
<1>2. CASE connlost
    <2>1. PICK n \in 0 .. Len(inbox) : inbox' = SubSeq(inbox, 1, n)
        BY <1>2 DEF connlost
    <2>2. inbox' \in Seq(Message)
        BY <2>1, SubSeqProperties DEF TypeOK
    <2>3. /\ connected' = FALSE /\ subscribed' = FALSE
          /\ UNCHANGED <<devVars, appVars, enrolled, frame, crash, taken, called, sent>>
        BY <1>2 DEF connlost
    <2> QED
        BY <2>2, <2>3 DEF TypeOK, devVars, appVars
<1> QED
    BY <1>1, <1>2 DEF Environment

LEMMA NextTyped == TypeInv /\ [Next]_vars => TypeInv'
<1>1. ASSUME TypeInv, UNCHANGED vars PROVE TypeInv'
    BY <1>1 DEF TypeOK, vars, devVars, appVars, linkVars
<1> QED
    BY <1>1, NetStepTyped, AppStepTyped, EnvironmentTyped DEF Next

\* Every variable keeps its type.
THEOREM TypeCorrect == Spec => []TypeOK
<1>1. Init => TypeInv
    BY InitTyped
<1>2. TypeInv /\ [Next]_vars => TypeInv'
    BY NextTyped
<1>3. TypeInv => TypeOK
    OBVIOUS
<1> QED
    BY <1>1, <1>2, <1>3, PTL DEF Spec

-----------------------------------------------------------------------------
(* The client that the handlers answer through.                            *)

\* ClientIffManaged is not inductive alone: the last step of manage must find
\* the device managed, and a process that ended must keep its NULL client.
ClientInv ==
    /\ ClientIffManaged
    /\ Enrolling => managed
    /\ Leaving => ~dmClient.client
    /\ crash = "client" => ~dmClient.client

\* What the callback thread leaves alone.
LEMMA NetKeepsClient ==
    ASSUME TypeInv, NetStep
    PROVE  /\ app' = app /\ managed' = managed
           /\ dmClient'.client = dmClient.client
           /\ crash' = "client" => ~dmClient.client
<1>1. ASSUME NEW f, Move("net", f) PROVE app' = app
    BY <1>1, MoveTyped DEF Threads, app
<1>2. UNCHANGED frame => app' = app
    BY DEF app
<1>3. ASSUME NEW t, NEW topic, PublishIgnoringRc(t, topic), crash = "none"
      PROVE crash' = "client" => ~dmClient.client
    BY <1>3 DEF PublishIgnoringRc
<1> crash = "none"
    BY DEF NetStep
<1> USE DEF Goto, Return, NextField, BeginCopy, devVars, appVars
<1>4. CASE messageArrived_dm
    BY <1>1, <1>4 DEF messageArrived_dm
<1>5. CASE messageFirmwareDownload
    BY <1>1, <1>2, <1>3, <1>5 DEF messageFirmwareDownload, ParseRequestID, AfterAnswer
<1>6. CASE messageFirmwareUpdate
    BY <1>1, <1>2, <1>3, <1>6 DEF messageFirmwareUpdate, AfterAnswer
<1>7. CASE messageObserve
    BY <1>1, <1>2, <1>3, <1>7 DEF messageObserve
<1>8. CASE messageCancel
    BY <1>1, <1>2, <1>3, <1>8, DeviceTypedNow DEF messageCancel, ParseRequestID
<1>9. CASE messageUpdate
    BY <1>1, <1>2, <1>3, <1>9, DeviceTypedNow
    DEF messageUpdate, ParseRequestID, updateLocationRequest, updateFirmwareRequest
<1>10. CASE messageResponse
    BY <1>1, <1>2, <1>10 DEF messageResponse
<1>11. CASE messageForAction
    BY <1>1, <1>2, <1>11 DEF messageForAction, ParseRequestID
<1>12. CASE InvokeCallback \/ CallbackReturns
    BY <1>1, <1>2, <1>12 DEF InvokeCallback, CallbackReturns
<1>13. CASE CopyRequestID("net") \/ FormatMessage("net")
    BY <1>1, <1>13 DEF CopyRequestID, FormatMessage
<1>14. CASE changeState("net")
    BY <1>1, <1>3, <1>14 DEF changeState, publishActionResponse
<1>15. CASE changeFirmwareDownloadState("net") \/ changeFirmwareUpdateState("net")
    BY <1>1, <1>3, <1>15
    DEF changeFirmwareDownloadState, changeFirmwareUpdateState, NotifyIfObserved,
        publishActionResponse
<1> QED
    BY <1>4, <1>5, <1>6, <1>7, <1>8, <1>9, <1>10, <1>11, <1>12, <1>13, <1>14, <1>15
    DEF NetStep, Shared

\* The steps of manage: the client is stored after the device is managed.
LEMMA ManageKeepsClientInv == TypeInv /\ ClientInv /\ crash = "none" /\ manage => ClientInv'
<1> SUFFICES ASSUME TypeInv, ClientInv, crash = "none", manage PROVE ClientInv'
    OBVIOUS
<1> USE DEF Enrolling, Leaving, At, ClientInv, ClientIffManaged
<1>0. \A f : Move("app", f) => app' = f
    BY MoveTyped DEF Threads, app
<1>00. app \in Frame /\ app = frame["app"] /\ app' = frame'["app"] /\ crash' = "none"
    BY FramesTyped DEF app, manage
<1>1. CASE ~managed /\ BeginRequest("manage") /\ UNCHANGED <<dmClient, managed>>
    <2>1. app'.pc = "copy"
        BY <1>0, <1>1, IdleTyped DEF BeginRequest, Idle
    <2> QED
        BY <1>00, <1>1, <2>1 DEF BeginRequest, Idle
<1>2. CASE app.op = "manage" /\ app.pc = "copied" /\ Goto("app", "send") /\ UNCHANGED <<dmClient, managed>>
    <2>1. app'.pc = "send"
        BY <1>0, <1>00, <1>2 DEF Goto, Frame
    <2> QED
        BY <1>00, <1>2, <2>1
<1>3. CASE app.op = "manage" /\ app.pc = "send" /\ managed' = TRUE /\ Goto("app", "memset")
    <2>1. app'.pc = "memset" /\ app'.op = "manage"
        BY <1>0, <1>00, <1>3 DEF Goto, Frame
    <2> QED
        BY <1>00, <1>3, <2>1
<1>4. CASE app.op = "manage" /\ app.pc = "send" /\ Return("app") /\ UNCHANGED <<dmClient, managed>>
    <2>1. app'.pc = "start"
        BY <1>0, <1>4 DEF Return, Idle
    <2> QED
        BY <1>00, <1>4, <2>1
<1>5. CASE app.op = "manage" /\ app.pc = "memset" /\ Goto("app", "client") /\ UNCHANGED managed
    <2>1. app'.pc = "client" /\ app'.op = "manage"
        BY <1>0, <1>00, <1>5 DEF Goto, Frame
    <2> QED
        BY <1>00, <1>5, <2>1
<1>6. CASE app.op = "manage" /\ app.pc = "client" /\ Return("app") /\ StoreClient /\ UNCHANGED managed
    <2>1. app'.pc = "start"
        BY <1>0, <1>6 DEF Return, Idle
    <2>2. dmClient'.client = TRUE
        BY <1>6 DEF StoreClient, TypeOK
    <2> QED
        BY <1>00, <1>6, <2>1, <2>2
<1> QED
    BY <1>1, <1>2, <1>3, <1>4, <1>5, <1>6, <1>00 DEF manage

LEMMA UnmanageKeepsClientInv == TypeInv /\ ClientInv /\ crash = "none" /\ unmanage => ClientInv'
<1> SUFFICES ASSUME TypeInv, ClientInv, crash = "none", unmanage PROVE ClientInv'
    OBVIOUS
<1> USE DEF Enrolling, Leaving, At, ClientInv, ClientIffManaged
<1>0. \A f : Move("app", f) => app' = f
    BY MoveTyped DEF Threads, app
<1>00. app \in Frame /\ app = frame["app"] /\ app' = frame'["app"] /\ crash' = "none"
    BY FramesTyped DEF app, unmanage
<1>1. CASE app.op = "none" /\ BeginRequest("unmanage") /\ UNCHANGED <<dmClient, managed>>
    <2>1. app'.pc = "copy"
        BY <1>0, <1>1, IdleTyped DEF BeginRequest, Idle
    <2> QED
        BY <1>00, <1>1, <2>1
<1>2. CASE app.op = "unmanage" /\ app.pc = "copied" /\ Goto("app", "memset")
           /\ UNCHANGED <<dmClient, managed>>
    <2>1. app'.op = "unmanage" /\ app'.pc = "memset"
        BY <1>0, <1>00, <1>2 DEF Goto, Frame
    <2> QED
        BY <1>00, <1>2, <2>1
<1>3. CASE app.op = "unmanage" /\ app.pc = "copied" /\ Return("app")
           /\ UNCHANGED <<dmClient, managed>>
    <2>1. app'.pc = "start"
        BY <1>0, <1>3 DEF Return, Idle
    <2> QED
        BY <1>00, <1>3, <2>1
<1>4. CASE app.op = "unmanage" /\ app.pc = "memset" /\ Goto("app", "unmark") /\ ClearDevice /\ UNCHANGED managed
    <2>1. app'.op = "unmanage" /\ app'.pc = "unmark" /\ ~dmClient'.client
        BY <1>0, <1>00, <1>4 DEF Goto, Frame, ClearDevice, Cleared
    <2> QED
        BY <1>00, <1>4, <2>1
<1>5. CASE app.op = "unmanage" /\ app.pc = "unmark" /\ Return("app")
           /\ UNCHANGED dmClient /\ managed' = FALSE
    <2>1. app'.pc = "start"
        BY <1>0, <1>5 DEF Return, Idle
    <2> QED
        BY <1>00, <1>5, <2>1
<1> QED
    BY <1>1, <1>2, <1>3, <1>4, <1>5, <1>00 DEF unmanage, BeginRequest

\* Calls of the application other than manage and unmanage.
LEMMA OtherCallsKeepClientInv ==
    ASSUME TypeInv, ClientInv, crash = "none",
           Shared("app") \/ publishEvent \/ (\E h \in Handlers : Register(h))
    PROVE  ClientInv'
<1> USE DEF Enrolling, Leaving, At, ClientInv, ClientIffManaged, devVars, appVars
<1>0. \A f : Move("app", f) => app' = f
    BY MoveTyped DEF Threads, app
<1>00. app \in Frame /\ app = frame["app"] /\ app' = frame'["app"]
    BY FramesTyped DEF app
<1>1. CASE publishEvent
    BY <1>1 DEF publishEvent
<1>2. CASE \E h \in Handlers : Register(h)
    BY <1>2 DEF Register
<1>3. CASE CopyRequestID("app")
    <2>1. app.pc = "copy" /\ app'.pc \in {"copy", "copied"}
        BY <1>0, <1>00, <1>3 DEF CopyRequestID, Frame
    <2> QED
        BY <1>00, <1>3, <2>1 DEF CopyRequestID
<1>4. CASE FormatMessage("app")
    <2>1. app.pc = "format" /\ app'.pc = "send"
        BY <1>0, <1>00, <1>4 DEF FormatMessage, Frame
    <2> QED
        BY <1>00, <1>4, <2>1 DEF FormatMessage
<1>5. ASSUME ~Enrolling, ~Enrolling', ~Leaving, ~Leaving', UNCHANGED managed,
             \/ UNCHANGED <<dmClient, crash>>
             \/ \E topic \in Topics : PublishIgnoringRc("app", topic) /\ UNCHANGED dmClient
      PROVE ClientInv'
    BY <1>5 DEF PublishIgnoringRc
<1>6. ASSUME app.op \notin {"manage", "unmanage"}, app'.op \notin {"manage", "unmanage"},
             UNCHANGED managed,
             \/ UNCHANGED <<dmClient, crash>>
             \/ \E topic \in Topics : PublishIgnoringRc("app", topic) /\ UNCHANGED dmClient
      PROVE ClientInv'
    BY <1>00, <1>5, <1>6
<1>7. CASE changeState("app")
    <2>1. app.op \in {"none", "changeState"}
        BY <1>00, <1>7 DEF changeState, CanReport
    <2>2. app'.op \in {"none", "changeState"}
        <3>1. CASE Return("app")
            BY <1>0, <3>1 DEF Return, Idle
        <3>2. ASSUME NEW rc, Move("app", [frame["app"] EXCEPT !.op = "changeState",
                                            !.pc = "format", !.rc = rc])
              PROVE app'.op = "changeState"
            <4>1. app' = [app EXCEPT !.op = "changeState", !.pc = "format", !.rc = rc]
                BY <1>0, <3>2 DEF app
            <4>2. [app EXCEPT !.op = "changeState", !.pc = "format", !.rc = rc].op = "changeState"
                BY <1>00, ReportOperation
            <4> QED
                BY <4>1, <4>2
        <3> QED
            BY <1>7, <3>1, <3>2 DEF changeState, publishActionResponse
    <2> QED
        BY <1>6, <1>7, <2>1, <2>2 DEF changeState, publishActionResponse, Topics
<1>8. CASE changeFirmwareDownloadState("app")
    <2>1. app.op \in {"none", "changeFirmwareDownloadState"}
        BY <1>00, <1>8 DEF changeFirmwareDownloadState, CanReport, NotifyIfObserved
    <2>2. app'.op \in {"none", "changeFirmwareDownloadState"}
        <3>1. CASE Return("app")
            BY <1>0, <3>1 DEF Return, Idle
        <3>2. ASSUME NEW rc, Move("app", [frame["app"] EXCEPT !.op = "changeFirmwareDownloadState",
                                            !.pc = "start", !.rc = rc])
              PROVE app'.op = "changeFirmwareDownloadState"
            <4>1. app' = [app EXCEPT !.op = "changeFirmwareDownloadState", !.pc = "start", !.rc = rc]
                BY <1>0, <3>2 DEF app
            <4>2. [app EXCEPT !.op = "changeFirmwareDownloadState", !.pc = "start", !.rc = rc].op = "changeFirmwareDownloadState"
                BY <1>00, ReportOperation
            <4> QED
                BY <4>1, <4>2
        <3> QED
            BY <1>8, <3>1, <3>2
            DEF changeFirmwareDownloadState, NotifyIfObserved, publishActionResponse
    <2> QED
        BY <1>6, <1>8, <2>1, <2>2
        DEF changeFirmwareDownloadState, NotifyIfObserved, publishActionResponse, Topics
<1>9. CASE changeFirmwareUpdateState("app")
    <2>1. app.op \in {"none", "changeFirmwareUpdateState"}
        BY <1>00, <1>9 DEF changeFirmwareUpdateState, CanReport, NotifyIfObserved
    <2>2. app'.op \in {"none", "changeFirmwareUpdateState"}
        <3>1. CASE Return("app")
            BY <1>0, <3>1 DEF Return, Idle
        <3>2. ASSUME Move("app", [frame["app"] EXCEPT !.op = "changeFirmwareUpdateState",
                                            !.pc = "start"])
              PROVE app'.op = "changeFirmwareUpdateState"
            <4>1. app' = [app EXCEPT !.op = "changeFirmwareUpdateState", !.pc = "start"]
                BY <1>0, <3>2 DEF app
            <4>2. [app EXCEPT !.op = "changeFirmwareUpdateState", !.pc = "start"].op
                      = "changeFirmwareUpdateState"
                BY <1>00, ReportOperation
            <4> QED
                BY <4>1, <4>2
        <3> QED
            BY <1>9, <3>1, <3>2
            DEF changeFirmwareUpdateState, NotifyIfObserved, publishActionResponse
    <2> QED
        BY <1>6, <1>9, <2>1, <2>2
        DEF changeFirmwareUpdateState, NotifyIfObserved, publishActionResponse, Topics
<1> QED
    BY <1>1, <1>2, <1>3, <1>4, <1>7, <1>8, <1>9 DEF Shared

LEMMA NextKeepsClientInv == TypeInv /\ ClientInv /\ [Next]_vars => ClientInv'
<1> SUFFICES ASSUME TypeInv, ClientInv, [Next]_vars PROVE ClientInv'
    OBVIOUS
<1>1. CASE NetStep
    <2>1. frame'["app"] = frame["app"]
        BY <1>1, NetKeepsClient DEF app
    <2>2. (Enrolling' <=> Enrolling) /\ (Leaving' <=> Leaving)
        BY <2>1 DEF Enrolling, Leaving, At
    <2>3. /\ managed' = managed /\ dmClient'.client = dmClient.client
          /\ crash' = "client" => ~dmClient.client
        BY <1>1, NetKeepsClient
    <2>4. ClientIffManaged'
        BY <2>2, <2>3 DEF ClientInv, ClientIffManaged
    <2>5. (Enrolling' => managed') /\ (Leaving' => ~dmClient'.client)
        BY <2>2, <2>3 DEF ClientInv
    <2>6. crash' = "client" => ~dmClient'.client
        BY <2>3
    <2> QED
        BY <2>4, <2>5, <2>6 DEF ClientInv
<1>2. CASE AppStep
    BY <1>2, ManageKeepsClientInv, UnmanageKeepsClientInv, OtherCallsKeepClientInv
    DEF AppStep, Handlers, setDMCommandHandler, setRebootHandler,
        setFactoryResetHandler, setFirmwareDownloadHandler, setFirmwareUpdateHandler
<1>3. CASE Environment
    BY <1>3 DEF Environment, PlatformSends, connlost, devVars, appVars, ClientInv,
                ClientIffManaged, Enrolling, Leaving, At
<1>4. CASE UNCHANGED vars
    BY <1>4 DEF vars, devVars, appVars, ClientInv, ClientIffManaged, Enrolling, Leaving, At
<1> QED
    BY <1>1, <1>2, <1>3, <1>4 DEF Next

LEMMA AlwaysClientInv == Spec => [](TypeInv /\ ClientInv)
<1>1. Init => TypeInv /\ ClientInv
    BY InitTyped DEF Init, Cleared, Idle, ClientInv, ClientIffManaged, Enrolling, Leaving, At, Threads
<1>2. TypeInv /\ ClientInv /\ [Next]_vars => (TypeInv /\ ClientInv)'
    BY NextTyped, NextKeepsClientInv
<1> QED
    BY <1>1, <1>2, PTL DEF Spec

\* Outside the last steps of manage and of unmanage, handlers have a client to
\* answer through exactly while the device is managed.
THEOREM ClientWhileManaged == Spec => []ClientIffManaged
<1>1. ClientInv => ClientIffManaged
    BY DEF ClientInv
<1> QED
    BY <1>1, AlwaysClientInv, PTL

\* An answer through a NULL client is possible only without manage, after
\* unmanage, or in the last steps of either.
THEOREM NullClientUnmanaged == Spec => []NullClientOnlyUnmanaged
<1>1. ClientInv => NullClientOnlyUnmanaged
    BY DEF ClientInv, ClientIffManaged, NullClientOnlyUnmanaged
<1> QED
    BY <1>1, AlwaysClientInv, PTL

-----------------------------------------------------------------------------
(* The id under which a request is answered.                               *)

\* The calls that answer under an id the callback thread has parsed.
ParsedCalls == {"update", "cancel", "download", "reboot", "factory_reset", "changeState"}

\* An id whose halves are each of the request served or of the application.
OwnId(id) == \A h \in Halves : id[h] \in {net.msg.req} \cup issued

\* The application copies only ids it has issued.
AppCopiesIssued ==
    /\ app.msg.req = NoId
    /\ app.pc = "copy" => \A h \in Halves : app.id[h] \in issued

\* The halves the callback thread has copied are its request's, unless the
\* application has overwritten them since; a message formatted after the copy
\* carries no other id.
NetCopiesOwn ==
    /\ net.pc = "copy" => /\ net.id = Whole(net.msg.req)
                          /\ \A h \in Halves \ net.left :
                                currentRequestID[h] \in {net.msg.req} \cup issued
    /\ net.op \in ParsedCalls /\ net.pc \notin {"start", "copy"} => OwnId(currentRequestID)
    /\ net.op \in ParsedCalls /\ net.pc = "send" => OwnId(net.id)

\* Only reboot and factory reset callbacks answer with changeState, and the
\* calls that would notify end at once.
ReportsFromActions ==
    /\ net.cb \in {"reboot", "factory_reset"}
           => net.op \in {"reboot", "factory_reset", "changeState"}
    /\ net.op \in {"changeFirmwareDownloadState", "changeFirmwareUpdateState"}
           => net.pc = "start"

OwnInv == AppCopiesIssued /\ NetCopiesOwn /\ ReportsFromActions /\ AnswersOwnRequest

\* What the conjuncts of OwnInv ask of a publication.
OwnPublication(a) ==
    a.req # NoId /\ a.op \notin {"observe", "firmware_update"}
        => \A h \in Halves : a.id[h] \in {a.req} \cup issued

LEMMA PublishKeepsOwn ==
    ASSUME TypeInv, OwnInv, NEW topic, PublishIgnoringRc("net", topic), net.pc = "send",
           net.op \in ParsedCalls \cup {"observe", "firmware_update"}
    PROVE  \A a \in sent' : OwnPublication(a)
<1>1. OwnPublication(Publication("net", topic))
    <2> DEFINE a == Publication("net", topic)
    <2>1. a.req = net.msg.req /\ a.op = net.op /\ a.id = net.id
        BY DEF Publication, net
    <2>2. CASE net.op \in {"observe", "firmware_update"}
        BY <2>1, <2>2 DEF OwnPublication
    <2>3. CASE net.op \in ParsedCalls
        BY <2>1, <2>3 DEF OwnPublication, OwnInv, NetCopiesOwn, OwnId
    <2> QED
        BY <2>2, <2>3
<1>2. \A a \in sent : OwnPublication(a)
    BY DEF OwnInv, AnswersOwnRequest, OwnPublication
<1>3. sent' \subseteq sent \cup {Publication("net", topic)}
    BY DEF PublishIgnoringRc
<1> QED
    BY <1>1, <1>2, <1>3

LEMMA SentKeepsOwn ==
    ASSUME OwnInv, UNCHANGED sent
    PROVE  \A a \in sent' : OwnPublication(a)
BY DEF OwnInv, AnswersOwnRequest, OwnPublication

\* A move of the callback thread that does not copy an id: what the frame it
\* moves to has to satisfy.
OwnFrame(f) ==
    /\ f.pc = "copy" => f.id = Whole(f.msg.req) /\ f.left = Halves
    /\ f.op \in ParsedCalls /\ f.pc \notin {"start", "copy"}
           => f.msg = net.msg /\ OwnId(currentRequestID)
    /\ f.op \in ParsedCalls /\ f.pc = "send" => OwnId(f.id)
    /\ f.cb \in {"reboot", "factory_reset"}
           => f.op \in {"reboot", "factory_reset", "changeState"}
    /\ f.op \in {"changeFirmwareDownloadState", "changeFirmwareUpdateState"} => f.pc = "start"

LEMMA NetMoveKeepsOwn ==
    ASSUME TypeInv, OwnInv, NEW f, Move("net", f), OwnFrame(f),
           UNCHANGED <<currentRequestID, issued>>, \A a \in sent' : OwnPublication(a)
    PROVE  OwnInv'
<1>1. net' = f /\ app' = app
    BY MoveTyped DEF Threads, net, app
<1>2. AppCopiesIssued'
    BY <1>1 DEF OwnInv, AppCopiesIssued
<1>3. NetCopiesOwn'
    BY <1>1 DEF OwnFrame, NetCopiesOwn, OwnId
<1>4. ReportsFromActions'
    BY <1>1 DEF OwnFrame, ReportsFromActions
<1>5. AnswersOwnRequest'
    BY DEF AnswersOwnRequest, OwnPublication
<1> QED
    BY <1>2, <1>3, <1>4, <1>5 DEF OwnInv

\* A step that leaves the frames alone (the process ends, or it is not a
\* step of a call).
LEMMA RestKeepsOwn ==
    ASSUME OwnInv, UNCHANGED <<frame, currentRequestID, issued>>, \A a \in sent' : OwnPublication(a)
    PROVE  OwnInv'
BY DEF OwnInv, AppCopiesIssued, NetCopiesOwn, OwnId, ReportsFromActions, AnswersOwnRequest,
       OwnPublication, app, net

\* The frames that the shared moves lead to.
LEMMA MovesOwn ==
    ASSUME TypeInv, OwnInv
    PROVE  /\ OwnFrame(Idle)
           /\ \A pc \in Steps : pc \notin {"start", "copy", "send"}
                  /\ (net.op \in ParsedCalls => net.pc \notin {"start", "copy"})
                  /\ net.op \notin {"changeFirmwareDownloadState", "changeFirmwareUpdateState"}
                    => OwnFrame([net EXCEPT !.pc = pc])
<1>1. OwnFrame(Idle)
    BY DEF OwnFrame, Idle, ParsedCalls
<1>2. ASSUME NEW pc \in Steps, pc \notin {"start", "copy", "send"},
             net.op \in ParsedCalls => net.pc \notin {"start", "copy"},
             net.op \notin {"changeFirmwareDownloadState", "changeFirmwareUpdateState"}
      PROVE OwnFrame([net EXCEPT !.pc = pc])
    <2> DEFINE f == [net EXCEPT !.pc = pc]
    <2>1. f.pc = pc /\ f.op = net.op /\ f.msg = net.msg /\ f.cb = net.cb
        BY FramesTyped DEF Frame
    <2> HIDE DEF f
    <2>2. OwnFrame(f)
        BY <1>2, <2>1 DEF OwnFrame, OwnInv, NetCopiesOwn, ReportsFromActions
    <2> QED
        BY <2>2 DEF f
<1> QED
    BY <1>1, <1>2

\* The thread serves a call, and has parsed its request if it has to.
Serving ==
    /\ net.op \in ParsedCalls => net.pc \notin {"start", "copy"}
    /\ net.op \notin {"changeFirmwareDownloadState", "changeFirmwareUpdateState"}

LEMMA GotoKeepsOwn ==
    ASSUME TypeInv, OwnInv, Serving, NEW pc \in Steps \ {"start", "copy", "send"},
           Goto("net", pc), UNCHANGED <<currentRequestID, issued>>,
           \A a \in sent' : OwnPublication(a)
    PROVE  OwnInv'
BY MovesOwn, NetMoveKeepsOwn DEF Goto, Serving, net

LEMMA ReturnKeepsOwn ==
    ASSUME TypeInv, OwnInv, Return("net"), UNCHANGED <<currentRequestID, issued>>,
           \A a \in sent' : OwnPublication(a)
    PROVE  OwnInv'
BY MovesOwn, NetMoveKeepsOwn DEF Return

LEMMA NextFieldKeepsOwn ==
    ASSUME TypeInv, OwnInv, Serving, NextField("net"), UNCHANGED <<currentRequestID, issued>>,
           \A a \in sent' : OwnPublication(a)
    PROVE  OwnInv'
<1> DEFINE f == [net EXCEPT !.pc = "loop", !.i = @ + 1]
<1>1. f.pc = "loop" /\ f.op = net.op /\ f.msg = net.msg /\ f.cb = net.cb
    BY FramesTyped DEF Frame
<1>2. Move("net", f)
    BY DEF NextField, net
<1> HIDE DEF f
<1>3. OwnFrame(f)
    BY <1>1 DEF Serving, OwnFrame, OwnInv, NetCopiesOwn, ReportsFromActions
<1> QED
    BY <1>2, <1>3, NetMoveKeepsOwn

\* The two forms in which a handler decides its answer.
LEMMA DecideKeepsOwn ==
    ASSUME TypeInv, OwnInv, Serving, NEW rc, NEW cb \in {"download", "firmware_update"},
           \/ Move("net", [net EXCEPT !.pc = "format", !.rc = rc])
           \/ Move("net", [net EXCEPT !.pc = "format", !.cb = cb, !.rc = rc]),
           UNCHANGED <<currentRequestID, issued, sent>>
    PROVE  OwnInv'
<1>1. ASSUME NEW f, f.pc = "format", f.op = net.op, f.msg = net.msg,
             f.cb \in {net.cb, cb}
      PROVE OwnFrame(f)
    BY <1>1 DEF Serving, OwnFrame, OwnInv, NetCopiesOwn, ReportsFromActions
<1>2. OwnFrame([net EXCEPT !.pc = "format", !.rc = rc])
    <2> DEFINE f == [net EXCEPT !.pc = "format", !.rc = rc]
    <2>1. f.pc = "format" /\ f.op = net.op /\ f.msg = net.msg /\ f.cb = net.cb
        BY FramesTyped DEF Frame
    <2> HIDE DEF f
    <2>2. OwnFrame(f)
        BY <1>1, <2>1
    <2> QED
        BY <2>2 DEF f
<1>3. OwnFrame([net EXCEPT !.pc = "format", !.cb = cb, !.rc = rc])
    <2> DEFINE f == [net EXCEPT !.pc = "format", !.cb = cb, !.rc = rc]
    <2>1. f.pc = "format" /\ f.op = net.op /\ f.msg = net.msg /\ f.cb = cb
        BY FramesTyped DEF Frame
    <2> HIDE DEF f
    <2>2. OwnFrame(f)
        BY <1>1, <2>1
    <2> QED
        BY <2>2 DEF f
<1> QED
    BY <1>2, <1>3, NetMoveKeepsOwn, SentKeepsOwn

LEMMA ParseKeepsOwn ==
    ASSUME TypeInv, OwnInv, ParseRequestID, UNCHANGED <<currentRequestID, issued, sent>>,
           net.op \notin {"changeFirmwareDownloadState", "changeFirmwareUpdateState"}
    PROVE  OwnInv'
<1>1. CASE BeginCopy("net", net.msg.req)
    <2> DEFINE f == [net EXCEPT !.pc = "copy", !.id = Whole(net.msg.req), !.left = Halves]
    <2>1. /\ f.pc = "copy" /\ f.op = net.op /\ f.msg = net.msg /\ f.cb = net.cb
          /\ f.id = Whole(net.msg.req) /\ f.left = Halves
        BY FramesTyped DEF Frame
    <2>2. Move("net", f)
        BY <1>1 DEF BeginCopy, net
    <2> HIDE DEF f
    <2>3. OwnFrame(f)
        BY <2>1 DEF OwnFrame, OwnInv, ReportsFromActions
    <2> QED
        BY <2>2, <2>3, NetMoveKeepsOwn, SentKeepsOwn
<1>2. CASE UNCHANGED frame
    BY <1>2, RestKeepsOwn, SentKeepsOwn
<1> QED
    BY <1>1, <1>2 DEF ParseRequestID

\* An answer to the request served, and the move after it.
LEMMA AnswerKeepsOwn ==
    ASSUME TypeInv, OwnInv, NEW topic, PublishIgnoringRc("net", topic), net.pc = "send",
           net.op \in {"update", "cancel", "download", "changeState", "observe", "firmware_update"},
           UNCHANGED <<currentRequestID, issued>>,
           Return("net") \/ NextField("net") \/ AfterAnswer
    PROVE  OwnInv'
<1>1. Serving
    BY DEF Serving
<1>2. \A a \in sent' : OwnPublication(a)
    BY PublishKeepsOwn DEF ParsedCalls
<1> QED
    BY <1>1, <1>2, ReturnKeepsOwn, NextFieldKeepsOwn, GotoKeepsOwn DEF AfterAnswer, Steps

LEMMA HandlersKeepOwn ==
    ASSUME TypeInv, OwnInv,
           \/ messageFirmwareDownload \/ messageFirmwareUpdate \/ messageObserve
           \/ messageCancel \/ messageUpdate
    PROVE  OwnInv'
<1> USE DEF At, net
<1>0. UNCHANGED <<currentRequestID, issued>>
    BY DEF messageFirmwareDownload, messageFirmwareUpdate, messageObserve, messageCancel,
           messageUpdate, devVars, appVars
<1>1. CASE messageFirmwareDownload
    <2>1. CASE At("net", "download", "start") /\ ParseRequestID /\ UNCHANGED sent
        BY <1>0, <2>1, ParseKeepsOwn DEF Serving
    <2>2. CASE /\ At("net", "download", "copied") /\ UNCHANGED sent
               /\ Move("net", [net EXCEPT !.pc = "format", !.cb = "download",
                                 !.rc = IF dmClient.state # IDLE THEN 400 ELSE 202])
        <3> DEFINE rc == IF dmClient.state # IDLE THEN 400 ELSE 202
        <3>1. Move("net", [net EXCEPT !.pc = "format", !.cb = "download", !.rc = rc])
            BY <2>2
        <3>2. Serving /\ UNCHANGED <<currentRequestID, issued, sent>>
            BY <1>0, <2>2 DEF Serving
        <3> HIDE DEF rc
        <3> QED
            BY <3>1, <3>2, DecideKeepsOwn
    <2>3. CASE /\ At("net", "download", "send")
               /\ PublishIgnoringRc("net", "RESPONSE") /\ AfterAnswer
        BY <1>0, <2>3, AnswerKeepsOwn
    <2> QED
        BY <1>1, <2>1, <2>2, <2>3 DEF messageFirmwareDownload
<1>2. CASE messageFirmwareUpdate
    BY <1>0, <1>2, DecideKeepsOwn, AnswerKeepsOwn DEF messageFirmwareUpdate, Serving, ParsedCalls
<1>3. CASE messageObserve
    BY <1>0, <1>3, DecideKeepsOwn, AnswerKeepsOwn DEF messageObserve, Serving, ParsedCalls
<1>4. CASE messageCancel
    <2>1. CASE At("net", "cancel", "start") /\ ParseRequestID /\ UNCHANGED sent
        BY <1>0, <2>1, ParseKeepsOwn
    <2>2. CASE /\ net.op = "cancel" /\ net.pc \in {"copied", "loop"} /\ UNCHANGED sent
               /\ \/ Goto("net", "loop") \/ NextField("net") \/ Return("net")
                  \/ Move("net", [net EXCEPT !.pc = "format", !.rc = 200])
        <3>1. Serving
            BY <2>2 DEF Serving
        <3> QED
            BY <1>0, <2>2, <3>1, SentKeepsOwn, GotoKeepsOwn, NextFieldKeepsOwn,
               ReturnKeepsOwn, DecideKeepsOwn DEF Steps
    <2>3. CASE /\ At("net", "cancel", "send")
               /\ PublishIgnoringRc("net", "RESPONSE") /\ NextField("net")
        BY <1>0, <2>3, AnswerKeepsOwn
    <2> QED
        BY <1>4, <2>1, <2>2, <2>3 DEF messageCancel, AtField
<1>5. CASE messageUpdate
    <2>1. CASE At("net", "update", "start") /\ ParseRequestID /\ UNCHANGED sent
        BY <1>0, <2>1, ParseKeepsOwn
    <2>2. CASE Return("net") /\ UNCHANGED sent
        BY <1>0, <2>2, ReturnKeepsOwn, SentKeepsOwn
    <2>3. CASE /\ net.op = "update" /\ net.pc \in {"copied", "loop"} /\ UNCHANGED sent
               /\ \/ Goto("net", "loop") \/ Goto("net", "format") \/ NextField("net")
                  \/ Move("net", [net EXCEPT !.pc = "format", !.rc = 204])
        <3>1. Serving
            BY <2>3 DEF Serving
        <3> QED
            BY <1>0, <2>3, <3>1, SentKeepsOwn, GotoKeepsOwn, NextFieldKeepsOwn,
               DecideKeepsOwn DEF Steps
    <2>4. CASE /\ At("net", "update", "send") /\ NextField("net")
               /\ \E topic \in Topics : PublishIgnoringRc("net", topic)
        BY <1>0, <2>4, AnswerKeepsOwn
    <2> QED
        BY <1>5, <2>1, <2>2, <2>3, <2>4
        DEF messageUpdate, AtField, updateLocationRequest, updateFirmwareRequest, Topics
<1> QED
    BY <1>1, <1>2, <1>3, <1>4, <1>5

\* A step of the callback thread that starts a call.
LEMMA ArrivalKeepsOwn ==
    ASSUME TypeInv, OwnInv, messageArrived_dm PROVE OwnInv'
<1> DEFINE m == Head(inbox)
<1>1. ASSUME NEW n PROVE OwnFrame([Idle EXCEPT !.op = m.kind, !.msg = n])
    BY DEF OwnFrame, Idle
<1>2. PICK passing \in ArgPassing :
        Move("net", IF m.kind = "other" THEN Idle
                    ELSE [Idle EXCEPT !.op = m.kind,
                            !.msg = IF passing = "matched" THEN m
                                    ELSE [m EXCEPT !.payload = "shifted"]])
    BY DEF messageArrived_dm
<1>3. UNCHANGED <<currentRequestID, issued, sent>>
    BY DEF messageArrived_dm, devVars, appVars
<1> HIDE DEF m
<1>4. CASE m.kind = "other"
    BY <1>2, <1>3, <1>4, MovesOwn, SentKeepsOwn, NetMoveKeepsOwn
<1>5. CASE m.kind # "other"
    BY <1>1, <1>2, <1>3, <1>5, SentKeepsOwn, NetMoveKeepsOwn
<1> QED
    BY <1>4, <1>5

\* A move to a callback: an action callback is chosen by an action request.
LEMMA ChooseKeepsOwn ==
    ASSUME TypeInv, OwnInv, Serving, NEW pc \in {"call", "check"}, NEW cb,
           Move("net", [net EXCEPT !.pc = pc, !.cb = cb]),
           UNCHANGED <<currentRequestID, issued, sent>>,
           cb = "dm" \/ net.op \in {"reboot", "factory_reset"}
    PROVE  OwnInv'
<1> DEFINE f == [net EXCEPT !.pc = pc, !.cb = cb]
<1>1. f.pc = pc /\ f.op = net.op /\ f.msg = net.msg /\ f.cb = cb
    BY FramesTyped DEF Frame
<1>2. Move("net", f)
    OBVIOUS
<1> HIDE DEF f
<1>3. OwnFrame(f)
    BY <1>1 DEF Serving, OwnFrame, OwnInv, NetCopiesOwn, ReportsFromActions
<1> QED
    BY <1>2, <1>3, NetMoveKeepsOwn, SentKeepsOwn

LEMMA ResponseKeepsOwn ==
    ASSUME TypeInv, OwnInv, messageResponse PROVE OwnInv'
<1>1. Serving /\ UNCHANGED <<currentRequestID, issued, sent>>
    BY DEF messageResponse, At, net, Serving, ParsedCalls, appVars
<1>2. CASE Return("net")
    BY <1>1, <1>2, ReturnKeepsOwn, SentKeepsOwn
<1>3. CASE Goto("net", "match")
    BY <1>1, <1>3, GotoKeepsOwn, SentKeepsOwn DEF Steps
<1>4. CASE UNCHANGED frame
    BY <1>1, <1>4, RestKeepsOwn, SentKeepsOwn
<1>5. CASE Move("net", [net EXCEPT !.pc = "call", !.cb = "dm"])
    BY <1>1, <1>5, ChooseKeepsOwn
<1> QED
    BY <1>2, <1>3, <1>4, <1>5 DEF messageResponse

LEMMA ActionKeepsOwn ==
    ASSUME TypeInv, OwnInv, messageForAction PROVE OwnInv'
<1>1. net.op \in {"reboot", "factory_reset"} /\ UNCHANGED <<currentRequestID, issued, sent>>
    BY DEF messageForAction, devVars, appVars
<1>2. CASE ParseRequestID
    BY <1>1, <1>2, ParseKeepsOwn
<1>3. CASE Return("net")
    BY <1>1, <1>3, ReturnKeepsOwn, SentKeepsOwn
<1>4. CASE /\ net.pc = "copied"
           /\ \/ Move("net", [net EXCEPT !.pc = "call", !.cb = "reboot"])
              \/ Move("net", [net EXCEPT !.pc = "check", !.cb = "factory_reset"])
    <2>1. Serving
        BY <1>1, <1>4 DEF Serving
    <2> QED
        BY <1>1, <1>4, <2>1, ChooseKeepsOwn
<1> QED
    BY <1>2, <1>3, <1>4 DEF messageForAction

LEMMA CallbackKeepsOwn ==
    ASSUME TypeInv, OwnInv, InvokeCallback \/ CallbackReturns PROVE OwnInv'
<1>1. UNCHANGED <<currentRequestID, issued, sent>>
    BY DEF InvokeCallback, CallbackReturns, devVars, appVars
<1>2. CASE Return("net")
    BY <1>1, <1>2, ReturnKeepsOwn, SentKeepsOwn
<1>3. CASE UNCHANGED frame
    BY <1>1, <1>3, RestKeepsOwn, SentKeepsOwn
<1>4. CASE net.pc \in {"check", "call"} /\ (Goto("net", "call") \/ Goto("net", "callback"))
    <2>1. Serving
        BY <1>4 DEF Serving, OwnInv, ReportsFromActions
    <2> QED
        BY <1>1, <1>4, <2>1, GotoKeepsOwn, SentKeepsOwn DEF Steps
<1> QED
    BY <1>2, <1>3, <1>4 DEF InvokeCallback, CallbackReturns

\* A move of the application: it serves no request, and copies ids it has
\* issued.
LEMMA AppMoveKeepsOwn ==
    ASSUME TypeInv, OwnInv, NEW f, Move("app", f), f.msg.req = NoId,
           f.pc = "copy" => \A h \in Halves : f.id[h] \in issued',
           UNCHANGED currentRequestID, issued \subseteq issued',
           \A a \in sent' : a \in sent \/ a.req = NoId
    PROVE  OwnInv'
<1>1. app' = f /\ net' = net
    BY MoveTyped DEF Threads, net, app
<1>2. AppCopiesIssued'
    BY <1>1 DEF AppCopiesIssued
<1>3. NetCopiesOwn'
    BY <1>1 DEF OwnInv, NetCopiesOwn, OwnId
<1>4. ReportsFromActions'
    BY <1>1 DEF OwnInv, ReportsFromActions
<1>5. AnswersOwnRequest'
    BY DEF OwnInv, AnswersOwnRequest
<1> QED
    BY <1>2, <1>3, <1>4, <1>5 DEF OwnInv

\* Each half of the shared id that a thread copies is its own.
LEMMA CopyKeepsOwn ==
    ASSUME TypeInv, OwnInv, NEW t \in Threads, CopyRequestID(t) PROVE OwnInv'
<1>1. PICK h \in frame[t].left :
        /\ currentRequestID' = [currentRequestID EXCEPT ![h] = frame[t].id[h]]
        /\ Move(t, [frame[t] EXCEPT !.left = @ \ {h},
                      !.pc = IF frame[t].left = {h} THEN "copied" ELSE "copy"])
    BY DEF CopyRequestID
<1>2. frame[t] \in Frame /\ frame[t].pc = "copy" /\ UNCHANGED <<issued, sent>>
    BY DEF TypeOK, CopyRequestID, appVars
<1> DEFINE pc == IF frame[t].left = {h} THEN "copied" ELSE "copy"
           f  == [frame[t] EXCEPT !.left = @ \ {h}, !.pc = pc]
<1>3. /\ f.pc = pc /\ f.left = frame[t].left \ {h} /\ f.op = frame[t].op /\ f.msg = frame[t].msg
      /\ f.cb = frame[t].cb /\ f.id = frame[t].id
    BY <1>2 DEF Frame
<1>4. h \in Halves /\ \A k \in Halves : currentRequestID'[k] =
                          IF k = h THEN frame[t].id[h] ELSE currentRequestID[k]
    BY <1>1, <1>2 DEF Frame, TypeOK
<1>5. frame'[t] = f /\ \A u \in Threads \ {t} : frame'[u] = frame[u]
    BY <1>1, MoveTyped
<1>6. pc = "copied" => frame[t].left = {h}
    OBVIOUS
<1>7. pc \in {"copied", "copy"}
    OBVIOUS
<1> HIDE DEF f, pc
<1>8. AnswersOwnRequest'
    BY <1>2 DEF OwnInv, AnswersOwnRequest
<1>9. CASE t = "net"
    <2>1. net' = f /\ app' = app /\ net.pc = "copy"
        BY <1>2, <1>5, <1>9 DEF Threads, net, app
    <2>2. frame[t] = net
        BY <1>9 DEF net
    <2>3. \A k \in Halves \ f.left : currentRequestID'[k] \in {net.msg.req} \cup issued
        BY <1>3, <1>4, <2>1, <2>2 DEF OwnInv, NetCopiesOwn, Whole
    <2>4. NetCopiesOwn'
        <3>1. net'.pc = "copy" => /\ net'.id = Whole(net'.msg.req)
                                  /\ \A k \in Halves \ net'.left :
                                       currentRequestID'[k] \in {net'.msg.req} \cup issued'
            BY <1>2, <1>3, <2>1, <2>2, <2>3 DEF OwnInv, NetCopiesOwn
        <3>2. pc = "copied" => \A k \in Halves : currentRequestID'[k] \in {net.msg.req} \cup issued
            BY <1>3, <1>6, <2>2, <2>3
        <3> QED
            BY <1>2, <1>3, <1>7, <2>1, <2>2, <3>1, <3>2 DEF NetCopiesOwn, OwnId
    <2>5. AppCopiesIssued'
        BY <1>2, <2>1 DEF OwnInv, AppCopiesIssued
    <2>6. ReportsFromActions'
        BY <1>3, <2>1, <2>2 DEF OwnInv, ReportsFromActions
    <2> QED
        BY <1>8, <2>4, <2>5, <2>6 DEF OwnInv
<1>10. CASE t = "app"
    <2>1. app' = f /\ net' = net /\ app.pc = "copy"
        BY <1>2, <1>5, <1>10 DEF Threads, net, app
    <2>2. frame[t] = app
        BY <1>10 DEF app
    <2>3. app.id[h] \in issued
        BY <1>4, <2>1 DEF OwnInv, AppCopiesIssued
    <2>4. \A k \in Halves : currentRequestID'[k] \in {currentRequestID[k]} \cup issued
        BY <1>4, <2>2, <2>3
    <2>5. NetCopiesOwn'
        BY <1>2, <2>1, <2>4 DEF OwnInv, NetCopiesOwn, OwnId
    <2>6. AppCopiesIssued'
        BY <1>2, <1>3, <2>1, <2>2 DEF OwnInv, AppCopiesIssued
    <2>7. ReportsFromActions'
        BY <2>1 DEF OwnInv, ReportsFromActions
    <2> QED
        BY <1>8, <2>5, <2>6, <2>7 DEF OwnInv
<1> QED
    BY <1>9, <1>10 DEF Threads

LEMMA FormatKeepsOwn ==
    ASSUME TypeInv, OwnInv, NEW t \in Threads, FormatMessage(t) PROVE OwnInv'
<1> DEFINE f == [frame[t] EXCEPT !.id = currentRequestID, !.pc = "send"]
<1>1. frame[t] \in Frame /\ frame[t].pc = "format" /\ UNCHANGED <<currentRequestID, issued, sent>>
    BY DEF TypeOK, FormatMessage, devVars, appVars
<1>2. /\ f.pc = "send" /\ f.op = frame[t].op /\ f.msg = frame[t].msg
      /\ f.cb = frame[t].cb /\ f.id = currentRequestID
    BY <1>1 DEF Frame
<1>3. Move(t, f)
    BY DEF FormatMessage
<1> HIDE DEF f
<1>4. CASE t = "net"
    <2>1. OwnFrame(f)
        BY <1>1, <1>2, <1>4 DEF OwnFrame, OwnInv, NetCopiesOwn, ReportsFromActions, net
    <2> QED
        BY <1>1, <1>3, <1>4, <2>1, NetMoveKeepsOwn, SentKeepsOwn
<1>5. CASE t = "app"
    BY <1>1, <1>2, <1>3, <1>5, AppMoveKeepsOwn DEF OwnInv, AppCopiesIssued, app
<1> QED
    BY <1>4, <1>5 DEF Threads

\* The two threads' publications outside a request of the platform.
LEMMA AppPublishesUnasked ==
    ASSUME OwnInv, NEW topic, PublishIgnoringRc("app", topic)
    PROVE  \A a \in sent' : a \in sent \/ a.req = NoId
BY DEF PublishIgnoringRc, Publication, OwnInv, AppCopiesIssued, app

LEMMA AppReturnKeepsOwn ==
    ASSUME TypeInv, OwnInv, Return("app"), UNCHANGED currentRequestID, issued \subseteq issued',
           \A a \in sent' : a \in sent \/ a.req = NoId
    PROVE  OwnInv'
<1>1. Idle.msg.req = NoId /\ Idle.pc = "start"
    BY DEF Idle, NoMessage
<1> QED
    BY <1>1, AppMoveKeepsOwn DEF Return

\* The fields of a frame that starts a report.
LEMMA ReportFrame ==
    ASSUME NEW f \in Frame, NEW op, NEW pc, NEW rc
    PROVE  LET g == [f EXCEPT !.op = op, !.pc = pc, !.rc = rc]
           IN g.op = op /\ g.pc = pc /\ g.msg = f.msg /\ g.cb = f.cb
BY DEF Frame

\* The start of a report, by either thread.
LEMMA ReportStartKeepsOwn ==
    ASSUME TypeInv, OwnInv, NEW t \in Threads, NEW rc, NEW op, NEW pc,
           Move(t, [frame[t] EXCEPT !.op = op, !.pc = pc, !.rc = rc]),
           UNCHANGED <<currentRequestID, issued, sent>>,
           \/ op = "changeState" /\ pc = "format" /\ CanReport(t, {"reboot", "factory_reset"})
           \/ op = "changeFirmwareDownloadState" /\ pc = "start" /\ CanReport(t, {"download"})
           \/ op = "changeFirmwareUpdateState" /\ pc = "start" /\ CanReport(t, {"firmware_update"})
    PROVE  OwnInv'
<1> DEFINE f == [frame[t] EXCEPT !.op = op, !.pc = pc, !.rc = rc]
<1>1. frame[t] \in Frame
    BY DEF TypeOK
<1>2. f.op = op /\ f.pc = pc /\ f.msg = frame[t].msg /\ f.cb = frame[t].cb
    BY <1>1, ReportFrame
<1>3. Move(t, f)
    OBVIOUS
<1> HIDE DEF f
<1>4. CASE t = "net"
    <2>1. frame[t] = net
        BY <1>4 DEF net
    <2>2. net.pc = "callback"
        BY <1>4 DEF CanReport
    <2>3. CASE op = "changeState" /\ pc = "format" /\ net.cb \in {"reboot", "factory_reset"}
        <3>1. net.op \in ParsedCalls
            BY <2>3 DEF OwnInv, ReportsFromActions, ParsedCalls
        <3>2. OwnId(currentRequestID)
            BY <2>2, <3>1 DEF OwnInv, NetCopiesOwn
        <3>3. OwnFrame(f)
            BY <1>2, <2>1, <2>3, <3>2 DEF OwnFrame
        <3> QED
            BY <1>3, <1>4, <3>3, NetMoveKeepsOwn, SentKeepsOwn
    <2>4. CASE /\ pc = "start" /\ net.cb \in {"download", "firmware_update"}
        <3>1. OwnFrame(f)
            BY <1>2, <2>1, <2>4 DEF OwnFrame
        <3> QED
            BY <1>3, <1>4, <3>1, NetMoveKeepsOwn, SentKeepsOwn
    <2> QED
        BY <1>4, <2>3, <2>4 DEF CanReport
<1>5. CASE t = "app"
    <2>1. f.msg.req = NoId /\ f.pc # "copy"
        BY <1>2, <1>5 DEF OwnInv, AppCopiesIssued, app
    <2> QED
        BY <1>3, <1>5, <2>1, AppMoveKeepsOwn
<1> QED
    BY <1>4, <1>5 DEF Threads

\* The end of a report.
LEMMA ReportEndKeepsOwn ==
    ASSUME TypeInv, OwnInv, NEW t \in Threads, Return(t), UNCHANGED <<currentRequestID, issued>>,
           \/ UNCHANGED sent
           \/ /\ frame[t].pc = "send" /\ \E topic \in Topics : PublishIgnoringRc(t, topic)
              /\ frame[t].op \in {"changeState", "changeFirmwareDownloadState",
                                  "changeFirmwareUpdateState"}
    PROVE  OwnInv'
<1>1. CASE t = "net"
    <2>1. CASE UNCHANGED sent
        BY <1>1, <2>1, ReturnKeepsOwn, SentKeepsOwn
    <2>2. CASE /\ net.pc = "send" /\ \E topic \in Topics : PublishIgnoringRc("net", topic)
               /\ net.op = "changeState"
        BY <1>1, <2>2, AnswerKeepsOwn
    <2>3. net.pc = "send" => net.op \notin {"changeFirmwareDownloadState", "changeFirmwareUpdateState"}
        BY DEF OwnInv, ReportsFromActions
    <2> QED
        BY <1>1, <2>1, <2>2, <2>3 DEF net
<1>2. CASE t = "app"
    BY <1>2, AppReturnKeepsOwn, AppPublishesUnasked
<1> QED
    BY <1>1, <1>2 DEF Threads

LEMMA ReportsKeepOwn ==
    ASSUME TypeInv, OwnInv, NEW t \in Threads,
           changeState(t) \/ changeFirmwareDownloadState(t) \/ changeFirmwareUpdateState(t)
    PROVE  OwnInv'
<1>1. UNCHANGED <<currentRequestID, issued>>
    BY DEF changeState, changeFirmwareDownloadState, changeFirmwareUpdateState, devVars, appVars
<1> "RESPONSE" \in Topics /\ "NOTIFY" \in Topics
    BY DEF Topics
<1>2. CASE changeState(t)
    <2>1. CASE /\ CanReport(t, {"reboot", "factory_reset"}) /\ UNCHANGED sent
               /\ \E rc \in ActionCodes :
                    Move(t, [frame[t] EXCEPT !.op = "changeState", !.pc = "format", !.rc = rc])
        BY <1>1, <2>1, ReportStartKeepsOwn
    <2>2. CASE At(t, "changeState", "send") /\ publishActionResponse(t, "RESPONSE")
        BY <1>1, <2>2, ReportEndKeepsOwn DEF At, publishActionResponse
    <2> QED
        BY <1>2, <2>1, <2>2 DEF changeState
<1>3. ASSUME NEW op \in {"changeFirmwareDownloadState", "changeFirmwareUpdateState"}, NEW new,
             NotifyIfObserved(t, op, new)
      PROVE OwnInv'
    BY <1>1, <1>3, ReportEndKeepsOwn DEF NotifyIfObserved, At, publishActionResponse
<1>4. CASE changeFirmwareDownloadState(t)
    <2>1. CASE /\ CanReport(t, {"download"}) /\ UNCHANGED sent
               /\ \E state \in ReportedStates :
                    Move(t, [frame[t] EXCEPT !.op = "changeFirmwareDownloadState",
                                             !.pc = "start", !.rc = state])
        BY <1>1, <2>1, ReportStartKeepsOwn
    <2> QED
        BY <1>3, <1>4, <2>1 DEF changeFirmwareDownloadState
<1>5. CASE changeFirmwareUpdateState(t)
    <2>1. CASE /\ CanReport(t, {"firmware_update"}) /\ UNCHANGED sent
               /\ Move(t, [frame[t] EXCEPT !.op = "changeFirmwareUpdateState", !.pc = "start"])
        <3>1. frame[t] \in Frame
            BY DEF TypeOK
        <3>2. [frame[t] EXCEPT !.op = "changeFirmwareUpdateState", !.pc = "start"]
                = [frame[t] EXCEPT !.op = "changeFirmwareUpdateState", !.pc = "start",
                                   !.rc = frame[t].rc]
            BY <3>1 DEF Frame
        <3> DEFINE rc == frame[t].rc
        <3>3. Move(t, [frame[t] EXCEPT !.op = "changeFirmwareUpdateState", !.pc = "start", !.rc = rc])
            BY <2>1, <3>2
        <3> HIDE DEF rc
        <3> QED
            BY <1>1, <2>1, <3>3, ReportStartKeepsOwn
    <2> QED
        BY <1>3, <1>5, <2>1 DEF changeFirmwareUpdateState
<1> QED
    BY <1>2, <1>4, <1>5

LEMMA AppGotoKeepsOwn ==
    ASSUME TypeInv, OwnInv, NEW pc \in Steps \ {"copy"}, Goto("app", pc),
           UNCHANGED <<currentRequestID, issued>>, \A a \in sent' : a \in sent \/ a.req = NoId
    PROVE  OwnInv'
<1> DEFINE f == [app EXCEPT !.pc = pc]
<1>1. f.pc = pc /\ f.msg = app.msg
    BY FramesTyped DEF Frame
<1>2. Move("app", f)
    BY DEF Goto, app
<1> HIDE DEF f
<1> QED
    BY <1>1, <1>2, AppMoveKeepsOwn DEF OwnInv, AppCopiesIssued

LEMMA BeginKeepsOwn ==
    ASSUME TypeInv, OwnInv, NEW op, BeginRequest(op), UNCHANGED <<currentRequestID, sent>>
    PROVE  OwnInv'
<1>1. PICK id \in AppIds \ issued :
        /\ issued' = issued \cup {id}
        /\ Move("app", [Idle EXCEPT !.op = op, !.pc = "copy", !.id = Whole(id), !.left = Halves])
    BY DEF BeginRequest
<1> DEFINE f == [Idle EXCEPT !.op = op, !.pc = "copy", !.id = Whole(id), !.left = Halves]
<1>2. f.msg.req = NoId /\ f.id = Whole(id)
    BY DEF Idle, NoMessage
<1>3. Move("app", f)
    BY <1>1
<1> HIDE DEF f
<1> QED
    BY <1>1, <1>2, <1>3, AppMoveKeepsOwn DEF Whole

LEMMA RequestsKeepOwn ==
    ASSUME TypeInv, OwnInv, manage \/ unmanage PROVE OwnInv'
<1>1. UNCHANGED currentRequestID
    BY DEF manage, unmanage
<1>2. ASSUME NEW topic PROVE Publication("app", topic).req = NoId
    BY DEF Publication, OwnInv, AppCopiesIssued, app
<1>3. CASE \E op \in Operations : BeginRequest(op) /\ UNCHANGED sent
    BY <1>1, <1>3, BeginKeepsOwn
<1>4. CASE /\ \/ \E pc \in Steps \ {"copy"} : Goto("app", pc)
              \/ Return("app")
           /\ UNCHANGED issued
           /\ \/ UNCHANGED sent
              \/ \E topic \in Topics : sent' = sent \cup {Publication("app", topic)}
    BY <1>1, <1>2, <1>4, AppGotoKeepsOwn, AppReturnKeepsOwn
<1>5. CASE manage
    BY <1>3, <1>4, <1>5 DEF manage, Operations, Steps, Topics
<1>6. CASE unmanage
    BY <1>3, <1>4, <1>6 DEF unmanage, Operations, Steps, Topics
<1> QED
    BY <1>5, <1>6

LEMMA NextKeepsOwn == TypeInv /\ OwnInv /\ [Next]_vars => OwnInv'
<1> SUFFICES ASSUME TypeInv, OwnInv, [Next]_vars PROVE OwnInv'
    OBVIOUS
<1>1. CASE NetStep
    BY <1>1, ArrivalKeepsOwn, HandlersKeepOwn, ResponseKeepsOwn, ActionKeepsOwn, CallbackKeepsOwn,
       CopyKeepsOwn, FormatKeepsOwn, ReportsKeepOwn DEF NetStep, Shared, Threads
<1>2. CASE AppStep
    <2>1. CASE manage \/ unmanage
        BY <2>1, RequestsKeepOwn
    <2>2. CASE \/ publishEvent
               \/ \E h \in Handlers : Register(h)
        <3>1. UNCHANGED <<frame, currentRequestID, issued, sent>>
            BY <2>2 DEF publishEvent, Register, devVars, appVars
        <3> QED
            BY <3>1, RestKeepsOwn, SentKeepsOwn
    <2>3. CASE Shared("app")
        BY <2>3, CopyKeepsOwn, FormatKeepsOwn, ReportsKeepOwn DEF Shared, Threads
    <2> QED
        BY <1>2, <2>1, <2>2, <2>3
        DEF AppStep, setDMCommandHandler, setRebootHandler, setFactoryResetHandler,
            setFirmwareDownloadHandler, setFirmwareUpdateHandler, Handlers
<1>3. CASE Environment
    <2>1. UNCHANGED <<frame, currentRequestID, issued, sent>>
        BY <1>3 DEF Environment, PlatformSends, connlost, devVars, appVars
    <2> QED
        BY <2>1, RestKeepsOwn, SentKeepsOwn
<1>4. CASE UNCHANGED vars
    <2>1. UNCHANGED <<frame, currentRequestID, issued, sent>>
        BY <1>4 DEF vars, devVars, appVars
    <2> QED
        BY <2>1, RestKeepsOwn, SentKeepsOwn
<1> QED
    BY <1>1, <1>2, <1>3, <1>4 DEF Next

LEMMA InitOwn == Init => OwnInv
<1> SUFFICES ASSUME Init PROVE OwnInv
    OBVIOUS
<1>1. net = Idle /\ app = Idle /\ sent = {}
    BY DEF Init, net, app, Threads
<1> QED
    BY <1>1 DEF OwnInv, AppCopiesIssued, NetCopiesOwn, ReportsFromActions, AnswersOwnRequest,
                Idle, NoMessage

\* What the device publishes about a request it has parsed carries, in each
\* half, that request's id or one the application issued: although every id
\* passes through currentRequestID, and both threads write it without a lock.
THEOREM AnswersOwn == Spec => []AnswersOwnRequest
<1>1. Init => TypeInv /\ OwnInv
    BY InitTyped, InitOwn
<1>2. TypeInv /\ OwnInv /\ [Next]_vars => (TypeInv /\ OwnInv)'
    BY NextTyped, NextKeepsOwn
<1>3. OwnInv => AnswersOwnRequest
    BY DEF OwnInv
<1> QED
    BY <1>1, <1>2, <1>3, PTL DEF Spec
=============================================================================
