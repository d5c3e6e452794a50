-------------------------- MODULE DeviceServiceProofs --------------------------
(***************************************************************************)
(* The proof that ManagedDevice implements DeviceService, for any sets of  *)
(* ids, requests, handlers and codes.                                      *)
(***************************************************************************)
EXTENDS ManagedDeviceProofs

-----------------------------------------------------------------------------
(* The invariant.                                                          *)

Reports == {"changeState", "changeFirmwareDownloadState", "changeFirmwareUpdateState"}
Decides == {"download", "firmware_update"}
Actions == {"reboot", "factory_reset"}
Kinds   == (RequestKinds \cup {"response"}) \ {"other"}

\* The codes that req gets in history, a set of publications, and the callbacks
\* that it runs in one of calls.
AnswersTo(history, req) ==
    {a.rc : a \in {p \in history : p.topic = "RESPONSE" /\ p.req = req}}
ActsOn(calls, req) == {c.cb : c \in {d \in calls : d.req = req}}
Received == {m.req : m \in taken}

\* A frame that sends the id of a manage or unmanage request, as it was issued.
Names(f) == f.op \in {"manage", "unmanage"} => f.id["lo"] \in AppIds /\ f.pc # "format"

\* No message comes twice, and the ids of answers are the application's.
DeliveryInv ==
    /\ \A m \in taken \cup InFlight : m \in Requests \/ (m.req \in AppIds /\ m = Response(m.req))
    /\ InFlight \cap taken = {}
    /\ \A i, j \in 1 .. Len(inbox) : inbox[i] = inbox[j] => i = j
    /\ Names(app)
    /\ \A p \in sent : p.topic \in {"MANAGE", "UNMANAGE"} => p.id["lo"] \in AppIds

\* What is answered and acted on has been received; the application thread
\* serves no message.
HistoryInv ==
    /\ \A p \in sent : p.req \in Received \cup {NoId}
    /\ \A c \in called : c.req \in Received
    /\ app.msg = NoMessage

\* How far each handler has come with a message: f is the frame, codes what has
\* been answered.
Progress(f, codes) ==
    CASE f.op \in Decides ->
           /\ f.pc \in {"start", "copy", "copied", "format", "send"} => codes = {}
           /\ f.pc \in {"format", "send"} => f.rc \in {202, 400} /\ f.cb = f.op
           /\ f.pc \in {"check", "call", "callback"} => codes \subseteq {202}
      [] f.op \in Actions -> codes = {}
      [] f.op = "response" -> codes = {}
      [] f.op = "observe" -> codes = {} /\ (f.pc \in {"format", "send"} => f.rc = 200)
      [] f.op = "cancel" -> codes \subseteq {200} /\ (f.pc \in {"format", "send"} => f.rc = 200)
      [] f.op = "update" ->
           /\ codes \subseteq {204}
           /\ f.pc \in {"format", "send"} =>
                  f.msg.fields[f.i].name = "location" \/ f.rc = 204
      [] f.op = "changeState" -> codes = {} /\ f.msg.kind \in Actions /\ f.rc \in ActionCodes
      [] OTHER -> TRUE

\* A frame that serves a message, with the codes and callbacks the message has
\* got and the ids that have been received.
Working(f, codes, acts, received) ==
    /\ f.msg.kind \in Kinds /\ f.msg.req \in received
    /\ f.op = f.msg.kind \/ f.op \in Reports
    /\ f.pc \in {"check", "call", "callback"} => /\ f.op = f.msg.kind
                                                 /\ f.cb \in CallbacksOf[f.op]
    /\ f.op = f.msg.kind /\ f.pc # "callback" => acts = {}
    /\ Progress(f, codes)

Serves(f) ==
    f = Idle \/ Working(f, AnswersTo(sent, f.msg.req), ActsOn(called, f.msg.req), Received)

NetInv == Serves(net)

ServiceInv == DeliveryInv /\ HistoryInv /\ NetInv

\* What is proved of each step.
Good == ServiceInv' /\ [S!Next]_(S!vars)

-----------------------------------------------------------------------------
(* Ids.                                                                    *)

LEMMA KindsApart ==
    /\ "none" \notin Kinds /\ Kinds \cap Reports = {}
    /\ Decides \subseteq Kinds /\ Actions \subseteq Kinds
BY DEF Kinds, RequestKinds, Reports, Decides, Actions

LEMMA CallbackKinds ==
    ASSUME NEW k \in Kinds
    PROVE  /\ k \in Decides => CallbacksOf[k] = {k}
           /\ k = "response" => CallbacksOf[k] = {"dm"}
           /\ k = "reboot" => CallbacksOf[k] = {"reboot", "factory_reset"}
           /\ k = "factory_reset" => CallbacksOf[k] = {k}
           /\ CallbacksOf[k] \cap {"reboot", "factory_reset"} # {} => k \in Actions
           /\ CallbacksOf[k] # {} => k \in Decides \cup Actions \cup {"response"}
BY DEF CallbacksOf, Kinds, RequestKinds, Decides, Actions

LEMMA CodeKinds ==
    ASSUME NEW k \in Kinds
    PROVE  /\ k \in Decides => CodesOf[k] = {202, 400}
           /\ k \in Actions => CodesOf[k] = ActionCodes
           /\ k \in {"observe", "cancel"} => CodesOf[k] = {200}
           /\ k = "update" => CodesOf[k] = {204}
BY DEF CodesOf, Kinds, RequestKinds, Decides, Actions

\* The id of a message tells it from all others.
LEMMA IdsTell ==
    ASSUME DeliveryInv, NEW m \in taken \cup InFlight, NEW n \in taken \cup InFlight,
           m.req = n.req
    PROVE  m = n
<1>1. m \in Requests \/ (m.req \in AppIds /\ m = Response(m.req))
    BY DEF DeliveryInv
<1>2. n \in Requests \/ (n.req \in AppIds /\ n = Response(n.req))
    BY DEF DeliveryInv
<1>3. \A r \in Requests : r.req \in PlatformIds
    BY RequestsAssumption
<1> QED
    BY <1>1, <1>2, <1>3, RequestsAssumption, IdsAssumption

LEMMA MessageFacts ==
    ASSUME DeliveryInv, NEW m \in taken \cup InFlight
    PROVE  /\ m.req # NoId /\ m.kind \in RequestKinds \cup {"response"}
           /\ Key(m) \in {Key(r) : r \in Requests} \cup {Key(Response(id)) : id \in AppIds}
<1>1. CASE m \in Requests
    BY <1>1, RequestsAssumption, IdsAssumption
<1>2. CASE m.req \in AppIds /\ m = Response(m.req)
    <2>1. m.kind = "response"
        BY <1>2 DEF Response, NoMessage
    <2> QED
        BY <1>2, <2>1, IdsAssumption
<1> QED
    BY <1>1, <1>2 DEF DeliveryInv

\* The next message has not been received before.
LEMMA NextIsFresh ==
    ASSUME TypeInv, DeliveryInv, inbox # <<>>
    PROVE  Head(inbox) \in InFlight /\ Head(inbox).req \notin Received
<1>1. inbox \in Seq(Message)
    BY DEF TypeInv, TypeOK
<1>2. Head(inbox) = inbox[1] /\ 1 \in 1 .. Len(inbox)
    BY <1>1
<1>3. Head(inbox) \in InFlight
    BY <1>2 DEF InFlight
<1>4. ASSUME NEW m \in taken, m.req = Head(inbox).req PROVE FALSE
    <2>1. m = Head(inbox)
        BY <1>3, <1>4, IdsTell
    <2> QED
        BY <1>3, <2>1 DEF DeliveryInv
<1> QED
    BY <1>3, <1>4 DEF Received

LEMMA ReceivedNotNoId ==
    ASSUME DeliveryInv PROVE NoId \notin Received
BY MessageFacts DEF Received

-----------------------------------------------------------------------------
(* The history.                                                            *)

\* What is published meanwhile is no answer to a request.
Silent ==
    /\ sent \subseteq sent'
    /\ \A p \in sent' \ sent : p.topic \notin {"RESPONSE", "MANAGE", "UNMANAGE"} /\ p.req \in Received

\* A step of the callback thread that receives and answers nothing.
LEMMA NetMoves ==
    ASSUME TypeInv, ServiceInv, NEW g, Move("net", g), Serves(g),
           g = Idle \/ Key(g.msg) = Key(net.msg),
           UNCHANGED <<inbox, taken, called>>, Silent
    PROVE  Good
<1>1. net' = g /\ app' = app
    BY MoveTyped DEF Threads, net, app, TypeInv
<1>2. InFlight' = InFlight /\ Received' = Received
    BY DEF InFlight, Received
<1>3. DeliveryInv'
    BY <1>1, <1>2 DEF ServiceInv, DeliveryInv, Names, Silent
<1>4. HistoryInv'
    BY <1>1, <1>2 DEF ServiceInv, HistoryInv, Silent
<1>5. NetInv'
    <2>1. AnswersTo(sent', g.msg.req) = AnswersTo(sent, g.msg.req)
        BY DEF AnswersTo, Silent
    <2> QED
        BY <1>1, <1>2, <2>1 DEF NetInv, Serves
<1>6. [S!Next]_(S!vars)
    <2> DEFINE answers == {<<a.req, a.rc>> : a \in {p \in sent : p.topic = "RESPONSE" /\ p.req # NoId}}
    <2>0. answers' = answers
        BY DEF Silent
    <2>1. CASE Key(g.msg) = Key(net.msg)
        BY <1>1, <2>0, <2>1 DEF S!vars
    <2>2. CASE g = Idle
        <3>1. Key(net.msg)' = Key(NoMessage)
            BY <1>1, <2>2 DEF Idle
        <3>2. CASE Key(net.msg) = Key(NoMessage)
            BY <2>0, <3>1, <3>2 DEF S!vars
        <3>3. CASE Key(net.msg) # Key(NoMessage)
            BY <2>0, <3>1, <3>3 DEF S!Next, S!Finish, S!Busy
        <3> QED
            BY <3>2, <3>3
    <2> QED
        BY <2>1, <2>2
<1> QED
    BY <1>3, <1>4, <1>5, <1>6 DEF Good, ServiceInv

\* A step of the callback thread that may publish an answer.
LEMMA NetAnswers ==
    ASSUME TypeInv, ServiceInv, PublishIgnoringRc("net", "RESPONSE"), NEW g, Move("net", g),
           Working(net, AnswersTo(sent, net.msg.req), ActsOn(called, net.msg.req), Received),
           net.rc \in CodesOf[net.msg.kind], AnswersTo(sent, net.msg.req) \subseteq {net.rc},
           net.rc = 400 => ActsOn(called, net.msg.req) = {},
           \/ g = Idle
           \/ /\ Key(g.msg) = Key(net.msg)
              /\ Working(g, AnswersTo(sent, net.msg.req), ActsOn(called, net.msg.req), Received)
              /\ Working(g, {net.rc}, ActsOn(called, net.msg.req), Received),
           UNCHANGED <<inbox, taken, called>>
    PROVE  Good
<1> DEFINE req == net.msg.req
           p   == Publication("net", "RESPONSE")
<1>0. p.topic = "RESPONSE" /\ p.req = req /\ p.rc = net.rc
    BY DEF Publication, net
<1>1. CASE sent' = sent
    <2>1. Serves(g)
        BY DEF Serves, Key
    <2> QED
        BY <1>1, <2>1, NetMoves DEF Silent
<1>2. CASE sent' = sent \cup {p}
    <2> HIDE DEF p
    <2>1. net' = g /\ app' = app
        BY MoveTyped DEF Threads, net, app, TypeInv
    <2>2. InFlight' = InFlight /\ Received' = Received /\ req \in Received
        BY DEF InFlight, Received, Working
    <2>3. DeliveryInv'
        BY <1>0, <1>2, <2>1, <2>2 DEF ServiceInv, DeliveryInv, Names
    <2>4. HistoryInv'
        BY <1>0, <1>2, <2>1, <2>2 DEF ServiceInv, HistoryInv
    <2>5. AnswersTo(sent', req) = {net.rc}
        <3> DEFINE r == req
                   c == net.rc
        <3>1. p \in sent' /\ p.topic = "RESPONSE" /\ p.req = r /\ p.rc = c
            BY <1>0, <1>2
        <3>2. \A a \in sent : a.topic = "RESPONSE" /\ a.req = r => a.rc = c
            BY DEF AnswersTo
        <3> HIDE DEF r, c
        <3>3. {a.rc : a \in {q \in sent' : q.topic = "RESPONSE" /\ q.req = r}} = {c}
            BY <1>2, <3>1, <3>2
        <3> QED
            BY <3>3 DEF AnswersTo, r, c
    <2>6. NetInv'
        BY <2>1, <2>2, <2>5 DEF NetInv, Serves, Key
    <2>7. S!Answer(net.rc)
        <3> DEFINE answers == {<<a.req, a.rc>> : a \in {q \in sent : q.topic = "RESPONSE" /\ q.req # NoId}}
                   acted == {<<d.req, d.cb>> : d \in called}
        <3>1. Key(net.msg) # Key(NoMessage) /\ Key(net.msg).kind = net.msg.kind
              /\ Key(net.msg).req = req
            BY KindsApart DEF Working, Key, NoMessage
        <3>2. \A a \in answers : a[1] = req => a[2] = net.rc
            BY DEF AnswersTo
        <3>3. net.rc = 400 => \A d \in acted : d[1] # req
            BY DEF ActsOn
        <3>4. answers' = answers \cup {<<req, net.rc>>}
            <4> DEFINE r == req
                       c == net.rc
            <4>1. r # NoId
                BY <2>2, ReceivedNotNoId DEF ServiceInv
            <4>2. p.topic = "RESPONSE" /\ p.req = r /\ p.rc = c
                BY <1>0
            <4> HIDE DEF r, c
            <4>3. {<<a.req, a.rc>> : a \in {q \in sent' : q.topic = "RESPONSE" /\ q.req # NoId}}
                    = answers \cup {<<r, c>>}
                BY <1>2, <4>1, <4>2
            <4> QED
                BY <4>3 DEF r, c
        <3>5. Key(net'.msg) \in {Key(net.msg), Key(NoMessage)}
            BY <2>1 DEF Idle
        <3> HIDE DEF answers, acted
        <3> QED
            BY <3>1, <3>2, <3>3, <3>4, <3>5 DEF S!Answer, S!Busy, S!REFUSED, answers, acted
    <2>8. S!Next
        <3>1. S!Busy /\ net.rc \in CodesOf[Key(net.msg).kind]
            BY <2>7 DEF S!Answer
        <3>2. \E code \in CodesOf[Key(net.msg).kind] : S!Answer(code)
            BY <2>7, <3>1 DEF S!Answer
        <3> QED
            BY <3>1, <3>2 DEF S!Next
    <2> QED
        BY <2>3, <2>4, <2>6, <2>8 DEF Good, ServiceInv
<1> QED
    BY <1>1, <1>2 DEF PublishIgnoringRc

\* A step of the application thread, which serves nothing.
LEMMA AppMoves ==
    ASSUME TypeInv, ServiceInv, net' = net, app'.msg = NoMessage,
           Names(app'),
           UNCHANGED <<inbox, taken, called>>, sent \subseteq sent',
           \A p \in sent' \ sent :
               p.req = NoId /\ (p.topic \in {"MANAGE", "UNMANAGE"} => p.id["lo"] \in AppIds)
    PROVE  Good
<1>1. InFlight' = InFlight /\ Received' = Received
    BY DEF InFlight, Received
<1>2. DeliveryInv'
    BY <1>1 DEF ServiceInv, DeliveryInv, Names
<1>3. HistoryInv'
    BY <1>1 DEF ServiceInv, HistoryInv
<1>4. NetInv'
    <2>1. CASE net = Idle
        BY <2>1 DEF NetInv, Serves
    <2>2. CASE net # Idle
        <3>1. net.msg.req # NoId
            BY <2>2, ReceivedNotNoId DEF ServiceInv, NetInv, Serves, Working
        <3>2. AnswersTo(sent', net.msg.req) = AnswersTo(sent, net.msg.req)
            BY <3>1 DEF AnswersTo
        <3> QED
            BY <1>1, <3>2 DEF ServiceInv, NetInv, Serves
    <2> QED
        BY <2>1, <2>2
<1>5. UNCHANGED S!vars
    BY DEF S!vars
<1> QED
    BY <1>2, <1>3, <1>4, <1>5 DEF Good, ServiceInv

\* A step of the network.
LEMMA NetworkMoves ==
    ASSUME TypeInv, ServiceInv, UNCHANGED <<frame, taken, called, sent>>, DeliveryInv'
    PROVE  Good
<1>1. net' = net /\ app' = app /\ Received' = Received
    BY DEF net, app, Received
<1>2. HistoryInv' /\ NetInv'
    BY <1>1 DEF ServiceInv, HistoryInv, NetInv, Serves
<1>3. UNCHANGED S!vars
    BY <1>1 DEF S!vars
<1> QED
    BY <1>2, <1>3 DEF Good, ServiceInv

\* A step that leaves the threads and the network where they are.
LEMMA Rests ==
    ASSUME TypeInv, ServiceInv, UNCHANGED <<frame, inbox, taken, called, sent>> PROVE Good
<1>1. net' = net /\ app' = app /\ InFlight' = InFlight
    BY DEF net, app, InFlight
<1>2. DeliveryInv'
    BY <1>1 DEF ServiceInv, DeliveryInv, Names
<1> QED
    BY <1>2, NetworkMoves

-----------------------------------------------------------------------------
(* The callback thread.                                                    *)

\* What a frame that changes only its place, code, callback and id must satisfy.
LEMMA Frames ==
    ASSUME NEW f \in Frame
    PROVE  /\ \A pc : LET g == [f EXCEPT !.pc = pc]
                      IN  g.pc = pc /\ g.op = f.op /\ g.msg = f.msg /\ g.rc = f.rc
                          /\ g.cb = f.cb /\ g.i = f.i /\ g.id = f.id
           /\ \A pc, rc : LET g == [f EXCEPT !.pc = pc, !.rc = rc]
                          IN  g.pc = pc /\ g.op = f.op /\ g.msg = f.msg /\ g.rc = rc
                              /\ g.cb = f.cb /\ g.i = f.i /\ g.id = f.id
           /\ \A pc, cb : LET g == [f EXCEPT !.pc = pc, !.cb = cb]
                          IN  g.pc = pc /\ g.op = f.op /\ g.msg = f.msg /\ g.rc = f.rc
                              /\ g.cb = cb /\ g.i = f.i /\ g.id = f.id
           /\ \A pc, cb, rc : LET g == [f EXCEPT !.pc = pc, !.cb = cb, !.rc = rc]
                              IN  g.pc = pc /\ g.op = f.op /\ g.msg = f.msg /\ g.rc = rc
                                  /\ g.cb = cb /\ g.i = f.i /\ g.id = f.id
           /\ \A pc, id : LET g == [f EXCEPT !.id = id, !.pc = pc]
                          IN  g.pc = pc /\ g.op = f.op /\ g.msg = f.msg /\ g.rc = f.rc
                              /\ g.cb = f.cb /\ g.i = f.i /\ g.id = id
           /\ \A pc, id, left : LET g == [f EXCEPT !.pc = pc, !.id = id, !.left = left]
                                IN  g.pc = pc /\ g.op = f.op /\ g.msg = f.msg /\ g.rc = f.rc
                                    /\ g.cb = f.cb /\ g.i = f.i /\ g.id = id
           /\ \A pc, left : LET g == [f EXCEPT !.left = left, !.pc = pc]
                            IN  g.pc = pc /\ g.op = f.op /\ g.msg = f.msg /\ g.rc = f.rc
                                /\ g.cb = f.cb /\ g.i = f.i /\ g.id = f.id
           /\ LET g == [f EXCEPT !.pc = "loop", !.i = @ + 1]
              IN  g.pc = "loop" /\ g.op = f.op /\ g.msg = f.msg /\ g.rc = f.rc /\ g.cb = f.cb
                  /\ g.id = f.id
           /\ \A op, pc, rc : LET g == [f EXCEPT !.op = op, !.pc = pc, !.rc = rc]
                              IN  g.pc = pc /\ g.op = op /\ g.msg = f.msg /\ g.rc = rc
                                  /\ g.id = f.id
           /\ \A op, pc : LET g == [f EXCEPT !.op = op, !.pc = pc]
                          IN  g.pc = pc /\ g.op = op /\ g.msg = f.msg /\ g.id = f.id
BY DEF Frame

\* A thread that has an operation to do serves a message.
LEMMA ServesMessage ==
    ASSUME TypeInv, ServiceInv, net.op # "none"
    PROVE  /\ Working(net, AnswersTo(sent, net.msg.req), ActsOn(called, net.msg.req), Received)
           /\ net \in Frame
BY FramesTyped DEF TypeInv, ServiceInv, NetInv, Serves, Idle

\* The end of a call.
LEMMA NetReturns ==
    ASSUME TypeInv, ServiceInv, Return("net"), UNCHANGED <<inbox, taken, called>>, Silent
    PROVE  Good
BY NetMoves DEF Return, Serves

LEMMA Kept == UNCHANGED sent => Silent
BY DEF Silent

\* The start of a parse, and its end.
LEMMA Parses ==
    ASSUME TypeInv, ServiceInv, net.op \in Kinds, net.pc = "start", ParseRequestID,
           UNCHANGED <<inbox, taken, called, sent>>
    PROVE  Good
<1>1. CASE UNCHANGED frame
    BY <1>1, Rests
<1>2. CASE BeginCopy("net", net.msg.req)
    <2> DEFINE g == [net EXCEPT !.pc = "copy", !.id = Whole(net.msg.req), !.left = Halves]
    <2>1. /\ Working(net, AnswersTo(sent, net.msg.req), ActsOn(called, net.msg.req), Received)
          /\ net \in Frame
        BY ServesMessage, KindsApart
    <2>2. g.pc = "copy" /\ g.op = net.op /\ g.msg = net.msg /\ g.rc = net.rc /\ g.cb = net.cb
        BY <2>1, Frames
    <2>3. Move("net", g)
        BY <1>2 DEF BeginCopy, net
    <2> HIDE DEF g
    <2>4. Serves(g)
        BY <2>1, <2>2 DEF Serves, Working, Progress
    <2> QED
        BY <2>2, <2>3, <2>4, Kept, NetMoves
<1> QED
    BY <1>1, <1>2 DEF ParseRequestID

\* A handler moves on with its message and answers nothing.
LEMMA Proceeds ==
    ASSUME TypeInv, ServiceInv, NEW g, Move("net", g),
           net.op \in Kinds, net.pc # "callback", g.op = net.op, g.msg = net.msg,
           g.pc \in {"check", "call"} => g.cb \in CallbacksOf[g.op], g.pc # "callback",
           Progress(g, AnswersTo(sent, net.msg.req)),
           UNCHANGED <<inbox, taken, called>>, Silent
    PROVE  Good
<1>1. Working(net, AnswersTo(sent, net.msg.req), ActsOn(called, net.msg.req), Received)
    BY ServesMessage, KindsApart
<1>2. Working(g, AnswersTo(sent, g.msg.req), ActsOn(called, g.msg.req), Received)
    BY <1>1, KindsApart DEF Working
<1> QED
    BY <1>2, NetMoves DEF Serves

\* The answer to a download or update request, and what follows.
LEMMA AfterDecision ==
    ASSUME TypeInv, ServiceInv, net.op \in Decides, net.pc = "send",
           PublishIgnoringRc("net", "RESPONSE"), AfterAnswer,
           UNCHANGED <<inbox, taken, called>>
    PROVE  Good
<1> DEFINE codes == AnswersTo(sent, net.msg.req)
           acts  == ActsOn(called, net.msg.req)
<1>1. Working(net, codes, acts, Received) /\ net \in Frame
    BY ServesMessage, KindsApart
<1>2. net.msg.kind = net.op /\ acts = {} /\ codes = {} /\ net.rc \in {202, 400} /\ net.cb = net.op
    <2>1. net.op \notin Reports
        BY KindsApart
    <2>2. net.msg.kind = net.op /\ acts = {} /\ Progress(net, codes)
        BY <1>1, <2>1 DEF Working
    <2> QED
        BY <2>2 DEF Progress, Decides, Actions
<1>3. net.rc \in CodesOf[net.msg.kind]
    BY <1>2, CodeKinds, KindsApart
<1>4. CASE net.rc = 202
    <2> DEFINE g == [net EXCEPT !.pc = "check"]
    <2>1. g.pc = "check" /\ g.op = net.op /\ g.msg = net.msg /\ g.rc = net.rc /\ g.cb = net.cb
        BY <1>1, Frames
    <2>2. Move("net", g)
        BY <1>4 DEF AfterAnswer, Goto, net
    <2> HIDE DEF g
    <2>3. g.cb \in CallbacksOf[g.op]
        BY <1>2, <2>1, CallbackKinds, KindsApart
    <2>4. Working(g, codes, acts, Received) /\ Working(g, {net.rc}, acts, Received)
        <3>1. Progress(g, codes) /\ Progress(g, {net.rc})
            BY <1>2, <1>4, <2>1 DEF Progress, Decides, Actions
        <3> QED
            BY <1>1, <1>2, <2>1, <2>3, <3>1 DEF Working
    <2> HIDE DEF codes, acts
    <2>5. Key(g.msg) = Key(net.msg) /\ codes \subseteq {net.rc}
        BY <1>2, <2>1
    <2> QED
        BY <1>1, <1>2, <1>3, <2>2, <2>4, <2>5, NetAnswers DEF codes, acts
<1>5. CASE net.rc # 202
    <2>1. Move("net", Idle)
        BY <1>5 DEF AfterAnswer, Return
    <2> QED
        BY <1>1, <1>2, <1>3, <2>1, NetAnswers
<1> QED
    BY <1>4, <1>5

LEMMA DownloadServes == TypeInv /\ ServiceInv /\ messageFirmwareDownload => Good
<1> SUFFICES ASSUME TypeInv, ServiceInv, messageFirmwareDownload PROVE Good
    OBVIOUS
<1> DEFINE codes == AnswersTo(sent, net.msg.req)
           acts  == ActsOn(called, net.msg.req)
<1>0. UNCHANGED <<inbox, taken, called>> /\ net.op = "download" /\ "download" \in Kinds
    BY KindsApart DEF messageFirmwareDownload, At, net, Decides
<1>1. Working(net, codes, acts, Received) /\ net \in Frame
    BY <1>0, ServesMessage
<1>2. CASE At("net", "download", "start") /\ ParseRequestID /\ UNCHANGED sent
    BY <1>0, <1>2, Parses DEF At, net
<1>3. CASE /\ At("net", "download", "copied")
           /\ Move("net", [net EXCEPT !.pc = "format", !.cb = "download",
                             !.rc = IF dmClient.state # IDLE THEN 400 ELSE 202])
           /\ UNCHANGED <<crash, sent>>
    <2> DEFINE rc == IF dmClient.state # IDLE THEN 400 ELSE 202
               g  == [net EXCEPT !.pc = "format", !.cb = "download", !.rc = rc]
    <2>1. g.pc = "format" /\ g.op = net.op /\ g.msg = net.msg /\ g.rc = rc /\ g.cb = "download"
        BY <1>1, Frames
    <2>2. rc \in {202, 400}
        OBVIOUS
    <2>3. Move("net", g) /\ net.pc = "copied"
        BY <1>3 DEF At, net
    <2> HIDE DEF g, rc
    <2>4. Progress(g, codes)
        BY <1>0, <1>1, <2>1, <2>2, <2>3 DEF Working, Progress, Decides
    <2> QED
        BY <1>0, <1>3, <2>1, <2>3, <2>4, Kept, Proceeds
<1>4. CASE At("net", "download", "send") /\ PublishIgnoringRc("net", "RESPONSE") /\ AfterAnswer
    BY <1>0, <1>1, <1>4, AfterDecision DEF At, net, Decides
<1> QED
    BY <1>2, <1>3, <1>4 DEF messageFirmwareDownload

LEMMA FirmwareUpdateServes == TypeInv /\ ServiceInv /\ messageFirmwareUpdate => Good
<1> SUFFICES ASSUME TypeInv, ServiceInv, messageFirmwareUpdate PROVE Good
    OBVIOUS
<1> DEFINE codes == AnswersTo(sent, net.msg.req)
<1>0. UNCHANGED <<inbox, taken, called>> /\ net.op = "firmware_update" /\ "firmware_update" \in Kinds
    BY KindsApart DEF messageFirmwareUpdate, At, net, Decides
<1>1. Working(net, codes, ActsOn(called, net.msg.req), Received) /\ net \in Frame
    BY <1>0, ServesMessage
<1>2. CASE /\ At("net", "firmware_update", "start")
           /\ Move("net", [net EXCEPT !.pc = "format", !.cb = "firmware_update",
                             !.rc = FirmwareUpdateCode])
           /\ UNCHANGED <<crash, sent>>
    <2> DEFINE rc == FirmwareUpdateCode
               g  == [net EXCEPT !.pc = "format", !.cb = "firmware_update", !.rc = rc]
    <2>1. g.pc = "format" /\ g.op = net.op /\ g.msg = net.msg /\ g.rc = rc
          /\ g.cb = "firmware_update"
        BY <1>1, Frames
    <2>2. rc \in {202, 400}
        BY DEF FirmwareUpdateCode
    <2>3. Move("net", g) /\ net.pc = "start"
        BY <1>2 DEF At, net
    <2> HIDE DEF g, rc
    <2>4. Progress(g, codes)
        BY <1>0, <1>1, <2>1, <2>2, <2>3 DEF Working, Progress, Decides
    <2> QED
        BY <1>0, <1>2, <2>1, <2>3, <2>4, Kept, Proceeds
<1>3. CASE At("net", "firmware_update", "send") /\ PublishIgnoringRc("net", "RESPONSE")
           /\ AfterAnswer
    BY <1>0, <1>1, <1>3, AfterDecision DEF At, net, Decides
<1> QED
    BY <1>2, <1>3 DEF messageFirmwareUpdate

LEMMA ObserveServes == TypeInv /\ ServiceInv /\ messageObserve => Good
<1> SUFFICES ASSUME TypeInv, ServiceInv, messageObserve PROVE Good
    OBVIOUS
<1> DEFINE codes == AnswersTo(sent, net.msg.req)
           acts  == ActsOn(called, net.msg.req)
<1>0. UNCHANGED <<inbox, taken, called>> /\ net.op = "observe" /\ "observe" \in Kinds
    BY DEF messageObserve, At, net, Kinds, RequestKinds
<1>1. Working(net, codes, acts, Received) /\ net \in Frame /\ "observe" \notin Reports
    BY <1>0, ServesMessage, KindsApart
<1>2. codes = {} /\ net.msg.kind = "observe"
    BY <1>0, <1>1 DEF Working, Progress, Decides, Actions
<1>3. CASE /\ At("net", "observe", "start")
           /\ Move("net", [net EXCEPT !.pc = "format", !.rc = 200])
           /\ UNCHANGED <<crash, sent>>
    <2> DEFINE g == [net EXCEPT !.pc = "format", !.rc = 200]
    <2>1. g.pc = "format" /\ g.op = net.op /\ g.msg = net.msg /\ g.rc = 200
        BY <1>1, Frames
    <2>2. Move("net", g) /\ net.pc = "start"
        BY <1>3 DEF At, net
    <2> HIDE DEF g
    <2>3. Progress(g, codes)
        BY <1>0, <1>2, <2>1 DEF Progress, Decides, Actions
    <2> QED
        BY <1>0, <1>3, <2>1, <2>2, <2>3, Kept, Proceeds
<1>4. CASE At("net", "observe", "send") /\ PublishIgnoringRc("net", "RESPONSE") /\ Return("net")
    <2>1. net.rc = 200
        BY <1>0, <1>1, <1>4 DEF Working, Progress, Decides, Actions, At, net
    <2>2. net.rc \in CodesOf[net.msg.kind]
        BY <1>0, <1>2, <2>1, CodeKinds
    <2> QED
        BY <1>0, <1>1, <1>2, <1>4, <2>1, <2>2, NetAnswers DEF Return
<1> QED
    BY <1>3, <1>4 DEF messageObserve

LEMMA CancelServes == TypeInv /\ ServiceInv /\ messageCancel => Good
<1> SUFFICES ASSUME TypeInv, ServiceInv, messageCancel PROVE Good
    OBVIOUS
<1> DEFINE codes == AnswersTo(sent, net.msg.req)
           acts  == ActsOn(called, net.msg.req)
<1>0. UNCHANGED <<inbox, taken, called>> /\ net.op = "cancel" /\ "cancel" \in Kinds
    BY DEF messageCancel, At, AtField, net, Kinds, RequestKinds
<1>1. Working(net, codes, acts, Received) /\ net \in Frame /\ "cancel" \notin Reports
    BY <1>0, ServesMessage, KindsApart
<1>2. codes \subseteq {200} /\ net.msg.kind = "cancel"
    BY <1>0, <1>1 DEF Working, Progress, Decides, Actions
<1>3. CASE At("net", "cancel", "start") /\ ParseRequestID /\ UNCHANGED <<dmClient, sent>>
    BY <1>0, <1>3, Parses DEF At, net
<1>4. ASSUME NEW g, Move("net", g), net.pc \in {"copied", "loop"}, UNCHANGED sent,
             g.op = net.op, g.msg = net.msg, g.pc \in {"loop", "format"},
             g.pc = "format" => g.rc = 200
      PROVE  Good
    <2>1. Progress(g, codes)
        BY <1>0, <1>2, <1>4 DEF Progress, Decides, Actions
    <2> QED
        BY <1>0, <1>4, <2>1, Kept, Proceeds
<1>5. CASE At("net", "cancel", "copied") /\ Goto("net", "loop") /\ UNCHANGED <<dmClient, crash, sent>>
    <2> DEFINE g == [net EXCEPT !.pc = "loop"]
    <2>1. g.pc = "loop" /\ g.op = net.op /\ g.msg = net.msg
        BY <1>1, Frames
    <2>2. Move("net", g) /\ net.pc = "copied"
        BY <1>5 DEF Goto, At, net
    <2> HIDE DEF g
    <2> QED
        BY <1>4, <1>5, <2>1, <2>2
<1>6. CASE /\ AtField("cancel", "loop") /\ UNCHANGED sent
           /\ Move("net", [net EXCEPT !.pc = "format", !.rc = 200])
    <2> DEFINE g == [net EXCEPT !.pc = "format", !.rc = 200]
    <2>1. g.pc = "format" /\ g.op = net.op /\ g.msg = net.msg /\ g.rc = 200
        BY <1>1, Frames
    <2>2. Move("net", g) /\ net.pc = "loop"
        BY <1>6 DEF AtField, At, net
    <2> HIDE DEF g
    <2> QED
        BY <1>4, <1>6, <2>1, <2>2
<1>7. CASE AtField("cancel", "loop") /\ UNCHANGED sent /\ NextField("net")
    BY <1>1, <1>4, <1>7, Frames DEF NextField, AtField, At, net
<1>8. CASE Return("net") /\ UNCHANGED sent
    BY <1>0, <1>8, Kept, NetReturns
<1>9. CASE At("net", "cancel", "send") /\ PublishIgnoringRc("net", "RESPONSE") /\ NextField("net")
    <2> DEFINE g == [net EXCEPT !.pc = "loop", !.i = @ + 1]
    <2>1. net.rc = 200 /\ acts = {}
        BY <1>0, <1>1, <1>2, <1>9 DEF Working, Progress, Decides, Actions, At, net
    <2>2. net.rc \in CodesOf[net.msg.kind]
        BY <1>0, <1>2, <2>1, CodeKinds
    <2>3. g.pc = "loop" /\ g.op = net.op /\ g.msg = net.msg
        BY <1>1, Frames
    <2>4. Move("net", g)
        BY <1>9 DEF NextField, net
    <2> HIDE DEF g
    <2>5. Working(g, codes, acts, Received) /\ Working(g, {net.rc}, acts, Received)
        <3>1. Progress(g, codes) /\ Progress(g, {net.rc})
            BY <1>0, <1>2, <2>1, <2>3 DEF Progress, Decides, Actions
        <3> QED
            BY <1>1, <1>2, <2>1, <2>3, <3>1 DEF Working
    <2> HIDE DEF codes, acts
    <2>6. Key(g.msg) = Key(net.msg) /\ codes \subseteq {net.rc}
        BY <1>2, <2>1, <2>3
    <2> QED
        BY <1>0, <1>1, <1>9, <2>1, <2>2, <2>4, <2>5, <2>6, NetAnswers DEF codes, acts
<1> QED
    BY <1>3, <1>5, <1>6, <1>7, <1>8, <1>9 DEF messageCancel

\* What is published under the topic of a location or of a notification.
LEMMA Unanswered ==
    ASSUME NEW topic \in {"UPDATE_LOCATION", "NOTIFY"}, net.msg.req \in Received,
           PublishIgnoringRc("net", topic)
    PROVE  Silent
<1> DEFINE p == Publication("net", topic)
<1>1. p.topic = topic /\ p.req = net.msg.req
    BY DEF Publication, net
<1> HIDE DEF p
<1>2. sent' = sent \/ sent' = sent \cup {p}
    BY DEF PublishIgnoringRc, p
<1> QED
    BY <1>1, <1>2 DEF Silent

LEMMA UpdateServes == TypeInv /\ ServiceInv /\ messageUpdate => Good
<1> SUFFICES ASSUME TypeInv, ServiceInv, messageUpdate PROVE Good
    OBVIOUS
<1> DEFINE codes == AnswersTo(sent, net.msg.req)
           acts  == ActsOn(called, net.msg.req)
           located(f) == f.msg.fields[f.i].name = "location"
<1>0. UNCHANGED <<inbox, taken, called>> /\ net.op = "update" /\ "update" \in Kinds
    BY DEF messageUpdate, At, AtField, net, Kinds, RequestKinds
<1>1. Working(net, codes, acts, Received) /\ net \in Frame /\ "update" \notin Reports
    BY <1>0, ServesMessage, KindsApart
<1>2. codes \subseteq {204} /\ net.msg.kind = "update" /\ net.msg.req \in Received
    BY <1>0, <1>1 DEF Working, Progress, Decides, Actions
<1>3. ASSUME ParseRequestID, net.pc = "start", UNCHANGED sent PROVE Good
    BY <1>0, <1>3, Parses
<1>4. ASSUME Return("net"), UNCHANGED sent PROVE Good
    BY <1>0, <1>4, Kept, NetReturns
<1>5. ASSUME NEW g, Move("net", g), net.pc # "callback", Silent,
             g.op = net.op, g.msg = net.msg, g.pc \in {"loop", "format"},
             g.pc = "format" => located(g) \/ g.rc = 204
      PROVE  Good
    <2>1. Progress(g, codes)
        BY <1>0, <1>2, <1>5 DEF Progress, Decides, Actions
    <2> QED
        BY <1>0, <1>5, <2>1, Proceeds
<1>6. CASE At("net", "update", "copied") /\ Goto("net", "loop") /\ UNCHANGED sent
    <2> DEFINE g == [net EXCEPT !.pc = "loop"]
    <2>1. g.pc = "loop" /\ g.op = net.op /\ g.msg = net.msg
        BY <1>1, Frames
    <2>2. Move("net", g) /\ net.pc = "copied"
        BY <1>6 DEF Goto, At, net
    <2> HIDE DEF g
    <2> QED
        BY <1>5, <1>6, <2>1, <2>2, Kept
<1>7. ASSUME NextField("net"), net.pc # "callback", Silent PROVE Good
    <2> DEFINE g == [net EXCEPT !.pc = "loop", !.i = @ + 1]
    <2>1. g.pc = "loop" /\ g.op = net.op /\ g.msg = net.msg
        BY <1>1, Frames
    <2>2. Move("net", g)
        BY <1>7 DEF NextField, net
    <2> HIDE DEF g
    <2> QED
        BY <1>5, <1>7, <2>1, <2>2
<1>8. CASE AtField("update", "loop") /\ updateLocationRequest /\ UNCHANGED sent
    <2> DEFINE g == [net EXCEPT !.pc = "format"]
    <2>1. g.pc = "format" /\ g.op = net.op /\ g.msg = net.msg /\ g.i = net.i
        BY <1>1, Frames
    <2>2. Move("net", g) /\ net.pc = "loop" /\ located(net)
        BY <1>8 DEF AtField, At, updateLocationRequest, Goto, field, net
    <2> HIDE DEF g
    <2> QED
        BY <1>5, <1>8, <2>1, <2>2, Kept
<1>9. CASE AtField("update", "loop") /\ updateFirmwareRequest /\ UNCHANGED sent
    <2> DEFINE g == [net EXCEPT !.pc = "format", !.rc = 204]
    <2>1. g.pc = "format" /\ g.op = net.op /\ g.msg = net.msg /\ g.rc = 204
        BY <1>1, Frames
    <2>2. Move("net", g) /\ net.pc = "loop"
        BY <1>9 DEF AtField, At, updateFirmwareRequest, net
    <2> HIDE DEF g
    <2> QED
        BY <1>5, <1>9, <2>1, <2>2, Kept
<1>10. CASE /\ AtField("update", "send") /\ located(net)
            /\ PublishIgnoringRc("net", "UPDATE_LOCATION") /\ NextField("net")
    BY <1>2, <1>7, <1>10, Unanswered DEF AtField, At, net
<1>11. CASE /\ AtField("update", "send") /\ ~located(net)
            /\ PublishIgnoringRc("net", "RESPONSE") /\ NextField("net")
    <2> DEFINE g == [net EXCEPT !.pc = "loop", !.i = @ + 1]
    <2>0. net.pc = "send"
        BY <1>11 DEF AtField, At, net
    <2>1. net.rc = 204 /\ acts = {}
        BY <1>0, <1>1, <1>2, <1>11, <2>0 DEF Working, Progress, Decides, Actions
    <2>2. net.rc \in CodesOf[net.msg.kind]
        BY <1>0, <1>2, <2>1, CodeKinds
    <2>3. g.pc = "loop" /\ g.op = net.op /\ g.msg = net.msg
        BY <1>1, Frames
    <2>4. Move("net", g)
        BY <1>11 DEF NextField, net
    <2> HIDE DEF g
    <2>5. Working(g, codes, acts, Received) /\ Working(g, {net.rc}, acts, Received)
        <3>1. Progress(g, codes) /\ Progress(g, {net.rc})
            BY <1>0, <1>2, <2>1, <2>3 DEF Progress, Decides, Actions
        <3> QED
            BY <1>1, <1>2, <2>1, <2>3, <3>1 DEF Working
    <2> HIDE DEF codes, acts
    <2>6. Key(g.msg) = Key(net.msg) /\ codes \subseteq {net.rc}
        BY <1>2, <2>1, <2>3
    <2> QED
        BY <1>0, <1>1, <1>11, <2>1, <2>2, <2>4, <2>5, <2>6, NetAnswers DEF codes, acts
<1>12. CASE /\ At("net", "update", "start")
            /\ IF net.msg.payload = "malformed"
               THEN Return("net") /\ UNCHANGED crash
               ELSE ParseRequestID
            /\ UNCHANGED sent
    BY <1>3, <1>4, <1>12 DEF At, net
<1>13. CASE AtField("update", "loop") /\ NextField("net") /\ UNCHANGED sent
    BY <1>7, <1>13, Kept DEF AtField, At, net
<1>14. CASE Return("net") /\ UNCHANGED sent
    BY <1>4, <1>14
<1> QED
    BY <1>6, <1>8, <1>9, <1>10, <1>11, <1>12, <1>13, <1>14 DEF messageUpdate, field

LEMMA ResponseServes == TypeInv /\ ServiceInv /\ messageResponse => Good
<1> SUFFICES ASSUME TypeInv, ServiceInv, messageResponse PROVE Good
    OBVIOUS
<1> DEFINE codes == AnswersTo(sent, net.msg.req)
<1>0. UNCHANGED <<inbox, taken, called, sent>> /\ net.op = "response" /\ "response" \in Kinds
      /\ net.pc # "callback"
    BY DEF messageResponse, At, net, Kinds, RequestKinds
<1>1. Working(net, codes, ActsOn(called, net.msg.req), Received) /\ net \in Frame
    BY <1>0, ServesMessage, KindsApart
<1>2. codes = {}
    BY <1>0, <1>1 DEF Working, Progress, Decides, Actions
<1>3. ASSUME NEW g, Move("net", g), g.op = net.op, g.msg = net.msg, g.pc \in {"match", "call"},
             g.pc = "call" => g.cb = "dm"
      PROVE  Good
    <2>1. Progress(g, codes)
        BY <1>0, <1>2, <1>3 DEF Progress, Decides, Actions
    <2>2. g.pc \in {"check", "call"} => g.cb \in CallbacksOf[g.op]
        BY <1>0, <1>3, CallbackKinds
    <2> QED
        BY <1>0, <1>3, <2>1, <2>2, Kept, Proceeds
<1>4. CASE Return("net")
    BY <1>0, <1>4, Kept, NetReturns
<1>5. CASE UNCHANGED frame
    BY <1>0, <1>5, Rests
<1>6. CASE Goto("net", "match")
    <2> DEFINE g == [net EXCEPT !.pc = "match"]
    <2>1. g.pc = "match" /\ g.op = net.op /\ g.msg = net.msg
        BY <1>1, Frames
    <2>2. Move("net", g)
        BY <1>6 DEF Goto, net
    <2> HIDE DEF g
    <2> QED
        BY <1>3, <2>1, <2>2
<1>7. CASE Move("net", [net EXCEPT !.pc = "call", !.cb = "dm"])
    <2> DEFINE g == [net EXCEPT !.pc = "call", !.cb = "dm"]
    <2>1. g.pc = "call" /\ g.op = net.op /\ g.msg = net.msg /\ g.cb = "dm"
        BY <1>1, Frames
    <2> HIDE DEF g
    <2> QED
        BY <1>3, <1>7, <2>1 DEF g
<1> QED
    BY <1>4, <1>5, <1>6, <1>7 DEF messageResponse

LEMMA ActionServes == TypeInv /\ ServiceInv /\ messageForAction => Good
<1> SUFFICES ASSUME TypeInv, ServiceInv, messageForAction PROVE Good
    OBVIOUS
<1> DEFINE codes == AnswersTo(sent, net.msg.req)
<1>0. UNCHANGED <<inbox, taken, called, sent>> /\ net.op \in Actions /\ net.op \in Kinds
      /\ net.pc \in {"start", "copied"}
    BY KindsApart DEF messageForAction, Actions
<1>1. Working(net, codes, ActsOn(called, net.msg.req), Received) /\ net \in Frame
    BY <1>0, ServesMessage, KindsApart
<1>2. codes = {}
    BY <1>0, <1>1 DEF Working, Progress, Decides, Actions
<1>3. ASSUME NEW g, Move("net", g), g.op = net.op, g.msg = net.msg, g.pc \in {"check", "call"},
             g.cb \in CallbacksOf[g.op]
      PROVE  Good
    <2>1. Progress(g, codes)
        BY <1>0, <1>2, <1>3 DEF Progress, Decides, Actions
    <2> QED
        BY <1>0, <1>3, <2>1, Kept, Proceeds
<1>4. CASE net.pc = "start" /\ ParseRequestID
    BY <1>0, <1>4, Parses
<1>5. CASE Return("net")
    BY <1>0, <1>5, Kept, NetReturns
<1>6. CASE net.op = "reboot" /\ Move("net", [net EXCEPT !.pc = "call", !.cb = "reboot"])
    <2> DEFINE g == [net EXCEPT !.pc = "call", !.cb = "reboot"]
    <2>1. g.pc = "call" /\ g.op = net.op /\ g.msg = net.msg /\ g.cb = "reboot"
        BY <1>1, Frames
    <2>2. Move("net", g)
        BY <1>6
    <2> HIDE DEF g
    <2>3. g.cb \in CallbacksOf[g.op]
        BY <1>0, <1>6, <2>1, CallbackKinds
    <2> QED
        BY <1>3, <2>1, <2>2, <2>3
<1>7. CASE Move("net", [net EXCEPT !.pc = "check", !.cb = "factory_reset"])
    <2> DEFINE g == [net EXCEPT !.pc = "check", !.cb = "factory_reset"]
    <2>1. g.pc = "check" /\ g.op = net.op /\ g.msg = net.msg /\ g.cb = "factory_reset"
        BY <1>1, Frames
    <2>2. Move("net", g)
        BY <1>7
    <2> HIDE DEF g
    <2>3. g.cb \in CallbacksOf[g.op]
        BY <1>0, <2>1, CallbackKinds DEF Actions
    <2> QED
        BY <1>3, <2>1, <2>2, <2>3
<1> QED
    BY <1>4, <1>5, <1>6, <1>7 DEF messageForAction

\* The id is copied, and a message is formatted, in the same place of a handler.
LEMMA FormatServes ==
    TypeInv /\ ServiceInv /\ (CopyRequestID("net") \/ FormatMessage("net")) => Good
<1> SUFFICES ASSUME TypeInv, ServiceInv, CopyRequestID("net") \/ FormatMessage("net") PROVE Good
    OBVIOUS
<1> DEFINE codes == AnswersTo(sent, net.msg.req)
           acts  == ActsOn(called, net.msg.req)
<1>0. UNCHANGED <<inbox, taken, called, sent>> /\ net.pc \in {"copy", "format"}
    BY DEF CopyRequestID, FormatMessage, net
<1>1. net \in Frame /\ net # Idle
    BY <1>0, FramesTyped DEF Idle, TypeInv
<1>2. Working(net, codes, acts, Received)
    BY <1>1 DEF ServiceInv, NetInv, Serves
<1>3. ASSUME NEW g, Move("net", g), g.op = net.op, g.msg = net.msg, g.rc = net.rc,
             g.cb = net.cb, g.i = net.i,
             \/ net.pc = "copy" /\ g.pc \in {"copy", "copied"}
             \/ net.pc = "format" /\ g.pc = "send"
      PROVE  Good
    <2>1. Progress(net, codes) /\ g.pc \notin {"check", "call", "callback"}
        BY <1>2, <1>3 DEF Working
    <2>2. Progress(g, codes)
        BY <1>3, <2>1 DEF Progress, Decides, Actions
    <2>3. Working(g, codes, acts, Received)
        BY <1>0, <1>2, <1>3, <2>1, <2>2 DEF Working
    <2>4. Serves(g) /\ Key(g.msg) = Key(net.msg)
        BY <1>3, <2>3 DEF Serves
    <2> QED
        BY <1>0, <1>3, <2>4, Kept, NetMoves
<1>4. CASE CopyRequestID("net")
    <2>1. PICK h \in net.left, pc \in {"copy", "copied"} :
            net.pc = "copy" /\ Move("net", [net EXCEPT !.left = @ \ {h}, !.pc = pc])
        BY <1>4 DEF CopyRequestID, net
    <2> DEFINE left == net.left \ {h}
               g    == [net EXCEPT !.left = left, !.pc = pc]
    <2>2. Move("net", g)
        BY <2>1
    <2> HIDE DEF left
    <2>3. g.pc = pc /\ g.op = net.op /\ g.msg = net.msg /\ g.rc = net.rc /\ g.cb = net.cb
          /\ g.i = net.i
        BY <1>1, Frames
    <2> HIDE DEF g
    <2> QED
        BY <1>3, <2>1, <2>2, <2>3
<1>5. CASE FormatMessage("net")
    <2> DEFINE g == [net EXCEPT !.id = currentRequestID, !.pc = "send"]
    <2>1. g.pc = "send" /\ g.op = net.op /\ g.msg = net.msg /\ g.rc = net.rc /\ g.cb = net.cb
          /\ g.i = net.i
        BY <1>1, Frames
    <2>2. Move("net", g) /\ net.pc = "format"
        BY <1>5 DEF FormatMessage, net
    <2> HIDE DEF g
    <2> QED
        BY <1>3, <2>1, <2>2
<1> QED
    BY <1>4, <1>5

\* A callback runs.
LEMMA CallbackActs ==
    ASSUME TypeInv, ServiceInv, net.pc = "call", Goto("net", "callback"),
           called' = called \cup {[cb |-> net.cb, op |-> net.op, req |-> net.msg.req]},
           UNCHANGED <<inbox, taken, sent>>
    PROVE  Good
<1> DEFINE req   == net.msg.req
           codes == AnswersTo(sent, req)
           acts  == ActsOn(called, req)
           c     == [cb |-> net.cb, op |-> net.op, req |-> req]
           g     == [net EXCEPT !.pc = "callback"]
<1>1. net \in Frame /\ net # Idle
    BY FramesTyped DEF Idle, TypeInv
<1>2. Working(net, codes, acts, Received)
    BY <1>1 DEF ServiceInv, NetInv, Serves
<1>3. net.op = net.msg.kind /\ net.cb \in CallbacksOf[net.op] /\ acts = {}
      /\ net.op \in Kinds /\ Progress(net, codes) /\ req \in Received
    BY <1>2 DEF Working
<1>4. codes \subseteq {202}
    <2>1. net.op \in Decides \cup Actions \cup {"response"}
        BY <1>3, CallbackKinds
    <2> QED
        BY <1>3, <2>1 DEF Progress, Decides, Actions
<1>5. g.pc = "callback" /\ g.op = net.op /\ g.msg = net.msg /\ g.rc = net.rc /\ g.cb = net.cb
      /\ g.i = net.i
    BY <1>1, Frames
<1>6. Move("net", g)
    BY DEF Goto, net
<1> HIDE DEF g
<1>7. net' = g /\ app' = app
    BY <1>6, MoveTyped DEF Threads, net, app, TypeInv
<1>8. InFlight' = InFlight /\ Received' = Received
    BY DEF InFlight, Received
<1>9. DeliveryInv'
    BY <1>7, <1>8 DEF ServiceInv, DeliveryInv, Names
<1>10. HistoryInv'
    <2>1. c.req = req
        OBVIOUS
    <2> HIDE DEF c
    <2>2. called' = called \cup {c}
        BY DEF c
    <2> QED
        BY <1>3, <1>7, <1>8, <2>1, <2>2 DEF ServiceInv, HistoryInv
<1>11. NetInv'
    <2>1. Progress(g, codes)
        BY <1>3, <1>4, <1>5 DEF Progress, Decides, Actions
    <2>2. \A calls : Working(g, codes, calls, Received)
        BY <1>2, <1>3, <1>5, <2>1 DEF Working
    <2> QED
        BY <1>5, <1>7, <1>8, <2>2 DEF NetInv, Serves
<1>12. [S!Next]_(S!vars)
    <2> DEFINE acted   == {<<d.req, d.cb>> : d \in called}
               answers == {<<a.req, a.rc>> : a \in {q \in sent : q.topic = "RESPONSE" /\ q.req # NoId}}
    <2>1. Key(net.msg) # Key(NoMessage) /\ Key(net.msg).kind = net.op
          /\ Key(net.msg).req = req
        BY <1>3, KindsApart DEF Key, NoMessage
    <2>2. <<req, 400>> \notin answers
        BY <1>4 DEF AnswersTo
    <2>3. \A b \in acted : b[1] # req
        BY <1>3 DEF ActsOn
    <2>4. acted' = acted \cup {<<req, net.cb>>}
        <3>1. c.req = req /\ c.cb = net.cb
            OBVIOUS
        <3> DEFINE r == req
                   b == net.cb
        <3>2. called' = called \cup {c} /\ c.req = r /\ c.cb = b
            BY <3>1
        <3> HIDE DEF c, r, b
        <3>3. {<<d.req, d.cb>> : d \in called'} = acted \cup {<<r, b>>}
            BY <3>2
        <3> QED
            BY <3>3 DEF r, b
    <2>5. Key(net'.msg) = Key(net.msg) /\ answers' = answers
        BY <1>5, <1>7
    <2> HIDE DEF acted, answers
    <2>6. S!Act(net.cb)
        BY <1>3, <2>1, <2>2, <2>3, <2>4, <2>5 DEF S!Act, S!Busy, S!REFUSED, acted, answers
    <2>7. S!Busy /\ net.cb \in CallbacksOf[Key(net.msg).kind]
        BY <2>6 DEF S!Act
    <2>8. \E callback \in CallbacksOf[Key(net.msg).kind] : S!Act(callback)
        BY <2>6, <2>7 DEF S!Act
    <2> QED
        BY <2>7, <2>8 DEF S!Next
<1> QED
    BY <1>9, <1>10, <1>11, <1>12 DEF Good, ServiceInv

LEMMA CallbackServes == TypeInv /\ ServiceInv /\ (InvokeCallback \/ CallbackReturns) => Good
<1> SUFFICES ASSUME TypeInv, ServiceInv, InvokeCallback \/ CallbackReturns PROVE Good
    OBVIOUS
<1>1. UNCHANGED <<inbox, taken, sent>>
    BY DEF InvokeCallback, CallbackReturns
<1>2. CASE Return("net") /\ UNCHANGED called
    BY <1>1, <1>2, Kept, NetReturns
<1>3. CASE UNCHANGED <<frame, called>>
    BY <1>1, <1>3, Rests
<1>4. CASE net.pc = "check" /\ Goto("net", "call") /\ UNCHANGED called
    <2> DEFINE g     == [net EXCEPT !.pc = "call"]
               codes == AnswersTo(sent, net.msg.req)
    <2>1. net \in Frame /\ net # Idle
        BY <1>4, FramesTyped DEF Idle, TypeInv
    <2>2. Working(net, codes, ActsOn(called, net.msg.req), Received)
        BY <2>1 DEF ServiceInv, NetInv, Serves
    <2>3. net.op \in Kinds /\ net.cb \in CallbacksOf[net.op] /\ Progress(net, codes)
        BY <1>4, <2>2 DEF Working
    <2>4. g.pc = "call" /\ g.op = net.op /\ g.msg = net.msg /\ g.rc = net.rc /\ g.cb = net.cb
          /\ g.i = net.i
        BY <2>1, Frames
    <2>5. Move("net", g)
        BY <1>4 DEF Goto, net
    <2> HIDE DEF g
    <2>6. Progress(g, codes)
        BY <1>4, <2>3, <2>4 DEF Progress, Decides, Actions
    <2> QED
        BY <1>1, <1>4, <2>3, <2>4, <2>5, <2>6, Kept, Proceeds
<1>5. CASE /\ net.pc = "call" /\ Goto("net", "callback")
           /\ called' = called \cup {[cb |-> net.cb, op |-> net.op, req |-> net.msg.req]}
    BY <1>1, <1>5, CallbackActs
<1> QED
    BY <1>2, <1>3, <1>4, <1>5 DEF InvokeCallback, CallbackReturns

\* A callback starts to report.
LEMMA ReportStarts ==
    ASSUME TypeInv, ServiceInv, NEW cbs, CanReport("net", cbs), NEW g, Move("net", g),
           g.op \in Reports, g.msg = net.msg, g.pc \in {"start", "format"},
           g.op = "changeState" => g.rc \in ActionCodes /\ cbs = {"reboot", "factory_reset"},
           UNCHANGED <<inbox, taken, called, sent>>
    PROVE  Good
<1> DEFINE codes == AnswersTo(sent, net.msg.req)
           acts  == ActsOn(called, net.msg.req)
<1>1. net.pc = "callback" /\ net.cb \in cbs
    BY DEF CanReport, net, app
<1>2. net \in Frame /\ net # Idle
    BY <1>1, FramesTyped DEF Idle, TypeInv
<1>3. Working(net, codes, acts, Received)
    BY <1>2 DEF ServiceInv, NetInv, Serves
<1>4. net.op = net.msg.kind /\ net.op \in Kinds /\ net.cb \in CallbacksOf[net.op]
      /\ Progress(net, codes) /\ net.msg.req \in Received
    BY <1>1, <1>3 DEF Working
<1>5. Progress(g, codes)
    <2>1. CASE g.op = "changeState"
        <3>1. net.op \in Actions
            BY <1>1, <1>4, <2>1, CallbackKinds
        <3>2. codes = {}
            BY <1>4, <3>1 DEF Progress, Decides, Actions
        <3> QED
            BY <1>4, <2>1, <3>1, <3>2 DEF Progress, Decides, Actions
    <2>2. CASE g.op # "changeState"
        BY <2>2 DEF Progress, Decides, Actions, Reports
    <2> QED
        BY <2>1, <2>2
<1>6. g.op # g.msg.kind
    BY <1>4, KindsApart
<1>7. Working(g, codes, acts, Received)
    BY <1>4, <1>5, <1>6 DEF Working
<1> QED
    BY <1>7, Kept, NetMoves DEF Serves

LEMMA StateServes == TypeInv /\ ServiceInv /\ changeState("net") => Good
<1> SUFFICES ASSUME TypeInv, ServiceInv, changeState("net") PROVE Good
    OBVIOUS
<1> DEFINE codes == AnswersTo(sent, net.msg.req)
<1>0. UNCHANGED <<inbox, taken, called>> /\ net \in Frame
    BY FramesTyped DEF changeState, TypeInv
<1>1. ASSUME NEW rc \in ActionCodes, CanReport("net", {"reboot", "factory_reset"}), UNCHANGED sent,
             Move("net", [net EXCEPT !.op = "changeState", !.pc = "format", !.rc = rc])
      PROVE  Good
    <2> DEFINE g == [net EXCEPT !.op = "changeState", !.pc = "format", !.rc = rc]
    <2>1. g.pc = "format" /\ g.op = "changeState" /\ g.msg = net.msg /\ g.rc = rc
        BY <1>0, Frames
    <2>2. Move("net", g)
        BY <1>1
    <2> HIDE DEF g
    <2>3. g.op \in Reports
        BY <2>1 DEF Reports
    <2> QED
        BY <1>0, <1>1, <2>1, <2>2, <2>3, ReportStarts
<1>2. CASE At("net", "changeState", "send") /\ publishActionResponse("net", "RESPONSE")
    <2>1. net.op = "changeState" /\ net.op # "none"
        BY <1>2 DEF At, net
    <2>2. Working(net, codes, ActsOn(called, net.msg.req), Received)
        BY <2>1, ServesMessage
    <2>3. codes = {} /\ net.msg.kind \in Actions /\ net.rc \in ActionCodes
        BY <2>1, <2>2 DEF Working, Progress, Decides, Actions
    <2>4. net.rc \in CodesOf[net.msg.kind]
        BY <2>3, CodeKinds, KindsApart
    <2>5. net.rc # 400
        BY <2>3, EnvironmentAssumption
    <2> QED
        BY <1>0, <1>2, <2>2, <2>3, <2>4, <2>5, NetAnswers DEF publishActionResponse, Return
<1> QED
    BY <1>1, <1>2 DEF changeState, net

\* What the two reports of a firmware state share.
LEMMA NotifyServes ==
    ASSUME TypeInv, ServiceInv, NEW op \in Reports \ {"changeState"}, NEW new,
           NotifyIfObserved("net", op, new), UNCHANGED <<inbox, taken, called>>
    PROVE  Good
<1>1. net.op = op /\ op # "none"
    BY DEF NotifyIfObserved, At, net, Reports
<1>2. /\ Working(net, AnswersTo(sent, net.msg.req), ActsOn(called, net.msg.req), Received)
      /\ net \in Frame
    BY <1>1, ServesMessage
<1>3. CASE Goto("net", "send") /\ UNCHANGED sent
    <2> DEFINE g == [net EXCEPT !.pc = "send"]
    <2>1. g.pc = "send" /\ g.op = net.op /\ g.msg = net.msg
        BY <1>2, Frames
    <2>2. Move("net", g)
        BY <1>3 DEF Goto, net
    <2> HIDE DEF g
    <2>3. \A codes : Progress(g, codes)
        BY <1>1, <2>1 DEF Progress, Decides, Actions, Reports
    <2>4. g.op # g.msg.kind
        BY <1>1, <1>2, <2>1, KindsApart DEF Working
    <2>5. Working(g, AnswersTo(sent, net.msg.req), ActsOn(called, net.msg.req), Received)
        BY <1>1, <1>2, <2>1, <2>3, <2>4 DEF Working
    <2> QED
        BY <1>3, <2>1, <2>2, <2>5, Kept, NetMoves DEF Serves
<1>4. CASE Return("net") /\ UNCHANGED sent
    BY <1>4, Kept, NetReturns
<1>5. CASE publishActionResponse("net", "NOTIFY")
    <2>1. net.msg.req \in Received
        BY <1>2 DEF Working
    <2> QED
        BY <1>5, <2>1, Unanswered, NetReturns DEF publishActionResponse
<1> QED
    BY <1>3, <1>4, <1>5 DEF NotifyIfObserved

LEMMA FirmwareServes ==
    /\ TypeInv /\ ServiceInv
    /\ changeFirmwareDownloadState("net") \/ changeFirmwareUpdateState("net")
    => Good
<1> SUFFICES ASSUME TypeInv, ServiceInv,
                    changeFirmwareDownloadState("net") \/ changeFirmwareUpdateState("net")
             PROVE  Good
    OBVIOUS
<1>0. UNCHANGED <<inbox, taken, called>> /\ net \in Frame
    BY FramesTyped DEF changeFirmwareDownloadState, changeFirmwareUpdateState, TypeInv
<1>1. ASSUME NEW cbs, CanReport("net", cbs), NEW g, Move("net", g), UNCHANGED sent, g.msg = net.msg,
             g.pc = "start", g.op \in Reports \ {"changeState"}
      PROVE  Good
    BY <1>0, <1>1, ReportStarts
<1>2. ASSUME NEW state, CanReport("net", {"download"}), UNCHANGED sent,
             Move("net", [net EXCEPT !.op = "changeFirmwareDownloadState", !.pc = "start",
                                     !.rc = state])
      PROVE  Good
    <2> DEFINE g == [net EXCEPT !.op = "changeFirmwareDownloadState", !.pc = "start", !.rc = state]
    <2>1. g.pc = "start" /\ g.op = "changeFirmwareDownloadState" /\ g.msg = net.msg
        BY <1>0, Frames
    <2>2. Move("net", g)
        BY <1>2
    <2> HIDE DEF g
    <2> QED
        BY <1>1, <1>2, <2>1, <2>2 DEF Reports
<1>3. CASE /\ CanReport("net", {"firmware_update"}) /\ UNCHANGED sent
           /\ Move("net", [net EXCEPT !.op = "changeFirmwareUpdateState", !.pc = "start"])
    <2> DEFINE g == [net EXCEPT !.op = "changeFirmwareUpdateState", !.pc = "start"]
    <2>1. g.pc = "start" /\ g.op = "changeFirmwareUpdateState" /\ g.msg = net.msg
        BY <1>0, Frames
    <2>2. Move("net", g)
        BY <1>3
    <2> HIDE DEF g
    <2> QED
        BY <1>1, <1>3, <2>1, <2>2 DEF Reports
<1>4. ASSUME NEW op \in Reports \ {"changeState"}, NEW new, NotifyIfObserved("net", op, new)
      PROVE  Good
    BY <1>0, <1>4, NotifyServes
<1>5. CASE changeFirmwareDownloadState("net")
    <2>1. CASE NotifyIfObserved("net", "changeFirmwareDownloadState",
                                [dmClient EXCEPT !.state = frame["net"].rc])
        BY <1>4, <2>1 DEF Reports
    <2> QED
        BY <1>2, <1>5, <2>1 DEF changeFirmwareDownloadState, net
<1>6. CASE changeFirmwareUpdateState("net")
    <2>1. CASE NotifyIfObserved("net", "changeFirmwareUpdateState", dmClient)
        BY <1>4, <2>1 DEF Reports
    <2> QED
        BY <1>3, <1>6, <2>1 DEF changeFirmwareUpdateState, net
<1> QED
    BY <1>5, <1>6

-----------------------------------------------------------------------------
(* The application thread.                                                 *)

\* A step of the application that publishes nothing, or p.
LEMMA AppStepServes ==
    ASSUME TypeInv, ServiceInv, NEW g, Move("app", g), g.msg = NoMessage, Names(g),
           UNCHANGED <<inbox, taken, called>>,
           \/ UNCHANGED sent
           \/ \E p : /\ sent' = sent \cup {p} /\ p.req = NoId
                     /\ p.topic \in {"MANAGE", "UNMANAGE"} => p.id["lo"] \in AppIds
    PROVE  Good
<1>1. app' = g /\ net' = net
    BY MoveTyped DEF Threads, net, app, TypeInv
<1> QED
    BY <1>1, AppMoves

LEMMA AppFacts ==
    ASSUME TypeInv, ServiceInv
    PROVE  app \in Frame /\ app.msg = NoMessage /\ NoMessage.req = NoId /\ Names(app)
           /\ Idle.msg = NoMessage /\ Names(Idle)
BY FramesTyped DEF TypeInv, ServiceInv, HistoryInv, DeliveryInv, NoMessage, Idle, Names

\* What the application publishes answers no request.
LEMMA AppPublishes ==
    ASSUME TypeInv, ServiceInv, NEW topic,
           topic \in {"MANAGE", "UNMANAGE"} => app.op \in {"manage", "unmanage"}
    PROVE  LET p == Publication("app", topic)
           IN  p.req = NoId /\ (p.topic \in {"MANAGE", "UNMANAGE"} => p.id["lo"] \in AppIds)
BY AppFacts DEF Publication, Names, app

\* The application goes on, or its call returns.
LEMMA AppGoes ==
    ASSUME TypeInv, ServiceInv, UNCHANGED <<inbox, taken, called>>,
           \/ UNCHANGED sent
           \/ \E p : /\ sent' = sent \cup {p} /\ p.req = NoId
                     /\ p.topic \in {"MANAGE", "UNMANAGE"} => p.id["lo"] \in AppIds
    PROVE  /\ Return("app") => Good
           /\ \A pc : pc # "format" /\ Goto("app", pc) => Good
<1>1. CASE Return("app")
    BY <1>1, AppFacts, AppStepServes DEF Return
<1>2. ASSUME NEW pc, pc # "format", Goto("app", pc) PROVE Good
    <2> DEFINE g == [app EXCEPT !.pc = pc]
    <2>1. g.pc = pc /\ g.op = app.op /\ g.msg = app.msg /\ g.id = app.id
        BY AppFacts DEF Frame
    <2>2. Move("app", g)
        BY <1>2 DEF Goto, app
    <2> HIDE DEF g
    <2> QED
        BY <1>2, <2>1, <2>2, AppFacts, AppStepServes DEF Names
<1> QED
    BY <1>1, <1>2

\* manage and unmanage start with an id of their own.
LEMMA BeginServes ==
    ASSUME TypeInv, ServiceInv, NEW op \in {"manage", "unmanage"}, BeginRequest(op),
           UNCHANGED <<inbox, taken, called, sent>>
    PROVE  Good
<1>1. PICK id \in AppIds :
        Move("app", [Idle EXCEPT !.op = op, !.pc = "copy", !.id = Whole(id), !.left = Halves])
    BY DEF BeginRequest
<1> DEFINE g == [Idle EXCEPT !.op = op, !.pc = "copy", !.id = Whole(id), !.left = Halves]
<1>2. g.op = op /\ g.pc = "copy" /\ g.msg = NoMessage /\ g.id = Whole(id)
    BY DEF Idle
<1>3. Move("app", g)
    BY <1>1
<1> HIDE DEF g
<1>4. g.id["lo"] = id
    BY <1>2 DEF Whole, Halves
<1> QED
    BY <1>1, <1>2, <1>3, <1>4, AppStepServes DEF Names

LEMMA ManageServes == TypeInv /\ ServiceInv /\ manage => Good
<1> SUFFICES ASSUME TypeInv, ServiceInv, manage PROVE Good
    OBVIOUS
<1>0. UNCHANGED <<inbox, taken, called>>
    BY DEF manage
<1>1. CASE BeginRequest("manage") /\ UNCHANGED sent
    BY <1>0, <1>1, BeginServes
<1>2. CASE Goto("app", "send") /\ UNCHANGED sent
    BY <1>0, <1>2, AppGoes
<1>3. CASE /\ At("app", "manage", "send") /\ Goto("app", "memset")
           /\ sent' = sent \cup {Publication("app", "MANAGE")}
    <2>1. app.op = "manage"
        BY <1>3 DEF At, app
    <2> DEFINE p == Publication("app", "MANAGE")
    <2>2. p.req = NoId /\ (p.topic \in {"MANAGE", "UNMANAGE"} => p.id["lo"] \in AppIds)
        BY <2>1, AppPublishes
    <2> HIDE DEF p
    <2>3. sent' = sent \cup {p}
        BY <1>3 DEF p
    <2> QED
        BY <1>0, <1>3, <2>2, <2>3, AppGoes
<1>4. CASE Return("app") /\ UNCHANGED sent
    BY <1>0, <1>4, AppGoes
<1>5. CASE Goto("app", "client") /\ UNCHANGED sent
    BY <1>0, <1>5, AppGoes
<1> QED
    BY <1>1, <1>2, <1>3, <1>4, <1>5 DEF manage

LEMMA UnmanageServes == TypeInv /\ ServiceInv /\ unmanage => Good
<1> SUFFICES ASSUME TypeInv, ServiceInv, unmanage PROVE Good
    OBVIOUS
<1>0. UNCHANGED <<inbox, taken, called>>
    BY DEF unmanage
<1>1. CASE BeginRequest("unmanage") /\ UNCHANGED sent
    BY <1>0, <1>1, BeginServes
<1>2. CASE /\ At("app", "unmanage", "copied") /\ Goto("app", "memset")
           /\ sent' = sent \cup {Publication("app", "UNMANAGE")}
    <2>1. app.op = "unmanage"
        BY <1>2 DEF At, app
    <2> DEFINE p == Publication("app", "UNMANAGE")
    <2>2. p.req = NoId /\ (p.topic \in {"MANAGE", "UNMANAGE"} => p.id["lo"] \in AppIds)
        BY <2>1, AppPublishes
    <2> HIDE DEF p
    <2>3. sent' = sent \cup {p}
        BY <1>2 DEF p
    <2> QED
        BY <1>0, <1>2, <2>2, <2>3, AppGoes
<1>3. CASE Return("app") /\ UNCHANGED sent
    BY <1>0, <1>3, AppGoes
<1>4. CASE Goto("app", "unmark") /\ UNCHANGED sent
    BY <1>0, <1>4, AppGoes
<1> QED
    BY <1>1, <1>2, <1>3, <1>4 DEF unmanage

\* What the application thread shares with the callback thread.
LEMMA AppReports == TypeInv /\ ServiceInv /\ Shared("app") => Good
<1> SUFFICES ASSUME TypeInv, ServiceInv, Shared("app") PROVE Good
    OBVIOUS
<1>0. UNCHANGED <<inbox, taken, called>>
    BY DEF Shared, CopyRequestID, FormatMessage, changeState, changeFirmwareDownloadState,
           changeFirmwareUpdateState
<1>1. ASSUME NEW g, Move("app", g), g.msg = app.msg, UNCHANGED sent,
             g.op \in Reports \/ (Names(g) <=> Names(app))
      PROVE  Good
    BY <1>0, <1>1, AppFacts, AppStepServes DEF Names, Reports
<1>2. CASE CopyRequestID("app")
    <2>1. PICK h \in app.left, pc \in {"copy", "copied"} :
            app.pc = "copy" /\ Move("app", [app EXCEPT !.left = @ \ {h}, !.pc = pc])
        BY <1>2 DEF CopyRequestID, app
    <2> DEFINE left == app.left \ {h}
               g    == [app EXCEPT !.left = left, !.pc = pc]
    <2>2. Move("app", g)
        BY <2>1
    <2> HIDE DEF left
    <2>3. g.pc = pc /\ g.op = app.op /\ g.msg = app.msg /\ g.id = app.id
        BY AppFacts DEF Frame
    <2>4. UNCHANGED sent
        BY <1>2 DEF CopyRequestID
    <2> HIDE DEF g
    <2> QED
        BY <1>1, <2>1, <2>2, <2>3, <2>4 DEF Names
<1>3. CASE FormatMessage("app")
    <2> DEFINE g == [app EXCEPT !.id = currentRequestID, !.pc = "send"]
    <2>1. g.op = app.op /\ g.msg = app.msg
        BY AppFacts DEF Frame
    <2>2. Move("app", g) /\ app.pc = "format" /\ UNCHANGED sent
        BY <1>3 DEF FormatMessage, app
    <2>3. app.op \notin {"manage", "unmanage"}
        BY <2>2, AppFacts DEF Names
    <2> HIDE DEF g
    <2> QED
        BY <1>1, <2>1, <2>2, <2>3 DEF Names
<1>4. ASSUME NEW op \in Reports, NEW pc, NEW rc, UNCHANGED sent,
             \/ Move("app", [app EXCEPT !.op = op, !.pc = pc, !.rc = rc])
             \/ Move("app", [app EXCEPT !.op = op, !.pc = pc])
      PROVE  Good
    <2> DEFINE f == [app EXCEPT !.op = op, !.pc = pc, !.rc = rc]
               g == [app EXCEPT !.op = op, !.pc = pc]
    <2>1. f.op = op /\ f.msg = app.msg /\ g.op = op /\ g.msg = app.msg
        BY AppFacts, Frames
    <2>2. Move("app", f) \/ Move("app", g)
        BY <1>4
    <2> HIDE DEF f, g
    <2>3. CASE Move("app", f)
        BY <1>1, <1>4, <2>1, <2>3
    <2>4. CASE Move("app", g)
        BY <1>1, <1>4, <2>1, <2>4
    <2> QED
        BY <2>2, <2>3, <2>4
<1>5. ASSUME NEW topic \in {"RESPONSE", "NOTIFY"}, publishActionResponse("app", topic)
      PROVE  Good
    <2> DEFINE p == Publication("app", topic)
    <2>1. p.req = NoId /\ p.topic = topic
        BY AppPublishes DEF Publication
    <2> HIDE DEF p
    <2>2. Return("app") /\ (UNCHANGED sent \/ sent' = sent \cup {p})
        BY <1>5 DEF publishActionResponse, PublishIgnoringRc, p
    <2> QED
        BY <1>0, <2>1, <2>2, AppGoes
<1>6. ASSUME NEW op, NEW new, NotifyIfObserved("app", op, new) PROVE Good
    <2>1. CASE Goto("app", "send") /\ UNCHANGED sent
        BY <1>0, <2>1, AppGoes
    <2>2. CASE Return("app") /\ UNCHANGED sent
        BY <1>0, <2>2, AppGoes
    <2>3. CASE publishActionResponse("app", "NOTIFY")
        BY <1>5, <2>3
    <2> QED
        BY <1>6, <2>1, <2>2, <2>3 DEF NotifyIfObserved
<1>7. CASE changeState("app")
    <2>1. CASE publishActionResponse("app", "RESPONSE")
        BY <1>5, <2>1
    <2> QED
        BY <1>4, <1>7, <2>1 DEF changeState, app, Reports
<1>8. CASE changeFirmwareDownloadState("app")
    <2>1. CASE NotifyIfObserved("app", "changeFirmwareDownloadState",
                                [dmClient EXCEPT !.state = frame["app"].rc])
        BY <1>6, <2>1
    <2> QED
        BY <1>4, <1>8, <2>1 DEF changeFirmwareDownloadState, app, Reports
<1>9. CASE changeFirmwareUpdateState("app")
    <2>1. CASE NotifyIfObserved("app", "changeFirmwareUpdateState", dmClient)
        BY <1>6, <2>1
    <2> QED
        BY <1>4, <1>9, <2>1 DEF changeFirmwareUpdateState, app, Reports
<1> QED
    BY <1>2, <1>3, <1>7, <1>8, <1>9 DEF Shared

-----------------------------------------------------------------------------
(* The network.                                                            *)

\* A message is received.
LEMMA ArrivalServes == TypeInv /\ ServiceInv /\ messageArrived_dm => Good
<1> SUFFICES ASSUME TypeInv, ServiceInv, messageArrived_dm PROVE Good
    OBVIOUS
<1> DEFINE m == Head(inbox)
<1>0. /\ UNCHANGED <<called, sent>> /\ taken' = taken \cup {m} /\ inbox' = Tail(inbox)
      /\ net.op = "none" /\ inbox # <<>>
    BY DEF messageArrived_dm
<1>1. m \in InFlight /\ m.req \notin Received /\ inbox \in Seq(Message)
    BY <1>0, NextIsFresh DEF ServiceInv, TypeInv, TypeOK
<1>2. m.req # NoId /\ m.kind \in RequestKinds \cup {"response"} /\ m \in Message
      /\ Key(m) \in {Key(r) : r \in Requests} \cup {Key(Response(id)) : id \in AppIds}
    BY <1>0, <1>1, MessageFacts DEF ServiceInv, TypeInv, TypeOK
<1>3. net = Idle
    BY <1>0, KindsApart DEF ServiceInv, NetInv, Serves, Working, Reports
<1>4. PICK g : /\ Move("net", g)
               /\ \/ g = Idle
                  \/ /\ g.op = m.kind /\ g.pc = "start" /\ Key(g.msg) = Key(m)
                     /\ m.kind # "other"
    <2>1. PICK passing \in ArgPassing :
            Move("net", IF m.kind = "other" THEN Idle
                        ELSE [Idle EXCEPT !.op = m.kind,
                                !.msg = IF passing = "matched" THEN m
                                        ELSE [m EXCEPT !.payload = "shifted"]])
        BY DEF messageArrived_dm
    <2> DEFINE n == IF passing = "matched" THEN m ELSE [m EXCEPT !.payload = "shifted"]
               f == [Idle EXCEPT !.op = m.kind, !.msg = n]
    <2>2. Key(n) = Key(m)
        BY <1>2 DEF Key, Message
    <2>3. CASE m.kind = "other"
        BY <2>1, <2>3
    <2>4. CASE m.kind # "other"
        <3>1. Move("net", f)
            BY <2>1, <2>4
        <3> HIDE DEF n
        <3>2. f.op = m.kind /\ f.pc = "start" /\ f.msg = n
            BY DEF Idle
        <3> HIDE DEF f
        <3> QED
            BY <2>2, <2>4, <3>1, <3>2
    <2> QED
        BY <2>3, <2>4
<1>5. net' = g /\ app' = app
    BY <1>4, MoveTyped DEF Threads, net, app, TypeInv
<1>6. Received' = Received \cup {m.req}
    <2> DEFINE n == m
    <2>1. taken' = taken \cup {n}
        BY <1>0
    <2> HIDE DEF n
    <2>2. {a.req : a \in taken'} = {a.req : a \in taken} \cup {n.req}
        BY <2>1
    <2> QED
        BY <2>2 DEF Received, n
<1>7. DeliveryInv'
    <2>1. Len(inbox') = Len(inbox) - 1 /\ \A i \in 1 .. Len(inbox') : inbox'[i] = inbox[i + 1]
        BY <1>0, <1>1
    <2>2. InFlight' \subseteq InFlight /\ m \notin InFlight'
        <3>1. ASSUME NEW i \in 1 .. Len(inbox') PROVE inbox'[i] \in InFlight /\ inbox'[i] # m
            <4>1. i + 1 \in 1 .. Len(inbox) /\ 1 \in 1 .. Len(inbox) /\ i + 1 # 1 /\ m = inbox[1]
                BY <1>0, <1>1, <2>1
            <4> QED
                BY <2>1, <4>1 DEF ServiceInv, DeliveryInv, InFlight
        <3> QED
            BY <3>1 DEF InFlight
    <2>3. \A i, j \in 1 .. Len(inbox') : inbox'[i] = inbox'[j] => i = j
        <3>1. ASSUME NEW i \in 1 .. Len(inbox'), NEW j \in 1 .. Len(inbox'), inbox'[i] = inbox'[j]
              PROVE  i = j
            <4>1. i + 1 \in 1 .. Len(inbox) /\ j + 1 \in 1 .. Len(inbox)
                BY <1>0, <1>1, <2>1
            <4>2. i + 1 = j + 1
                BY <2>1, <3>1, <4>1 DEF ServiceInv, DeliveryInv
            <4> QED
                BY <4>2
        <3> QED
            BY <3>1
    <2>4. taken' \cup InFlight' \subseteq taken \cup InFlight /\ InFlight' \cap taken' = {}
        BY <1>0, <1>1, <2>2 DEF ServiceInv, DeliveryInv
    <2> QED
        BY <1>0, <1>5, <2>3, <2>4 DEF ServiceInv, DeliveryInv, Names
<1>8. HistoryInv'
    BY <1>0, <1>5, <1>6 DEF ServiceInv, HistoryInv
<1>9. NetInv'
    <2>1. CASE g = Idle
        BY <1>5, <2>1 DEF NetInv, Serves
    <2>2. CASE g # Idle
        <3>1. AnswersTo(sent, m.req) = {} /\ ActsOn(called, m.req) = {}
            BY <1>1, <1>2 DEF ServiceInv, HistoryInv, AnswersTo, ActsOn
        <3>2. g.op = m.kind /\ g.pc = "start" /\ g.msg.kind = m.kind /\ g.msg.req = m.req
            BY <1>4, <2>2 DEF Key
        <3>3. m.kind \in Kinds /\ m.kind \notin Reports
            BY <1>2, <1>4, <2>2, KindsApart DEF Kinds
        <3>4. Progress(g, {})
            BY <3>2, <3>3 DEF Progress, Decides, Actions, Reports
        <3>5. Working(g, {}, {}, Received')
            BY <1>6, <3>2, <3>3, <3>4 DEF Working
        <3> QED
            BY <1>0, <1>5, <3>1, <3>2, <3>5 DEF NetInv, Serves
    <2> QED
        BY <2>1, <2>2
<1>10. S!Receive(Key(m))
    <2>1. Key(net.msg) = Key(NoMessage) /\ Key(net'.msg) \in {Key(m), Key(NoMessage)}
        BY <1>3, <1>4, <1>5 DEF Idle
    <2>2. Key(m) \notin {Key(n) : n \in taken}
        <3>1. \A n \in taken : n.req # m.req
            BY <1>1 DEF Received
        <3>2. \A n : Key(n) = Key(m) => n.req = m.req
            BY DEF Key
        <3> HIDE DEF m
        <3> QED
            BY <3>1, <3>2
    <2>3. {Key(n) : n \in taken}' = {Key(n) : n \in taken} \cup {Key(m)}
        <3> DEFINE n == m
        <3>1. taken' = taken \cup {n}
            BY <1>0
        <3> HIDE DEF n
        <3>2. {Key(a) : a \in taken'} = {Key(a) : a \in taken} \cup {Key(n)}
            BY <3>1
        <3> QED
            BY <3>2 DEF n
    <2> QED
        BY <1>0, <2>1, <2>2, <2>3 DEF S!Receive
<1>11. S!Next
    <2>1. \E k \in {Key(r) : r \in Requests} \cup {Key(Response(id)) : id \in AppIds} : S!Receive(k)
        BY <1>2, <1>10 DEF S!Receive
    <2> QED
        BY <2>1 DEF S!Next
<1> QED
    BY <1>7, <1>8, <1>9, <1>11 DEF Good, ServiceInv

LEMMA SendServes == TypeInv /\ ServiceInv /\ PlatformSends => Good
<1> SUFFICES ASSUME TypeInv, ServiceInv, PlatformSends PROVE Good
    OBVIOUS
<1>0. UNCHANGED <<frame, taken, called, sent>> /\ inbox \in Seq(Message)
    BY DEF PlatformSends, TypeInv, TypeOK
<1>1. PICK m : /\ m \in Requests \/ \E id \in AppIds : m = Response(id)
               /\ m \notin taken \cup InFlight /\ inbox' = Append(inbox, m)
    BY DEF PlatformSends, ServiceInv, DeliveryInv
<1>2. m \in Requests \/ (m.req \in AppIds /\ m = Response(m.req))
    BY <1>1 DEF Response, NoMessage
<1>3. Len(inbox') = Len(inbox) + 1 /\ inbox'[Len(inbox) + 1] = m
      /\ \A i \in 1 .. Len(inbox) : inbox'[i] = inbox[i]
    BY <1>0, <1>1
<1>4. InFlight' = InFlight \cup {m}
    BY <1>0, <1>3 DEF InFlight
<1>5. \A i, j \in 1 .. Len(inbox') : inbox'[i] = inbox'[j] => i = j
    <2>1. \A i \in 1 .. Len(inbox) : inbox[i] # m
        BY <1>1 DEF InFlight
    <2> QED
        BY <1>0, <1>3, <2>1 DEF ServiceInv, DeliveryInv
<1>6. DeliveryInv'
    <2>1. app' = app
        BY <1>0 DEF app
    <2> QED
        BY <1>0, <1>1, <1>2, <1>4, <1>5, <2>1 DEF ServiceInv, DeliveryInv, Names
<1> QED
    BY <1>0, <1>6, NetworkMoves

LEMMA LossServes == TypeInv /\ ServiceInv /\ connlost => Good
<1> SUFFICES ASSUME TypeInv, ServiceInv, connlost PROVE Good
    OBVIOUS
<1>0. UNCHANGED <<frame, taken, called, sent>> /\ inbox \in Seq(Message)
    BY DEF connlost, TypeInv, TypeOK
<1>1. PICK n \in 0 .. Len(inbox) : inbox' = SubSeq(inbox, 1, n)
    BY DEF connlost
<1>2. Len(inbox') = n /\ \A i \in 1 .. n : inbox'[i] = inbox[i] /\ i \in 1 .. Len(inbox)
    BY <1>0, <1>1
<1>3. InFlight' \subseteq InFlight
    BY <1>2 DEF InFlight
<1>4. \A i, j \in 1 .. Len(inbox') : inbox'[i] = inbox'[j] => i = j
    BY <1>2 DEF ServiceInv, DeliveryInv
<1>5. DeliveryInv'
    <2>1. app' = app
        BY <1>0 DEF app
    <2> QED
        BY <1>0, <1>3, <1>4, <2>1 DEF ServiceInv, DeliveryInv, Names
<1> QED
    BY <1>0, <1>5, NetworkMoves

-----------------------------------------------------------------------------
(* The theorem.                                                            *)

LEMMA InitServes == Init => ServiceInv /\ S!Init
<1> SUFFICES ASSUME Init PROVE ServiceInv /\ S!Init
    OBVIOUS
<1>1. net = Idle /\ app = Idle /\ Idle.msg = NoMessage /\ Idle.op = "none"
      /\ InFlight = {} /\ taken = {} /\ called = {} /\ sent = {} /\ inbox = <<>>
    BY DEF Init, net, app, Threads, Idle, InFlight
<1>2. DeliveryInv
    BY <1>1 DEF DeliveryInv, Names
<1>3. HistoryInv /\ NetInv
    BY <1>1 DEF HistoryInv, NetInv, Serves
<1>4. S!Init
    BY <1>1 DEF S!Init
<1> QED
    BY <1>2, <1>3, <1>4 DEF ServiceInv

LEMMA NextServes == TypeInv /\ ServiceInv /\ [Next]_vars => Good
<1> SUFFICES ASSUME TypeInv, ServiceInv, [Next]_vars PROVE Good
    OBVIOUS
<1>1. CASE UNCHANGED vars
    BY <1>1, Rests DEF vars
<1>2. CASE NetStep
    BY <1>2, ArrivalServes, DownloadServes, FirmwareUpdateServes, ObserveServes, CancelServes,
       UpdateServes, ResponseServes, ActionServes, CallbackServes, FormatServes, StateServes,
       FirmwareServes DEF NetStep, Shared
<1>3. CASE AppStep
    <2>1. ASSUME NEW h, Register(h) PROVE Good
        BY <2>1, Rests DEF Register
    <2>2. CASE publishEvent
        BY <2>2, Rests DEF publishEvent
    <2> QED
        BY <1>3, <2>1, <2>2, ManageServes, UnmanageServes, AppReports
        DEF AppStep, setDMCommandHandler, setRebootHandler, setFactoryResetHandler,
            setFirmwareDownloadHandler, setFirmwareUpdateHandler
<1>4. CASE Environment
    BY <1>4, SendServes, LossServes DEF Environment
<1> QED
    BY <1>1, <1>2, <1>3, <1>4 DEF Next

\* Device management implements its abstraction: whatever the application
\* registers, reports and manages from its own thread, whatever the network
\* loses and however the ids in the shared buffer are mixed, each message is
\* served once and by itself, gets one code and runs one callback of its kind,
\* none after a refusal.
THEOREM ServiceImplemented == Spec => Service
<1>1. Init => TypeInv /\ ServiceInv
    BY InitTyped, InitServes
<1>2. TypeInv /\ ServiceInv /\ [Next]_vars => TypeInv' /\ ServiceInv'
    BY NextTyped, NextServes DEF Good
<1>3. TypeInv /\ ServiceInv /\ [Next]_vars => [S!Next]_(S!vars)
    BY NextServes DEF Good
<1>4. Init => S!Init
    BY InitServes
<1> QED
    BY <1>1, <1>2, <1>3, <1>4, PTL DEF Spec, Service, S!Spec
=============================================================================
