----------------------------- MODULE SamplesProofs -----------------------------
(***************************************************************************)
(* Proofs about Samples: the four programs of src/samples with their       *)
(* signals, their callback thread and the network, for any configuration   *)
(* of the clients and any bounds.                                          *)
(***************************************************************************)
EXTENDS Samples, ConnectionProofs

USE DEF Configured, Up, At

-----------------------------------------------------------------------------
(* The invariant.                                                          *)

\* Main has taken the step s.
Done(s) == \E n \in 1 .. step - 1 : Main[program][n] = s

\* The callback is there before the first filter: whatever is subscribed, and
\* whatever the thread is at, finds it.
CallbackInv ==
    /\ Done("setCommandHandler") => cb # "none"
    /\ subs[self] # {} \/ incoming # <<>> => cb # "none"
    /\ ~dropped

\* What arrives belongs to a filter of the program, and what is delivered is a
\* command or a notification.
MessageInv ==
    /\ subs[self] \subseteq {Filter, "management"}
    /\ incoming # <<>> =>
         \/ incoming \in {<<Filter, "test">>, <<Filter, "call">>}
         \/ incoming = <<"management", "test">>
    /\ delivered # <<>> =>
         \E callback \in {"device", "gateway"} :
            delivered = <<Filter, callback, Arguments(Topic(Filter))>>

\* The calls that main is ever in, and where they can be.
Attempts  == {"retrieve", "extract", "create", "connect"}
Publishes == {"publishEvent", "publishDeviceEvent", "publishGatewayEvent"}
CallInv ==
    /\ \/ call[self] = NoCall
       \/ call[self].op = "connectiotf" /\ call[self].pc \in Attempts
       \/ call[self].op \in Publishes /\ call[self].pc \in Attempts \cup {"again"}
       \/ call[self].op = "disconnect" /\ call[self].pc \in {"disconnect", "free"}
    /\ ~Done("connect") => call[self] = NoCall /\ handle[self] = "none"
    /\ call[self].op = "connectiotf" => ~Up(self)
    /\ At(self, "extract") => Configured(self).se /\ ~a71chInited

\* A session without a handle exists only while a publish reconnects, under the
\* id with which it will reconnect.
OrphanInv ==
    orphan[self] # NoId =>
        /\ orphan[self] = cfg[self].id
        /\ call[self].op \in Publishes /\ call[self].pc \in Attempts
        /\ Configured(self).se => a71chInited

\* Once main has called disconnect, the memory goes with the end of the call.
EndInv ==
    /\ Done("disconnect") => cfg[self].mem = "freed" \/ call[self].op = "disconnect"
    /\ status = "exit0" => AtStep("return")

SampleInv ==
    /\ SampleTypeOK /\ HostInv /\ SessionInv
    /\ CallbackInv /\ MessageInv /\ CallInv /\ OrphanInv /\ EndInv

-----------------------------------------------------------------------------
(* The order of main's steps.                                              *)

\* In each program: return is the last step; the callback is set before the
\* first subscription; main connects once, before it publishes; and nothing
\* but the return follows the disconnect.
LEMMA OrderOfCalls ==
    ASSUME NEW p \in Programs, NEW n \in DOMAIN Main[p]
    PROVE  /\ n \in Nat \ {0}
           /\ Main[p][n] # "return" => n + 1 \in DOMAIN Main[p]
           /\ Main[p][n] \in {"subscribe", "manage"} =>
                \E m \in 1 .. n - 1 : Main[p][m] = "setCommandHandler"
           /\ Main[p][n] = "connect" => ~\E m \in 1 .. n - 1 : Main[p][m] = "connect"
           /\ Main[p][n] \in {"loop", "disconnect"} =>
                \E m \in 1 .. n - 1 : Main[p][m] = "connect"
           /\ (\E m \in 1 .. n - 1 : Main[p][m] = "disconnect") <=> Main[p][n] = "return"
<1>1. CASE p = "helloWorld"
    <2>1. Main[p] = helloWorld
        BY <1>1 DEF Main
    <2> QED
        BY <2>1 DEF helloWorld
<1>2. CASE p = "deviceSample"
    <2>1. Main[p] = deviceSample
        BY <1>2 DEF Main
    <2> QED
        BY <2>1 DEF deviceSample
<1>3. CASE p = "managedDeviceSample"
    <2>1. Main[p] = managedDeviceSample
        BY <1>3 DEF Main
    <2> QED
        BY <2>1 DEF managedDeviceSample
<1>4. CASE p = "gatewaySample"
    <2>1. Main[p] = gatewaySample
        BY <1>4 DEF Main
    <2> QED
        BY <2>1 DEF gatewaySample
<1> QED
    BY <1>1, <1>2, <1>3, <1>4 DEF Programs

\* Each program has a first step.
LEMMA FirstStep == \A p \in Programs : 1 \in DOMAIN Main[p]
BY DEF Programs, Main, helloWorld, deviceSample, managedDeviceSample, gatewaySample

\* What main has done grows by the step that it takes.
LEMMA Continues ==
    ASSUME program \in Programs, step \in DOMAIN Main[program], UNCHANGED program,
           NEW s, Main[program][step] = s, step' = step + 1
    PROVE  /\ \A t : Done(t)' <=> Done(t) \/ t = s
           /\ s # "return" => step' \in DOMAIN Main[program']
<1>1. step \in Nat \ {0}
    BY OrderOfCalls
<1>2. 1 .. step' - 1 = (1 .. step - 1) \cup {step}
    BY <1>1
<1>3. \A t : Done(t)' <=> Done(t) \/ t = s
    BY <1>2 DEF Done
<1> QED
    BY <1>3, OrderOfCalls

LEMMA Stays == UNCHANGED <<program, step>> => \A t : Done(t)' <=> Done(t)
BY DEF Done

-----------------------------------------------------------------------------
(* What a step of main does.                                               *)

\* A step s of main, and what it may change: the callback, the subscriptions,
\* the configuration, and the call in progress, each at its own step.
Takes(s) ==
    /\ Main[program][step] = s /\ call[self] = NoCall
    /\ UNCHANGED <<argument, thread, interrupt, handle, orphan, a71chInited, answered, platform>>
    /\ \/ step' = step + 1 /\ s # "return" /\ UNCHANGED status
       \/ step' = step /\ status' = IF s = "return" THEN "exit0" ELSE "exit1"
       \/ s = "loop" /\ UNCHANGED <<step, status>>
    /\ IF s = "setCommandHandler" THEN cb' \in {"device", "gateway"} ELSE UNCHANGED cb
    /\ \/ UNCHANGED subs
       \/ s \in {"subscribe", "manage"} /\ subs'[self] \subseteq subs[self] \cup {Filter, "management"}
    /\ UNCHANGED cfg \/ s = "initialize"
    /\ \/ s = "connect" /\ step' = step + 1 /\ Enter(self, "connectiotf", "retrieve")
       \/ s = "loop" /\ \E op \in Publishes : Enter(self, op, "retrieve")
       \/ s = "disconnect" /\ Enter(self, "disconnect", "disconnect")
       \/ s \notin {"connect", "disconnect"} /\ UNCHANGED call

Quiet ==
    \/ argc \/ signals \/ getopts \/ checkPath \/ Connected \/ setCommandHandler
    \/ setRebootHandler \/ unmanage \/ ReturnFromMain

\* Most steps do not call the library, or only store in it.
LEMMA QuietTakes ==
    ASSUME Quiet
    PROVE  (\E s : Takes(s)) /\ UNCHANGED library
<1>1. UNCHANGED library => UNCHANGED <<handle, orphan, a71chInited, answered, platform, subs, cfg, call>>
    BY DEF library, memory, session
<1>2. CASE argc
    BY <1>1, <1>2 DEF argc, Takes, AtStep, Continue, Exit, argument, thread
<1>3. CASE signals
    BY <1>1, <1>3 DEF signals, Takes, AtStep, Continue, Exit, argument, thread
<1>4. CASE getopts
    BY <1>1, <1>4 DEF getopts, Takes, AtStep, Continue, Exit, argument, thread
<1>5. CASE checkPath
    BY <1>1, <1>5 DEF checkPath, Takes, AtStep, Continue, Exit, argument, thread
<1>6. CASE Connected
    BY <1>1, <1>6 DEF Connected, Takes, AtStep, Continue, Exit, argument, thread
<1>7. CASE setCommandHandler
    BY <1>1, <1>7 DEF setCommandHandler, Takes, AtStep, Continue, argument, thread
<1>8. CASE setRebootHandler
    BY <1>1, <1>8 DEF setRebootHandler, Takes, AtStep, Continue, argument, thread
<1>9. CASE unmanage
    BY <1>1, <1>9 DEF unmanage, Takes, AtStep, Continue, argument, thread
<1>10. CASE ReturnFromMain
    BY <1>1, <1>10 DEF ReturnFromMain, Takes, AtStep, Exit, argument, thread
<1> QED
    BY <1>2, <1>3, <1>4, <1>5, <1>6, <1>7, <1>8, <1>9, <1>10 DEF Quiet

\* initialize writes the configuration, if it succeeds.
LEMMA InitializeTakes == Initialize => Takes("initialize")
<1> SUFFICES ASSUME Initialize PROVE Takes("initialize")
    OBVIOUS
<1>1. CASE UNCHANGED library
    BY <1>1 DEF Initialize, Takes, AtStep, Continue, Exit, argument, thread, library, memory, session
<1>2. CASE initialize(self) /\ Continue
    BY <1>2 DEF Initialize, Takes, AtStep, Continue, argument, thread, initialize, session
<1> QED
    BY <1>1, <1>2 DEF Initialize

\* The steps that start a call of the library.
LEMMA CallTakes ==
    /\ Connect => Takes("connect")
    /\ loop => Takes("loop")
    /\ Disconnect => Takes("disconnect")
<1>1. ASSUME Connect PROVE Takes("connect")
    BY <1>1 DEF Connect, Takes, AtStep, Continue, argument, thread, connectiotf, memory, session
<1>2. ASSUME loop PROVE Takes("loop")
    <2>1. CASE Continue /\ UNCHANGED library
        BY <1>2, <2>1 DEF loop, Takes, AtStep, Continue, argument, thread, library, memory, session
    <2>2. CASE publish /\ UNCHANGED <<step, status>>
        <3>1. /\ UNCHANGED call \/ \E op \in Publishes : Enter(self, op, "retrieve")
              /\ UNCHANGED <<memory, session, lives, platform, fault>>
            BY <2>2 DEF publish, publishEvent, publishGatewayEvent, publishDeviceEvent, Publish,
                        Publishes
        <3> QED
            BY <1>2, <2>2, <3>1 DEF loop, Takes, AtStep, argument, thread, memory, session
    <2> QED
        BY <1>2, <2>1, <2>2 DEF loop
<1>3. ASSUME Disconnect PROVE Takes("disconnect")
    BY <1>3 DEF Disconnect, Takes, AtStep, Continue, argument, thread, disconnect, memory, session
<1> QED
    BY <1>1, <1>2, <1>3

\* The two steps that subscribe.
LEMMA SubscribeTakes ==
    ASSUME TypeOK, self \in Clients
    PROVE  /\ subscribe => Takes("subscribe")
           /\ manage => Takes("manage")
<1>1. ASSUME subscribe PROVE Takes("subscribe")
    <2>1. UNCHANGED <<cfg, a71chInited, answered, handle, orphan, call, platform>>
        BY <1>1 DEF subscribe, subscribeCommand, SubscribeGateway, memory
    <2> QED
        BY <1>1, <2>1 DEF subscribe, Takes, AtStep, Continue, argument, thread
<1>2. ASSUME manage PROVE Takes("manage")
    <2>1. subs'[self] \subseteq subs[self] \cup {"management"}
        BY <1>2 DEF manage, subscribeTopic, TypeOK
    <2> QED
        BY <1>2, <2>1 DEF manage, Takes, AtStep, Continue, argument, thread, memory
<1> QED
    BY <1>1, <1>2

\* Every step of main is one of these.
LEMMA MainTakes ==
    ASSUME TypeOK, self \in Clients, MainStep
    PROVE  \E s : Takes(s)
BY QuietTakes, InitializeTakes, CallTakes, SubscribeTakes DEF MainStep, Quiet

-----------------------------------------------------------------------------
(* Main keeps the invariant.                                               *)

\* The steps that main has done, after one more.
LEMMA TakesDone ==
    ASSUME SampleTypeOK, NEW s, Takes(s)
    PROVE  /\ \A t : Done(t)' => Done(t) \/ t = s
           /\ \A t : Done(t) => Done(t)'
           /\ program' = program /\ self' = self /\ argv' = argv /\ Filter' = Filter
           /\ s # "return" => step' \in DOMAIN Main[program']
           /\ step' = step + 1 => Done(s)'
           /\ step' = step => \A t : Done(t)' <=> Done(t)
<1>1. program' = program /\ self' = self /\ argv' = argv
    BY DEF Takes, argument
<1>2. program \in Programs /\ step \in DOMAIN Main[program] /\ Main[program][step] = s
    BY DEF SampleTypeOK, Takes
<1>3. step + 1 # step
    BY <1>2, OrderOfCalls
<1>4. CASE step' = step + 1
    BY <1>1, <1>2, <1>4, <1>3, Continues DEF Filter, Gateway
<1>5. CASE step' = step
    BY <1>1, <1>2, <1>5, <1>3, Stays DEF Filter, Gateway
<1> QED
    BY <1>4, <1>5 DEF Takes

LEMMA MainKeepsCallback ==
    ASSUME SampleTypeOK, CallbackInv, NEW s, Takes(s)
    PROVE  CallbackInv'
<1>1. s \in {"subscribe", "manage"} => cb # "none"
    BY OrderOfCalls DEF Takes, SampleTypeOK, CallbackInv, Done
<1>2. incoming' = incoming /\ dropped' = dropped /\ self' = self
    BY DEF Takes, thread, argument
<1>3. cb # "none" => cb' # "none"
    BY DEF Takes
<1>4. Done("setCommandHandler")' => cb' # "none"
    BY <1>3, TakesDone DEF Takes, CallbackInv
<1>5. subs'[self] # {} => cb' # "none"
    BY <1>1, <1>3 DEF Takes, CallbackInv
<1> QED
    BY <1>2, <1>3, <1>4, <1>5 DEF CallbackInv

LEMMA MainKeepsMessages ==
    ASSUME SampleTypeOK, MessageInv, NEW s, Takes(s)
    PROVE  MessageInv'
<1>1. /\ incoming' = incoming /\ delivered' = delivered /\ self' = self /\ Filter' = Filter
      /\ subs'[self] \subseteq {Filter, "management"}
    BY TakesDone DEF Takes, thread, MessageInv
<1>2. ASSUME NEW callback PROVE <<Filter, callback, Arguments(Topic(Filter))>>'
                              = <<Filter, callback, Arguments(Topic(Filter))>>
    BY <1>1
<1>3. delivered' # <<>> =>
        \E callback \in {"device", "gateway"} :
            delivered' = <<Filter, callback, Arguments(Topic(Filter))>>'
    BY <1>1, <1>2 DEF MessageInv
<1> QED
    BY <1>1, <1>3 DEF MessageInv

\* A call starts where no call is in progress; connectiotf comes first.
LEMMA MainKeepsCalls ==
    ASSUME SampleTypeOK, CallInv, OrphanInv, EndInv, status = "running", NEW s, Takes(s)
    PROVE  CallInv' /\ OrphanInv' /\ EndInv'
<1>1. /\ call[self] = NoCall /\ self' = self /\ self \in Clients
      /\ UNCHANGED <<handle, orphan, a71chInited>>
    BY DEF Takes, SampleTypeOK, argument
<1>2. orphan[self] = NoId
    BY <1>1 DEF OrphanInv, NoCall, Publishes
<1>3. \/ s = "connect" /\ call'[self] = [op |-> "connectiotf", pc |-> "retrieve"]
      \/ s = "loop" /\ \E op \in Publishes : call'[self] = [op |-> op, pc |-> "retrieve"]
      \/ s = "disconnect" /\ call'[self] = [op |-> "disconnect", pc |-> "disconnect"]
      \/ s \notin {"connect", "disconnect"} /\ call'[self] = NoCall
    BY <1>1 DEF Takes, Enter, SampleTypeOK, TypeOK
<1>4. /\ s = "connect" => ~Done("connect")
      /\ s \in {"loop", "disconnect"} => Done("connect")
      /\ Done("disconnect") <=> s = "return"
    BY OrderOfCalls DEF Takes, SampleTypeOK, Done
<1>5. CallInv'
    <2>1. ~Done("connect")' => call'[self] = NoCall /\ handle'[self] = "none"
        BY <1>1, <1>3, <1>4, TakesDone DEF CallInv, Takes
    <2>2. call'[self].op = "connectiotf" => handle'[self] # "up"
        BY <1>1, <1>3, <1>4 DEF CallInv, Publishes, NoCall
    <2> QED
        BY <1>1, <1>3, <2>1, <2>2 DEF CallInv, Publishes, Attempts, NoCall
<1>6. EndInv'
    <2>1. Done("disconnect")' => cfg'[self].mem = "freed" \/ call'[self].op = "disconnect"
        <3>1. CASE s = "disconnect"
            BY <1>3, <3>1
        <3>2. CASE s = "return"
            BY <1>1, <1>4, <3>2 DEF EndInv, NoCall, Takes
        <3>3. CASE s \notin {"disconnect", "return"}
            BY <1>4, <3>3, TakesDone
        <3> QED
            BY <3>1, <3>2, <3>3
    <2>2. status' = "exit0" => AtStep("return")'
        <3> SUFFICES ASSUME status' = "exit0" PROVE AtStep("return")'
            OBVIOUS
        <3>1. s = "return" /\ step' = step /\ program' = program
            BY DEF Takes, argument
        <3> QED
            BY <1>1, <1>3, <3>1 DEF Takes, AtStep
    <2> QED
        BY <1>1, <2>1, <2>2 DEF EndInv
<1> QED
    BY <1>1, <1>2, <1>5, <1>6 DEF OrphanInv

-----------------------------------------------------------------------------
(* The library and the network keep the invariant.                         *)

\* Where the call in progress is, one step later.
LEMMA CallMoves ==
    ASSUME TypeOK, self \in Clients
    PROVE  /\ Goto(self, "create") => call'[self] = [op |-> call[self].op, pc |-> "create"]
           /\ Goto(self, "connect") => call'[self] = [op |-> call[self].op, pc |-> "connect"]
           /\ Goto(self, "free") => call'[self] = [op |-> call[self].op, pc |-> "free"]
           /\ Return(self) => call'[self] = NoCall
           /\ AttemptFails(self) =>
                \/ call[self].op = "connectiotf" /\ call'[self] = NoCall
                \/ /\ call[self].op # "connectiotf"
                   /\ call'[self] = [op |-> call[self].op, pc |-> "retrieve"]
           /\ AttemptSucceeds(self) =>
                \/ call[self].op = "connectiotf" /\ call'[self] = NoCall
                \/ /\ call[self].op # "connectiotf"
                   /\ call'[self] = [op |-> call[self].op, pc |-> "again"]
<1>1. call[self] \in Calls
    BY DEF TypeOK
<1> QED
    BY <1>1 DEF TypeOK, Goto, Return, AttemptFails, AttemptSucceeds, Calls

\* What a step of the library finds: main waits in a call.
LEMMA InCall ==
    ASSUME SampleTypeOK, SessionInv, CallInv, EndInv, Library
    PROVE  /\ self \in Clients /\ TypeOK /\ self' = self /\ Done("connect")
           /\ Done("connect")' /\ (Done("disconnect")' => Done("disconnect")) /\ status' # "exit0"
           /\ cfg[self].mem = "live" /\ (Done("disconnect") => call[self].op = "disconnect")
           /\ \/ call[self].op \in {"connectiotf"} \cup Publishes /\ call[self].pc \in Attempts
              \/ call[self].op \in Publishes /\ call[self].pc = "again"
              \/ call[self].op = "disconnect" /\ call[self].pc \in {"disconnect", "free"}
<1>1. self \in Clients /\ TypeOK /\ self' = self /\ UNCHANGED <<program, step>>
    BY DEF SampleTypeOK, Library, argument
<1>2. call[self].pc # "start"
    BY DEF Library, Step, CertificatesNeeded, retrieveCertificates, MQTTClient_create,
           MQTTClient_connect, PublishAgain, DisconnectSession, FreeClient
<1>3. call[self] # NoCall /\ cfg[self].mem = "live"
    BY <1>1, <1>2 DEF NoCall, SessionInv, ClientSafe, MemoryInv
<1>4. status' # "exit0"
    BY <1>3 DEF EndInv, AtStep, Library
<1> QED
    BY <1>1, <1>3, <1>4, Stays DEF CallInv, EndInv

\* The parts of the invariant in terms of the call that is reached.
LEMMA CallKept ==
    ASSUME CallInv, self' = self, Done("connect")',
           \/ call'[self] = NoCall
           \/ call'[self].op = "connectiotf" /\ call'[self].pc \in Attempts /\ handle'[self] # "up"
           \/ call'[self].op \in Publishes /\ call'[self].pc \in Attempts \cup {"again"}
           \/ call'[self].op = "disconnect" /\ call'[self].pc \in {"disconnect", "free"},
           call'[self].pc = "extract" => Configured(self).se /\ ~a71chInited'
    PROVE  CallInv'
BY DEF CallInv, NoCall, Publishes

\* Until the disconnect, a call is not main's last.
LEMMA AttemptKeepsEnd ==
    ASSUME SampleTypeOK, SessionInv, CallInv, EndInv, Library, ~At(self, "free")
    PROVE  call'[self].op = call[self].op \/ call[self].op # "disconnect" => EndInv'
BY InCall DEF EndInv

\* The retrieval: after the first answer of the element it is not asked again.
LEMMA RetrievalKeepsCalls ==
    ASSUME SampleTypeOK, SessionInv, CallInv, OrphanInv, EndInv, Library,
           CertificatesNeeded(self) \/ retrieveCertificates(self)
    PROVE  CallInv' /\ OrphanInv' /\ EndInv'
<1>1. /\ self \in Clients /\ TypeOK /\ self' = self /\ Done("connect")'
      /\ handle' = handle /\ orphan' = orphan
      /\ call[self].op \in {"connectiotf"} \cup Publishes
    BY InCall DEF CertificatesNeeded, retrieveCertificates, session, Attempts
<1>2. EndInv'
    BY <1>1, AttemptKeepsEnd DEF Publishes, CertificatesNeeded, retrieveCertificates
<1>3. CASE CertificatesNeeded(self)
    <2>1. /\ call'[self].op = call[self].op
          /\ \/ call'[self].pc = "extract" /\ Configured(self).se /\ ~a71chInited
             \/ call'[self].pc = "create"
        <3>1. call[self] \in Calls
            BY <1>1 DEF TypeOK
        <3> QED
            BY <1>1, <1>3, <3>1 DEF CertificatesNeeded, Goto, TypeOK, Calls
    <2>2. UNCHANGED <<cfg, a71chInited>>
        BY <1>3 DEF CertificatesNeeded, memory
    <2>3. CallInv'
        BY <1>1, <2>1, <2>2, CallKept DEF Attempts, CallInv
    <2>4. OrphanInv'
        BY <1>1, <2>1, <2>2 DEF OrphanInv, Attempts
    <2> QED
        BY <1>2, <2>3, <2>4
<1>4. CASE retrieveCertificates(self)
    <2>1. orphan[self] = NoId
        <3>1. Configured(self).se /\ ~a71chInited
            BY <1>4 DEF CallInv, retrieveCertificates
        <3> QED
            BY <3>1 DEF OrphanInv
    <2>2. AttemptFails(self) \/ Goto(self, "create")
        BY <1>4 DEF retrieveCertificates, ExtractionFails
    <2>3. call'[self] = NoCall \/ (call'[self].op = call[self].op
                                   /\ call'[self].pc \in {"retrieve", "create"})
        BY <1>1, <2>2, CallMoves
    <2>4. CallInv'
        BY <1>1, <2>3, CallKept DEF Attempts, NoCall, CallInv
    <2> QED
        BY <1>1, <1>2, <2>1, <2>4 DEF OrphanInv
<1> QED
    BY <1>3, <1>4

\* A handle that replaces one with a session belongs to a publish.
LEMMA CreateKeepsCalls ==
    ASSUME SampleTypeOK, SessionInv, CallInv, OrphanInv, EndInv, Library,
           MQTTClient_create(self)
    PROVE  CallInv' /\ OrphanInv' /\ EndInv'
<1>1. /\ self \in Clients /\ TypeOK /\ self' = self /\ Done("connect")' /\ UNCHANGED memory
      /\ call[self].op \in {"connectiotf"} \cup Publishes /\ call[self].pc = "create"
    BY InCall DEF MQTTClient_create, Attempts
<1>2. /\ call'[self] = NoCall \/ (call'[self].op = call[self].op
                                  /\ call'[self].pc \in {"retrieve", "connect"})
      /\ call[self].op \in Publishes => call'[self].op = call[self].op
    <2>1. AttemptFails(self) \/ Goto(self, "connect")
        BY DEF MQTTClient_create
    <2> QED
        BY <1>1, <2>1, CallMoves DEF Publishes
<1>3. handle'[self] = "up" => handle[self] = "up"
    BY <1>1 DEF MQTTClient_create, session, TypeOK
<1>4. CallInv' /\ EndInv'
    <2>1. CallInv'
        BY <1>1, <1>2, <1>3, CallKept DEF Attempts, NoCall, CallInv
    <2> QED
        BY <1>1, <2>1, AttemptKeepsEnd DEF Publishes
<1>5. OrphanInv'
    <2>1. \/ orphan'[self] = orphan[self]
          \/ Up(self) /\ orphan'[self] = cfg[self].id
        BY <1>1 DEF MQTTClient_create, session, TypeOK
    <2>2. CASE orphan'[self] = orphan[self]
        BY <1>1, <1>2, <2>2 DEF OrphanInv, memory, Attempts, NoCall, Publishes
    <2>3. CASE Up(self) /\ orphan'[self] = cfg[self].id
        <3>1. call[self].op \in Publishes
            BY <1>1, <2>3 DEF CallInv
        <3>2. Configured(self).se => a71chInited
            BY <1>1, <2>3 DEF SessionInv, ClientSafe, ElementInv
        <3> QED
            BY <1>1, <1>2, <2>3, <3>1, <3>2 DEF OrphanInv, memory, Attempts, NoCall, Publishes
    <2> QED
        BY <2>1, <2>2, <2>3
<1> QED
    BY <1>4, <1>5

\* A connect closes the session that was left under the same id.
LEMMA ConnectKeepsCalls ==
    ASSUME SampleTypeOK, SessionInv, CallInv, OrphanInv, EndInv, Library,
           MQTTClient_connect(self)
    PROVE  CallInv' /\ OrphanInv' /\ EndInv'
<1>1. /\ self \in Clients /\ TypeOK /\ self' = self /\ Done("connect")' /\ UNCHANGED memory
      /\ call[self].op \in {"connectiotf"} \cup Publishes /\ call[self].pc = "connect"
    BY InCall DEF MQTTClient_connect, Attempts
<1>2. /\ call[self].op = "connectiotf" => call'[self] = NoCall
      /\ call[self].op \in Publishes => call'[self].op = call[self].op
                                        /\ call'[self].pc \in {"retrieve", "again"}
    BY <1>1, CallMoves DEF MQTTClient_connect, Publishes
<1>3. CallInv' /\ EndInv'
    <2>1. CallInv'
        BY <1>1, <1>2, CallKept DEF Attempts, NoCall
    <2> QED
        BY <1>1, <2>1, AttemptKeepsEnd DEF Publishes
<1>4. OrphanInv'
    <2>1. CASE Accepts(self)
        <3>1. orphan'[self] = NoId
            BY <1>1, <2>1 DEF MQTTClient_connect, clientId, OrphanInv
        <3> QED
            BY <1>1, <3>1 DEF OrphanInv
    <2>2. CASE ~Accepts(self)
        <3>1. orphan' = orphan
            BY <2>2 DEF MQTTClient_connect
        <3>2. call[self].op \in Publishes => call'[self].pc = "retrieve"
            BY <1>1, <2>2, CallMoves DEF MQTTClient_connect, Publishes
        <3> QED
            BY <1>1, <1>2, <3>1, <3>2 DEF OrphanInv, memory, Attempts
    <2> QED
        BY <2>1, <2>2
<1> QED
    BY <1>3, <1>4

\* The last steps of a publish, and of a disconnect.
LEMMA EndKeepsCalls ==
    ASSUME SampleTypeOK, SessionInv, CallInv, OrphanInv, EndInv, Library,
           PublishAgain(self) \/ DisconnectSession(self) \/ FreeClient(self)
    PROVE  CallInv' /\ OrphanInv' /\ EndInv'
<1>1. /\ self \in Clients /\ TypeOK /\ self' = self /\ Done("connect")'
      /\ status' # "exit0" /\ (Done("disconnect")' => call[self].op = "disconnect")
      /\ orphan' = orphan /\ a71chInited' = a71chInited
    BY InCall DEF PublishAgain, DisconnectSession, FreeClient, memory, session
<1>2. orphan[self] = NoId
    BY DEF OrphanInv, PublishAgain, DisconnectSession, FreeClient, Attempts
<1>3. IF DisconnectSession(self) THEN call'[self] = [op |-> call[self].op, pc |-> "free"]
                                 ELSE call'[self] = NoCall
    BY <1>1, CallMoves DEF PublishAgain, DisconnectSession, FreeClient
<1>4. CallInv'
    BY <1>1, <1>3, CallKept, InCall DEF NoCall, DisconnectSession, Attempts
<1>5. EndInv'
    <2>1. FreeClient(self) => cfg'[self].mem = "freed"
        BY <1>1 DEF FreeClient, freeConfig, TypeOK
    <2>2. call[self].op = "disconnect" => ~PublishAgain(self)
        BY DEF CallInv, PublishAgain, NoCall, Publishes
    <2> QED
        BY <1>1, <1>3, <2>1, <2>2 DEF EndInv
<1> QED
    BY <1>1, <1>2, <1>4, <1>5 DEF OrphanInv

\* Steps that leave main, the callback and the thread alone, and subscribe to
\* nothing.
LEMMA OthersKeepMessages ==
    ASSUME CallbackInv, MessageInv, UNCHANGED <<argument, thread, cb, step>>,
           subs'[self] \subseteq subs[self]
    PROVE  CallbackInv' /\ MessageInv'
<1>1. /\ program' = program /\ self' = self /\ Filter' = Filter /\ incoming' = incoming
      /\ delivered' = delivered /\ dropped' = dropped /\ cb' = cb
    BY DEF argument, thread, Filter, Gateway
<1>2. CallbackInv'
    BY <1>1, Stays DEF CallbackInv
<1>3. ASSUME NEW callback PROVE <<Filter, callback, Arguments(Topic(Filter))>>'
                              = <<Filter, callback, Arguments(Topic(Filter))>>
    BY <1>1
<1>4. delivered' # <<>> =>
        \E callback \in {"device", "gateway"} :
            delivered' = <<Filter, callback, Arguments(Topic(Filter))>>'
    BY <1>1, <1>3 DEF MessageInv
<1> QED
    BY <1>1, <1>2, <1>4 DEF MessageInv

\* A step of the library leaves subscriptions at most as they are.
LEMMA LibraryKeepsMessages ==
    ASSUME SampleTypeOK, CallbackInv, MessageInv, Library
    PROVE  CallbackInv' /\ MessageInv'
<1>1. self \in Clients /\ TypeOK /\ UNCHANGED <<argument, thread, cb, step>>
    BY DEF SampleTypeOK, Library, thread
<1>2. subs'[self] \subseteq subs[self]
    BY <1>1 DEF Library, Step, CertificatesNeeded, retrieveCertificates, MQTTClient_create,
                MQTTClient_connect, PublishAgain, DisconnectSession, CloseSession, FreeClient,
                session, TypeOK
<1> QED
    BY <1>1, <1>2, OthersKeepMessages

-----------------------------------------------------------------------------
(* What the library's own proofs say of a client holds for main's.         *)

\* The theorems of ConnectionProofs speak of a client c, the programs of the
\* one that self names.
LEMMA SelfIsClient ==
    ASSUME NEW c, c = self
    PROVE  /\ Step(self) => Step(c)
           /\ initialize(self) => initialize(c)
           /\ connectiotf(self) => connectiotf(c)
           /\ disconnect(self) => disconnect(c)
           /\ publish => publishEvent(c) \/ publishDeviceEvent(c) \/ publishGatewayEvent(c)
           /\ subscribeCommand(self) => subscribeCommand(c)
           /\ SubscribeGateway(self) => SubscribeGateway(c)
           /\ connlost(self) => connlost(c)
           /\ OrphanLost(self) => OrphanLost(c)
<1>1. CertificatesNeeded(self) => CertificatesNeeded(c)
    BY DEF CertificatesNeeded, Goto
<1>2. retrieveCertificates(self) => retrieveCertificates(c)
    BY DEF retrieveCertificates, RetrievedPaths, ExtractionFails, AttemptFails, Goto, Return
<1>3. MQTTClient_create(self) => MQTTClient_create(c)
    BY DEF MQTTClient_create, AttemptFails, Goto, Return
<1>4. MQTTClient_connect(self) => MQTTClient_connect(c)
    BY DEF MQTTClient_connect, Accepts, clientId, AttemptFails, AttemptSucceeds, Goto, Return
<1>5. PublishAgain(self) => PublishAgain(c)
    BY DEF PublishAgain, Return
<1>6. DisconnectSession(self) => DisconnectSession(c)
    BY DEF DisconnectSession, CloseSession, freeGatewaySubscriptionList, Goto
<1>7. FreeClient(self) => FreeClient(c)
    BY DEF FreeClient, freeConfig, Return
<1>8. Step(self) => Step(c)
    BY <1>1, <1>2, <1>3, <1>4, <1>5, <1>6, <1>7 DEF Step
<1>9. /\ initialize(self) => initialize(c)
      /\ connectiotf(self) => connectiotf(c)
      /\ disconnect(self) => disconnect(c)
    BY DEF initialize, connectiotf, disconnect, Enter, Usable, Ready
<1>10. publish => publishEvent(c) \/ publishDeviceEvent(c) \/ publishGatewayEvent(c)
    BY DEF publish, publishEvent, publishDeviceEvent, publishGatewayEvent, Publish, Enter,
           Usable, Ready
<1>11. /\ subscribeCommand(self) => subscribeCommand(c)
       /\ SubscribeGateway(self) => SubscribeGateway(c)
    BY DEF subscribeCommand, SubscribeGateway, subscribeTopic, Usable, Ready
<1>12. connlost(self) => connlost(c)
    BY DEF connlost, CloseSession
<1>13. OrphanLost(self) => OrphanLost(c)
    BY DEF OrphanLost
<1> QED
    BY <1>8, <1>9, <1>10, <1>11, <1>12, <1>13

\* manage is the one step that subscribes without an action of Connection.
LEMMA ManageKeepsLibrary ==
    ASSUME TypeOK, SessionInv, self \in Clients, manage
    PROVE  TypeOK' /\ SessionInv'
<1>1. subs' \in [Clients -> SUBSET Topics]
    <2>1. subs \in [Clients -> SUBSET Topics]
        BY DEF TypeOK
    <2>2. \/ UNCHANGED subs
          \/ subs' = [subs EXCEPT ![self] = @ \cup {"management"}]
        BY DEF manage, subscribeTopic
    <2>3. "management" \in Topics
        BY TopicsAssumption
    <2> QED
        BY <2>1, <2>2, <2>3
<1>2. UNCHANGED <<memory, handle, orphan, handles, call, lives, platform, fault>>
    BY DEF manage
<1>3. TypeOK'
    BY <1>1, <1>2 DEF TypeOK, memory
<1>4. SessionInv'
    BY <1>2, OthersKeepSafe DEF SessionInv, memory
<1> QED
    BY <1>3, <1>4

\* Types, live memory, the element and its certificate, in each of main's
\* steps and beside main.
LEMMA NextKeepsLibrary ==
    ASSUME TypeOK, HostInv, SessionInv, self \in Clients, [SampleNext]_all
    PROVE  TypeOK' /\ SessionInv'
<1>1. PICK c \in Clients : c = self
    OBVIOUS
<1>2. CASE UNCHANGED library
    <2>1. UNCHANGED vars
        BY <1>2 DEF library, vars
    <2> QED
        BY <2>1, NextTyped, NextSafe
<1>3. CASE Initialize \/ Connect \/ Disconnect
    <2>1. \/ UNCHANGED library
          \/ initialize(c) \/ connectiotf(c) \/ disconnect(c)
        BY <1>1, <1>3, SelfIsClient DEF Initialize, Connect, Disconnect
    <2> QED
        BY <1>2, <2>1, InitializeTyped, InitializeKeepsSafe, EnterTyped, EnterKeepsSafe
<1>4. CASE loop
    <2>1. \/ UNCHANGED library
          \/ publishEvent(c) \/ publishDeviceEvent(c) \/ publishGatewayEvent(c)
        BY <1>1, <1>4, SelfIsClient DEF loop
    <2> QED
        BY <1>2, <2>1, EnterTyped, EnterKeepsSafe
<1>5. CASE subscribe
    <2>1. subscribeCommand(c) \/ SubscribeGateway(c)
        BY <1>1, <1>5, SelfIsClient DEF subscribe
    <2> QED
        BY <2>1, SubscribeTyped, RestKeepsSafe
<1>6. CASE manage
    BY <1>6, ManageKeepsLibrary
<1>7. CASE Quiet
    BY <1>2, <1>7, QuietTakes
<1>8. CASE Library
    <2>1. Step(c)
        BY <1>1, <1>8, SelfIsClient DEF Library
    <2>2. Next
        BY <2>1 DEF Next
    <2> QED
        BY <2>2, NextTyped, NextSafe
<1>9. CASE NetworkChanges
    <2>1. PlatformChanges \/ connlost(c) \/ OrphanLost(c)
        BY <1>1, <1>9, SelfIsClient DEF NetworkChanges
    <2>2. TypeOK'
        BY <2>1, EnvironmentTyped
    <2>3. /\ UNCHANGED <<cfg, a71chInited, answered, call>>
          /\ \A d \in Clients : handle'[d] = "up" => handle[d] = "up"
        BY <2>1 DEF PlatformChanges, connlost, CloseSession, OrphanLost, memory, session, TypeOK
    <2> QED
        BY <2>2, <2>3, OthersKeepSafe DEF SessionInv
<1>10. CASE sigHandler \/ Receive \/ messageArrived \/ UNCHANGED all
    BY <1>2, <1>10 DEF sigHandler, Receive, messageArrived, all
<1> QED
    BY <1>3, <1>4, <1>5, <1>6, <1>7, <1>8, <1>9, <1>10
    DEF SampleNext, MainStep, Quiet, Ended

\* The files on the host change with a retrieval of the library only.
LEMMA NextKeepsHost ==
    ASSUME TypeOK, HostInv, self \in Clients, [SampleNext]_all
    PROVE  HostInv'
<1>1. PICK c \in Clients : c = self
    OBVIOUS
<1>2. CASE Library
    <2>1. Step(c)
        BY <1>1, <1>2, SelfIsClient DEF Library
    <2> QED
        BY <2>1, NextHost DEF Next
<1>3. CASE ~Library
    <2>1. UNCHANGED <<files, answered, a71chInited>>
        <3>1. CASE Initialize \/ Connect \/ Disconnect \/ loop
            BY <3>1 DEF Initialize, Connect, Disconnect, loop, publish, initialize, connectiotf,
                        disconnect, publishEvent, publishDeviceEvent, publishGatewayEvent, Publish,
                        library, memory
        <3>2. CASE subscribe \/ manage
            BY <3>2 DEF subscribe, subscribeCommand, SubscribeGateway, manage, memory
        <3>3. CASE Quiet
            BY <3>3, QuietTakes DEF library, memory
        <3>4. CASE NetworkChanges
            BY <3>4 DEF NetworkChanges, PlatformChanges, connlost, OrphanLost, memory
        <3>5. CASE sigHandler \/ Receive \/ messageArrived \/ UNCHANGED all
            BY <3>5 DEF sigHandler, Receive, messageArrived, all, library, memory
        <3> QED
            BY <1>3, <3>1, <3>2, <3>3, <3>4, <3>5 DEF SampleNext, MainStep, Quiet, Ended
    <2> QED
        BY <2>1 DEF HostInv
<1> QED
    BY <1>2, <1>3

-----------------------------------------------------------------------------
(* Typing.                                                                 *)

\* The variables of main and of the thread.
MainTypeOK ==
    /\ program \in Programs /\ self \in Clients /\ argv \in Options
    /\ step \in DOMAIN Main[program] /\ status \in {"running", "exit0", "exit1", "killed"}
    /\ path \in {"null", "empty", "given", "default"}
    /\ {handlers, interrupt, rc, dropped} \subseteq BOOLEAN
    /\ cb \in {"none", "device", "gateway"} /\ managed \in {0, 1, 2}
    /\ cycle \in 0 .. noEvents /\ accepted \subseteq Topics

\* Main's place and the callback follow from the step; what else it writes is
\* typed where it is written.
LEMMA MainTyped ==
    ASSUME SampleTypeOK, TypeOK', Running, MainStep
    PROVE  MainTypeOK'
<1>1. PICK s : Takes(s)
    BY MainTakes DEF SampleTypeOK
<1>2. /\ program' \in Programs /\ self' \in Clients /\ argv' \in Options
      /\ cb' \in {"none", "device", "gateway"} /\ {interrupt', dropped'} \subseteq BOOLEAN
      /\ status' \in {"running", "exit0", "exit1"}
    BY <1>1 DEF Takes, SampleTypeOK, argument, thread, Running
<1>3. step' \in DOMAIN Main[program']
    BY <1>1, TakesDone DEF Takes, SampleTypeOK
<1>4. /\ path' \in {"null", "empty", "given", "default"}
      /\ {handlers', rc'} \subseteq BOOLEAN
      /\ managed' \in {0, 1, 2}
    BY DEF SampleTypeOK, MainStep, argc, signals, getopts, checkPath, Initialize, Connect,
           Connected, setCommandHandler, subscribe, manage, setRebootHandler, loop, unmanage,
           Disconnect, ReturnFromMain
<1>5. cycle' \in 0 .. noEvents
    <2>1. CASE loop
        BY <2>1 DEF loop, LoopEnds, SampleTypeOK, noEvents
    <2>2. CASE ~loop
        BY <2>2 DEF SampleTypeOK, MainStep, argc, signals, getopts, checkPath, Initialize,
                    Connect, Connected, setCommandHandler, subscribe, manage, setRebootHandler,
                    unmanage, Disconnect, ReturnFromMain
    <2> QED
        BY <2>1, <2>2
<1>6. accepted' \subseteq Topics
    <2>1. CASE subscribe \/ manage
        <3>1. subs'[self] \subseteq Topics
            BY DEF SampleTypeOK, TypeOK
        <3> QED
            BY <2>1, <3>1 DEF subscribe, manage, Granted, SampleTypeOK
    <2>2. CASE ~(subscribe \/ manage)
        BY <2>2 DEF SampleTypeOK, MainStep, argc, signals, getopts, checkPath, Initialize,
                    Connect, Connected, setCommandHandler, setRebootHandler, loop, unmanage,
                    Disconnect, ReturnFromMain
    <2> QED
        BY <2>1, <2>2
<1> QED
    BY <1>2, <1>3, <1>4, <1>5, <1>6 DEF MainTypeOK

LEMMA BesideTyped ==
    ASSUME SampleTypeOK,
           Library \/ NetworkChanges \/ sigHandler \/ Receive \/ messageArrived \/ UNCHANGED all
    PROVE  MainTypeOK'
<1>1. CASE Library
    BY <1>1 DEF Library, SampleTypeOK, MainTypeOK, argument, thread
<1>2. CASE NetworkChanges
    BY <1>2 DEF NetworkChanges, SampleTypeOK, MainTypeOK, sample, argument, main, thread
<1>3. CASE sigHandler
    BY <1>3 DEF sigHandler, SampleTypeOK, MainTypeOK, argument, thread
<1>4. CASE Receive
    BY <1>4 DEF Receive, SampleTypeOK, MainTypeOK, argument, main
<1>5. CASE messageArrived
    BY <1>5 DEF messageArrived, SampleTypeOK, MainTypeOK, argument, main
<1>6. CASE UNCHANGED all
    BY <1>6 DEF all, SampleTypeOK, MainTypeOK, sample, argument, main, thread
<1> QED
    BY <1>1, <1>2, <1>3, <1>4, <1>5, <1>6

-----------------------------------------------------------------------------
(* The callback thread, signals and the network.                           *)

\* The thread delivers what it has received with the callback that was there
\* when it tested for one, and no step takes a callback away.
LEMMA ThreadKeepsMessages ==
    ASSUME SampleTypeOK, CallbackInv, MessageInv, Receive \/ messageArrived
    PROVE  CallbackInv' /\ MessageInv'
<1>1. /\ program' = program /\ self' = self /\ step' = step /\ Filter' = Filter
      /\ subs' = subs /\ cb' = cb
    BY DEF Receive, messageArrived, argument, main, library, session, Filter, Gateway
<1>2. Filter \in {"command", "gatewayCommand", "notification"}
    BY DEF Filter
<1>3. CASE Receive
    <2>1. /\ incoming' \in {<<Filter, "test">>, <<"management", "test">>} /\ cb # "none"
          /\ delivered' = delivered /\ dropped' = dropped
        BY <1>3 DEF Receive, MessageInv, CallbackInv
    <2> QED
        BY <1>1, <2>1, Stays DEF CallbackInv, MessageInv
<1>4. CASE messageArrived
    <2>1. /\ incoming # <<>> /\ cb # "none" /\ ~dropped
          /\ incoming \in {<<Filter, "test">>, <<Filter, "call">>, <<"management", "test">>}
        BY <1>4 DEF messageArrived, CallbackInv, MessageInv
    <2>2. ~dropped' /\ incoming' \in {<<>>, <<Filter, "call">>}
        <3>1. CASE incoming = <<Filter, "test">>
            <4>1. incoming[1] = Filter /\ incoming[2] = "test"
                BY <3>1
            <4> QED
                BY <1>2, <1>4, <2>1, <4>1 DEF messageArrived
        <3>2. CASE incoming = <<Filter, "call">>
            <4>1. incoming[1] = Filter /\ incoming[2] = "call"
                BY <3>2
            <4> QED
                BY <1>2, <1>4, <2>1, <4>1 DEF messageArrived
        <3>3. CASE incoming = <<"management", "test">>
            <4>1. incoming[1] = "management" /\ incoming[2] = "test"
                BY <3>3
            <4> QED
                BY <1>4, <2>1, <4>1 DEF messageArrived
        <3> QED
            BY <2>1, <3>1, <3>2, <3>3
    <2>3. \/ delivered' = delivered
          \/ delivered' = <<Filter, cb, Arguments(Topic(Filter))>>
        BY <1>2, <1>4, <2>1 DEF messageArrived
    <2> QED
        BY <1>1, <2>1, <2>2, <2>3, Stays DEF CallbackInv, MessageInv, SampleTypeOK
<1> QED
    BY <1>3, <1>4

\* What neither main nor the library does leaves the call where it is.
LEMMA BesideKeepsCalls ==
    ASSUME SampleTypeOK, CallInv, OrphanInv, EndInv,
           NetworkChanges \/ (Running /\ sigHandler) \/ Receive \/ messageArrived \/ UNCHANGED all
    PROVE  CallInv' /\ OrphanInv' /\ EndInv'
<1>1. /\ program' = program /\ self' = self /\ step' = step /\ call' = call
      /\ cfg' = cfg /\ a71chInited' = a71chInited
      /\ status' = "exit0" => status = "exit0"
    BY DEF NetworkChanges, sigHandler, Receive, messageArrived, all, sample, argument, main,
           library, PlatformChanges, connlost, OrphanLost, memory, Running
<1>2. /\ handle'[self] = handle[self] \/ (handle[self] = "up" /\ handle'[self] = "down")
      /\ orphan'[self] \in {orphan[self], NoId}
    BY DEF NetworkChanges, sigHandler, Receive, messageArrived, all, library, session,
           PlatformChanges, connlost, CloseSession, OrphanLost, SampleTypeOK, TypeOK
<1>3. AtStep("return")' = AtStep("return")
    BY <1>1 DEF AtStep
<1> QED
    BY <1>1, <1>2, <1>3, Stays DEF CallInv, OrphanInv, EndInv

-----------------------------------------------------------------------------
(* The theorems.                                                           *)

LEMMA InitInv == SampleInit => SampleInv
<1> SUFFICES ASSUME SampleInit PROVE SampleInv
    OBVIOUS
<1>1. SampleTypeOK
    <2>1. TypeOK
        BY InitTyped DEF SampleInit
    <2>2. program \in Programs /\ step \in DOMAIN Main[program]
        BY FirstStep DEF SampleInit
    <2>3. self \in Clients /\ cycle \in 0 .. noEvents /\ accepted \subseteq Topics
        BY DEF SampleInit, noEvents
    <2> QED
        BY <2>1, <2>2, <2>3 DEF SampleInit, SampleTypeOK
<1>2. HostInv /\ SessionInv
    BY InitSafe, HostAssumption DEF SampleInit, Init, HostInv
<1>3. /\ step = 1 /\ subs[self] = {} /\ incoming = <<>> /\ delivered = <<>> /\ ~dropped
      /\ call[self] = NoCall /\ handle[self] = "none" /\ orphan[self] = NoId /\ status = "running"
    BY <1>1 DEF SampleInit, Init, SampleTypeOK
<1>4. \A s : ~Done(s)
    BY <1>3 DEF Done
<1> QED
    BY <1>1, <1>2, <1>3, <1>4
    DEF SampleInv, CallbackInv, MessageInv, CallInv, OrphanInv, EndInv, NoCall

LEMMA NextInv == SampleInv /\ [SampleNext]_all => SampleInv'
<1> SUFFICES ASSUME SampleInv, [SampleNext]_all PROVE SampleInv'
    OBVIOUS
<1> USE DEF SampleInv
<1>1. TypeOK' /\ HostInv' /\ SessionInv'
    BY NextKeepsLibrary, NextKeepsHost DEF SampleTypeOK
<1>2. CASE Running /\ MainStep
    <2>1. PICK s : Takes(s)
        BY <1>2, MainTakes DEF SampleTypeOK
    <2>2. SampleTypeOK'
        BY <1>1, <1>2, MainTyped DEF MainTypeOK, SampleTypeOK
    <2> QED
        BY <1>1, <1>2, <2>1, <2>2, MainKeepsCallback, MainKeepsMessages, MainKeepsCalls DEF Running
<1>3. CASE ~(Running /\ MainStep)
    <2>1. \/ Library \/ NetworkChanges \/ (Running /\ sigHandler) \/ Receive \/ messageArrived
          \/ UNCHANGED all
        BY <1>3 DEF SampleNext, Ended
    <2>2. SampleTypeOK'
        BY <1>1, <2>1, BesideTyped DEF MainTypeOK, SampleTypeOK
    <2>3. CallInv' /\ OrphanInv' /\ EndInv'
        <3>1. CASE Library
            BY <3>1, RetrievalKeepsCalls, CreateKeepsCalls, ConnectKeepsCalls, EndKeepsCalls
            DEF Library, Step
        <3> QED
            BY <2>1, <3>1, BesideKeepsCalls
    <2>4. CallbackInv' /\ MessageInv'
        <3>1. CASE NetworkChanges \/ sigHandler \/ UNCHANGED all
            <4>1. UNCHANGED <<argument, thread, cb, step>>
                BY <3>1 DEF NetworkChanges, sigHandler, all, sample, main
            <4>2. subs'[self] \subseteq subs[self]
                BY <3>1 DEF NetworkChanges, PlatformChanges, connlost, CloseSession, OrphanLost,
                            sigHandler, all, library, session, SampleTypeOK, TypeOK
            <4> QED
                BY <4>1, <4>2, OthersKeepMessages
        <3> QED
            BY <2>1, <3>1, LibraryKeepsMessages, ThreadKeepsMessages
    <2> QED
        BY <1>1, <2>2, <2>3, <2>4
<1> QED
    BY <1>2, <1>3

LEMMA SamplesSafe == SampleSpec => []SampleInv
BY InitInv, NextInv, PTL DEF SampleSpec

\* Every reachable state of the programs is well typed.
THEOREM SampleTypeCorrect == SampleSpec => []SampleTypeOK
<1>1. SampleInv => SampleTypeOK
    BY DEF SampleInv
<1> QED
    BY <1>1, SamplesSafe, PTL

\* No command reaches a program before its callback: none of the four
\* subscribes earlier than it sets it, and nothing takes it away.
THEOREM NoCommandDropped == SampleSpec => []NoneDropped
<1>1. SampleInv => NoneDropped
    BY DEF SampleInv, CallbackInv, NoneDropped
<1> QED
    BY <1>1, SamplesSafe, PTL

\* The first two levels of a topic.
LEMMA FirstTwo ==
    ASSUME NEW T, NEW s \in Seq(T), Len(s) >= 2
    PROVE  SubSeq(s, 1, 2) = <<s[1], s[2]>>
<1>1. SubSeq(s, 1, 2) \in Seq(T) /\ Len(SubSeq(s, 1, 2)) = 2
    OBVIOUS
<1>2. SubSeq(s, 1, 2)[1] = s[1] /\ SubSeq(s, 1, 2)[2] = s[2]
    OBVIOUS
<1>3. \A t \in Seq(T) : Len(t) = 2 => t = <<t[1], t[2]>>
    OBVIOUS
<1> QED
    BY <1>1, <1>2, <1>3

Levels == {"iot-2", "type", "NXP", "id", "se1", "cmd", "reset", "fmt", "json", "notify"}

\* For each filter of the programs, the levels that the code passes on are the
\* ones that the topic's labels name.
LEMMA ArgumentsLabelled ==
    ASSUME NEW filter \in {"command", "gatewayCommand", "notification"}
    PROVE  Arguments(Topic(filter)) =
             [type |-> Labelled(Topic(filter), "type"), id |-> Labelled(Topic(filter), "id"),
              command |-> Labelled(Topic(filter), "cmd"), format |-> Labelled(Topic(filter), "fmt")]
<1>1. CASE filter = "command"
    <2> DEFINE topic == <<"iot-2", "cmd", "reset", "fmt", "json">>
    <2>1. Topic(filter) = topic
        BY <1>1 DEF Topic
    <2>2. SubSeq(topic, 1, 2) = <<"iot-2", "cmd">> /\ Len(topic) = 5
        <3>1. topic \in Seq(Levels) /\ Len(topic) = 5 /\ topic[1] = "iot-2" /\ topic[2] = "cmd"
            BY DEF Levels
        <3> HIDE DEF topic
        <3> QED
            BY <3>1, FirstTwo
    <2>3. Arguments(topic) = [type |-> "NULL", id |-> "NULL", command |-> "reset", format |-> "json"]
        BY <2>2 DEF Arguments, Level
    <2>4. /\ Labelled(topic, "type") = "NULL" /\ Labelled(topic, "id") = "NULL"
          /\ Labelled(topic, "cmd") = "reset" /\ Labelled(topic, "fmt") = "json"
        BY DEF Labelled
    <2> QED
        BY <2>1, <2>3, <2>4
<1>2. CASE filter = "gatewayCommand"
    <2> DEFINE topic == <<"iot-2", "type", "NXP", "id", "se1", "cmd", "reset", "fmt", "json">>
    <2>1. Topic(filter) = topic
        BY <1>2 DEF Topic
    <2>2. SubSeq(topic, 1, 2) # <<"iot-2", "cmd">> /\ Len(topic) = 9
        <3>1. topic \in Seq(Levels) /\ Len(topic) = 9 /\ topic[1] = "iot-2" /\ topic[2] = "type"
            BY DEF Levels
        <3> HIDE DEF topic
        <3>2. SubSeq(topic, 1, 2) = <<"iot-2", "type">>
            BY <3>1, FirstTwo
        <3> QED
            BY <3>1, <3>2
    <2>3. Arguments(topic) = [type |-> "NXP", id |-> "se1", command |-> "reset", format |-> "json"]
        BY <2>2 DEF Arguments, Level
    <2>4. /\ Labelled(topic, "type") = "NXP" /\ Labelled(topic, "id") = "se1"
          /\ Labelled(topic, "cmd") = "reset" /\ Labelled(topic, "fmt") = "json"
        BY DEF Labelled
    <2> QED
        BY <2>1, <2>3, <2>4
<1>3. CASE filter = "notification"
    <2> DEFINE topic == <<"iot-2", "type", "NXP", "id", "se1", "notify">>
    <2>1. Topic(filter) = topic
        BY <1>3 DEF Topic
    <2>2. SubSeq(topic, 1, 2) # <<"iot-2", "cmd">> /\ Len(topic) = 6
        <3>1. topic \in Seq(Levels) /\ Len(topic) = 6 /\ topic[1] = "iot-2" /\ topic[2] = "type"
            BY DEF Levels
        <3> HIDE DEF topic
        <3>2. SubSeq(topic, 1, 2) = <<"iot-2", "type">>
            BY <3>1, FirstTwo
        <3> QED
            BY <3>1, <3>2
    <2>3. Arguments(topic) = [type |-> "NXP", id |-> "se1", command |-> "NULL", format |-> "NULL"]
        BY <2>2 DEF Arguments, Level
    <2>4. /\ Labelled(topic, "type") = "NXP" /\ Labelled(topic, "id") = "se1"
          /\ Labelled(topic, "cmd") = "NULL" /\ Labelled(topic, "fmt") = "NULL"
        BY DEF Labelled
    <2> QED
        BY <2>1, <2>3, <2>4
<1> QED
    BY <1>1, <1>2, <1>3

\* A callback is told of a message what the labels of its topic say, whichever
\* program it is and whenever the message comes.
THEOREM ArgumentsFromLabels == SampleSpec => []ArgumentsMatch
<1>1. SampleInv => ArgumentsMatch
    <2> SUFFICES ASSUME SampleInv, delivered # <<>>
                 PROVE  delivered[3] =
                          [type |-> Labelled(Topic(delivered[1]), "type"),
                           id |-> Labelled(Topic(delivered[1]), "id"),
                           command |-> Labelled(Topic(delivered[1]), "cmd"),
                           format |-> Labelled(Topic(delivered[1]), "fmt")]
        BY DEF ArgumentsMatch
    <2>1. PICK callback : delivered = <<Filter, callback, Arguments(Topic(Filter))>>
        BY DEF SampleInv, MessageInv
    <2>2. delivered[1] = Filter /\ delivered[3] = Arguments(Topic(Filter))
        BY <2>1
    <2>3. Filter \in {"command", "gatewayCommand", "notification"}
        BY DEF Filter
    <2> QED
        BY <2>2, <2>3, ArgumentsLabelled
<1> QED
    BY <1>1, SamplesSafe, PTL

\* A program that returns from main leaves no session at the platform, not even
\* of a handle that a retry replaced, and no configuration: through all
\* failures, retries, losses and signals.
THEOREM ExitsClean == SampleSpec => []CleanExit
<1>1. SampleInv => CleanExit
    <2> SUFFICES ASSUME SampleInv, status = "exit0"
                 PROVE  handle[self] # "up" /\ orphan[self] = NoId /\ cfg[self].mem = "freed"
        BY DEF CleanExit
    <2>1. /\ program \in Programs /\ step \in DOMAIN Main[program] /\ self \in Clients
          /\ Main[program][step] = "return" /\ call[self] = NoCall
        BY DEF SampleInv, SampleTypeOK, EndInv, AtStep
    <2>2. cfg[self].mem = "freed"
        BY <2>1, OrderOfCalls DEF SampleInv, EndInv, Done, NoCall
    <2>3. handle[self] # "up"
        BY <2>1, <2>2 DEF SampleInv, SessionInv, ClientSafe, MemoryInv
    <2>4. orphan[self] = NoId
        BY <2>1 DEF SampleInv, OrphanInv, NoCall, Publishes
    <2> QED
        BY <2>2, <2>3, <2>4
<1> QED
    BY <1>1, SamplesSafe, PTL


-----------------------------------------------------------------------------
(* The list of topics.                                                     *)

\* Nothing has ended the process, and only main's client is in a call.  A
\* topic enters the list when main subscribes; main frees the list once, with
\* the disconnect, and by then nothing of it has been freed.
ProgramInv ==
    /\ fault = "none" /\ Configured(self).gateway = Gateway
    /\ \A d \in Clients \ {self} : call[d] = NoCall
    /\ ~Done("subscribe") => subscribeTopics = <<>>
    /\ call[self].op = "disconnect" => Done("disconnect")
    /\ \A i \in 1 .. Len(subscribeTopics) :
          subscribeTopics[i] = "freed" => Done("disconnect") /\ ~At(self, "disconnect")

\* Main subscribes once.
LEMMA SubscribeOnce ==
    ASSUME SampleTypeOK, AtStep("subscribe")
    PROVE  ~Done("subscribe")
<1>1. /\ program \in Programs /\ step \in DOMAIN Main[program]
      /\ Main[program][step] = "subscribe"
    BY DEF SampleTypeOK, AtStep
<1>2. CASE program = "helloWorld"
    BY <1>1, <1>2 DEF Main, helloWorld
<1>3. CASE program = "deviceSample"
    BY <1>1, <1>3 DEF Main, deviceSample, Done
<1>4. CASE program = "managedDeviceSample"
    BY <1>1, <1>4 DEF Main, managedDeviceSample, Done
<1>5. CASE program = "gatewaySample"
    BY <1>1, <1>5 DEF Main, gatewaySample, Done
<1> QED
    BY <1>1, <1>2, <1>3, <1>4, <1>5 DEF Programs

LEMMA InitProgram == SampleInit => ProgramInv
<1> SUFFICES ASSUME SampleInit PROVE ProgramInv
    OBVIOUS
<1>1. \A s : ~Done(s)
    BY DEF SampleInit, Done
<1>2. self \in Clients /\ Configured(self).gateway = Gateway
    BY DEF SampleInit
<1> QED
    BY <1>1, <1>2 DEF SampleInit, Init, ProgramInv, NoCall

\* Of main's steps, subscribe alone writes the list.
LEMMA MainKeepsList ==
    ASSUME MainStep, ~subscribe
    PROVE  UNCHANGED <<subscribeTopics, fault>>
<1>1. CASE Quiet
    BY <1>1, QuietTakes DEF library, memory
<1>2. CASE Initialize \/ Connect \/ Disconnect
    BY <1>2 DEF Initialize, Connect, Disconnect, initialize, connectiotf, disconnect, library, memory
<1>3. CASE loop
    BY <1>3 DEF loop, publish, publishEvent, publishDeviceEvent, publishGatewayEvent, Publish,
                library, memory
<1>4. CASE manage
    BY <1>4 DEF manage, memory
<1> QED
    BY <1>1, <1>2, <1>3, <1>4 DEF MainStep, Quiet

LEMMA MainKeepsProgram ==
    ASSUME MAX_SUBSCRIPTION > 0, SampleInv, ProgramInv, MainStep
    PROVE  ProgramInv'
<1> USE DEF SampleInv, ProgramInv
<1>1. PICK s : Takes(s)
    BY MainTakes DEF SampleTypeOK
<1>2. /\ self' = self /\ Gateway' = Gateway /\ self \in Clients /\ call[self] = NoCall
      /\ call \in [Clients -> Calls] /\ subscribeTopics \in Seq({"live", "freed"})
    BY <1>1, TakesDone DEF Takes, SampleTypeOK, TypeOK, Gateway
<1>3. \A t : Done(t) => Done(t)'
    BY <1>1, TakesDone
<1>4. \A d \in Clients \ {self} : call'[d] = NoCall
    BY <1>1, <1>2 DEF Takes, Enter
<1>5. call'[self].op = "disconnect" \/ At(self, "disconnect")' => s = "disconnect"
    BY <1>1, <1>2 DEF Takes, Enter, NoCall, Publishes
<1>6. s = "disconnect" => Done("disconnect")' /\ ~Done("disconnect")
    <2> SUFFICES ASSUME s = "disconnect" PROVE Done("disconnect")' /\ ~Done("disconnect")
        OBVIOUS
    <2>1. ~Done("disconnect")
        BY <1>1, OrderOfCalls DEF Takes, SampleTypeOK, Done
    <2>2. Disconnect
        BY <1>1 DEF Takes, MainStep, argc, signals, getopts, checkPath, Initialize, Connect,
                    Connected, setCommandHandler, subscribe, manage, setRebootHandler, loop,
                    unmanage, ReturnFromMain, AtStep
    <2>3. step' = step + 1
        BY <2>2 DEF Disconnect, Continue
    <2> QED
        BY <1>1, <2>1, <2>3, TakesDone
<1>7. /\ fault' = "none"
      /\ ~Done("subscribe")' => subscribeTopics' = <<>>
      /\ \A i \in 1 .. Len(subscribeTopics') :
            subscribeTopics'[i] = "freed" =>
                i \in 1 .. Len(subscribeTopics) /\ subscribeTopics[i] = "freed"
    <2>1. CASE subscribe
        <3>1. subscribeTopics = <<>> /\ Done("subscribe")'
            <4>1. AtStep("subscribe") /\ step' = step + 1
                BY <2>1 DEF subscribe, Continue
            <4>2. s = "subscribe"
                BY <1>1, <4>1 DEF Takes, AtStep
            <4> QED
                BY <1>1, <4>1, <4>2, SubscribeOnce, TakesDone
        <3>2. fault' = "none" /\ subscribeTopics' \in {<<>>, <<"live">>}
            <4>1. Len(subscribeTopics) < MAX_SUBSCRIPTION
                BY <3>1, BoundsAssumption
            <4>2. \/ UNCHANGED <<subscribeTopics, fault>>
                  \/ subscribeTopics' = Append(subscribeTopics, "live") /\ UNCHANGED fault
                BY <2>1, <4>1 DEF subscribe, subscribeCommand, SubscribeGateway, memory
            <4> QED
                BY <3>1, <4>2
        <3> QED
            BY <3>1, <3>2
    <2>2. CASE ~subscribe
        BY <1>3, <2>2, MainKeepsList
    <2> QED
        BY <2>1, <2>2
<1>8. \A i \in 1 .. Len(subscribeTopics') :
         subscribeTopics'[i] = "freed" => Done("disconnect")' /\ ~At(self, "disconnect")'
    BY <1>3, <1>5, <1>6, <1>7
<1> QED
    BY <1>2, <1>4, <1>5, <1>6, <1>7, <1>8

\* A call keeps its name until it returns.
LEMMA KeepsOperation ==
    ASSUME TypeOK, NEW c \in Clients
    PROVE  /\ \A pc : Goto(c, pc) => call'[c].op = call[c].op
           /\ Return(c) => call'[c] = NoCall
           /\ AttemptFails(c) \/ AttemptSucceeds(c) =>
                call'[c] = NoCall \/ call'[c].op = call[c].op
<1>1. call[c] \in Calls
    BY DEF TypeOK
<1> QED
    BY <1>1 DEF TypeOK, Goto, Return, AttemptFails, AttemptSucceeds, Calls

\* Beside main, only the disconnect writes the list, and its call begins when
\* nothing of the list has been freed.
LEMMA BesideKeepsProgram ==
    ASSUME SampleInv, ProgramInv,
           Library \/ NetworkChanges \/ sigHandler \/ Receive \/ messageArrived \/ UNCHANGED all
    PROVE  ProgramInv'
<1> USE DEF SampleInv, ProgramInv
<1>1. UNCHANGED <<program, self, step, Gateway>> /\ self \in Clients /\ TypeOK
    BY DEF Library, NetworkChanges, sigHandler, Receive, messageArrived, all, sample, argument,
           main, SampleTypeOK, Gateway
<1>2. \A t : Done(t)' <=> Done(t)
    BY <1>1, Stays
<1>3. CASE ~Library
    <2>1. UNCHANGED <<subscribeTopics, call, fault>>
        BY <1>3 DEF NetworkChanges, PlatformChanges, connlost, OrphanLost, sigHandler, Receive,
                    messageArrived, all, library, memory
    <2> QED
        BY <1>1, <1>2, <2>1
<1>4. CASE Library
    <2>1. Step(self)
        BY <1>4 DEF Library
    <2>2. /\ \A d \in Clients \ {self} : call'[d] = NoCall
          /\ call'[self] = NoCall \/ call'[self].op = call[self].op
          /\ ~At(self, "disconnect")'
        <3>1. PICK c \in Clients : c = self
            BY <1>1
        <3>2. Step(c)
            BY <2>1, <3>1, SelfIsClient
        <3>3. /\ \A d \in Clients \ {c} : call'[d] = call[d]
              /\ call'[c] = NoCall \/ call'[c].op = call[c].op
              /\ call'[c].pc # "disconnect"
            BY <1>1, <3>2, MovesTo, KeepsOperation
            DEF Step, CertificatesNeeded, retrieveCertificates, ExtractionFails,
                MQTTClient_create, MQTTClient_connect, PublishAgain, DisconnectSession, FreeClient
        <3> QED
            BY <1>1, <3>1, <3>3
    <2>3. CASE DisconnectSession(self)
        <3>1. Done("disconnect") /\ At(self, "disconnect")
            BY <2>3 DEF DisconnectSession, CallInv, Publishes, Attempts, NoCall
        <3>2. \A i \in 1 .. Len(subscribeTopics) : subscribeTopics[i] # "freed"
            BY <3>1
        <3>3. /\ fault' = "none"
              /\ subscribeTopics' = subscribeTopics \/ subscribeTopics # <<>>
            BY <2>3, <3>2 DEF DisconnectSession, freeGatewaySubscriptionList
        <3> QED
            BY <1>1, <1>2, <2>2, <3>1, <3>3 DEF NoCall
    <2>4. CASE ~DisconnectSession(self)
        <3>1. UNCHANGED <<subscribeTopics, fault>>
            BY <2>1, <2>4 DEF Step, CertificatesNeeded, retrieveCertificates, MQTTClient_create,
                              MQTTClient_connect, PublishAgain, FreeClient, memory
        <3> QED
            BY <1>1, <1>2, <2>2, <3>1 DEF NoCall
    <2> QED
        BY <2>3, <2>4
<1> QED
    BY <1>3, <1>4

LEMMA ProgramSafe ==
    ASSUME MAX_SUBSCRIPTION > 0
    PROVE  SampleSpec => [](SampleInv /\ ProgramInv)
<1>1. SampleInit => SampleInv /\ ProgramInv
    BY InitInv, InitProgram
<1>2. SampleInv /\ ProgramInv /\ [SampleNext]_all => (SampleInv /\ ProgramInv)'
    <2> SUFFICES ASSUME SampleInv, ProgramInv, [SampleNext]_all PROVE SampleInv' /\ ProgramInv'
        OBVIOUS
    <2>1. SampleInv'
        BY NextInv
    <2>2. ProgramInv'
        BY MainKeepsProgram, BesideKeepsProgram DEF SampleNext, Ended
    <2> QED
        BY <2>1, <2>2
<1> QED
    BY <1>1, <1>2, PTL DEF SampleSpec

\* None of the programs writes past the list of topics, and none frees a topic
\* twice.
THEOREM NoProgramFaults ==
    ASSUME MAX_SUBSCRIPTION > 0
    PROVE  SampleSpec => [](fault = "none")
<1>1. ProgramInv => fault = "none"
    BY DEF ProgramInv
<1> QED
    BY <1>1, ProgramSafe, PTL
=============================================================================
