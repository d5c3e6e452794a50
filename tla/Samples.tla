------------------------------- MODULE Samples -------------------------------
(***************************************************************************)
(* The programs of src/samples, one at a time in a process: their main     *)
(* functions call the library (Connection), signals interrupt them, and    *)
(* the callback thread of the MQTT library runs messageArrived of          *)
(* src/src/iotfclient.c beside them.                                       *)
(*                                                                         *)
(* A step of main is one of the calls it makes.  Connection's actions are  *)
(* what such a call does; main waits until it has returned.  The process   *)
(* ends by exit, by return from main, or killed by a signal for which      *)
(* there is no handler yet.                                                *)
(*                                                                         *)
(* Left out: the reading of the file (Config), what messageArrived_dm does *)
(* with a message (ManagedDevice), sleep, output.                          *)
(***************************************************************************)
EXTENDS Connection

VARIABLES
    program,    \* which of the programs runs
    self,       \* its client
    argv,       \* its options
    step,       \* how many steps main has taken
    status,     \* "running", "exit0", "exit1", "killed"
    path,       \* configFilePath: "null", "empty", "given", "default"
    handlers,   \* the signal handlers are installed
    interrupt,  \* the global that they set
    rc,         \* whether connectiotf has returned success
    cb,         \* the library's command callback: "none", "device", "gateway"
    managed,    \* client->managed, unset until manage: 0, 1 or another value
    cycle,      \* events sent by a gateway
    accepted,   \* what the platform has ever granted this process
    incoming,   \* the message that the callback thread is at
    delivered,  \* what the callback has last been called with
    dropped     \* a message has found no callback

argument == <<program, self, argv>>
main     == <<step, status, path, handlers, rc, managed, cycle, accepted>>
thread   == <<incoming, delivered, dropped>>
library  == <<memory, session, call, lives, platform, fault>>
sample   == <<argument, main, thread, interrupt, cb>>
all      == <<library, sample>>

\* The filters that the programs subscribe to.
ASSUME TopicsAssumption ==
    {"command", "gatewayCommand", "notification", "management"} \subseteq Topics

-----------------------------------------------------------------------------
(* The programs.                                                           *)

Programs == {"helloWorld", "deviceSample", "managedDeviceSample", "gatewaySample"}
noEvents == 1

\* The calls of the four main functions, in their order.
helloWorld ==
    <<"argc", "getopts", "path", "signals", "initialize", "connect", "connected",
      "loop", "disconnect", "return">>

deviceSample_SubscribeFirst ==
    <<"argc", "signals", "getopts", "initialize", "connect", "connected",
      "subscribe", "setCommandHandler", "loop", "disconnect", "return">>
deviceSample ==
    <<"argc", "signals", "getopts", "initialize", "connect", "connected",
      "setCommandHandler", "subscribe", "loop", "disconnect", "return">>

managedDeviceSample ==
    <<"argc", "signals", "getopts", "initialize", "connect", "connected",
      "setCommandHandler", "manage", "setRebootHandler", "subscribe", "loop",
      "unmanage", "disconnect", "return">>

gatewaySample ==
    <<"getopts", "path", "signals", "initialize", "connect", "connected",
      "setCommandHandler", "subscribe", "loop", "disconnect", "return">>

Main == [helloWorld |-> helloWorld, deviceSample |-> deviceSample,
         managedDeviceSample |-> managedDeviceSample, gatewaySample |-> gatewaySample]

Gateway == program = "gatewaySample"

\* The option for the file: there, without a value, with an empty one, or not
\* there, with another option or alone; and a gateway's test action.
Options == [config : {"given", "noValue", "empty", "unknown", "none"},
            action : {"gateway", "device"}]

SampleInit ==
    /\ Init
    /\ program \in Programs /\ argv \in Options
    /\ self \in {c \in Clients : Configuration[c].gateway = Gateway}
    /\ step = 1 /\ status = "running" /\ path = "null" /\ handlers = FALSE
    /\ interrupt = FALSE /\ rc = FALSE /\ cb = "none" /\ managed \in {0, 1, 2}
    /\ cycle = 0 /\ accepted = {}
    /\ incoming = <<>> /\ delivered = <<>> /\ dropped = FALSE

\* Main is at a step, and no call is in progress.
AtStep(s) == Main[program][step] = s /\ call[self] = NoCall
Continue  == step' = step + 1 /\ UNCHANGED status
Exit(code) == status' = code /\ UNCHANGED step

-----------------------------------------------------------------------------
(* main: before the connection.                                            *)

argc ==
    /\ AtStep("argc") /\ IF argv.config = "none" THEN Exit("exit1") ELSE Continue
    /\ UNCHANGED <<argument, path, handlers, rc, managed, cycle, accepted, thread, interrupt,
                   cb, library>>

signals ==
    /\ AtStep("signals") /\ handlers' = TRUE /\ Continue
    /\ UNCHANGED <<argument, path, rc, managed, cycle, accepted, thread, interrupt, cb, library>>

\* Only the gateway's program knows all of its options.
getopts ==
    /\ AtStep("getopts")
    /\ IF argv.config = "noValue" \/ (Gateway /\ argv.config = "unknown")
       THEN Exit("exit1") /\ UNCHANGED path
       ELSE /\ Continue
            /\ path' = IF argv.config \in {"given", "empty"} THEN argv.config ELSE "null"
    /\ UNCHANGED <<argument, handlers, rc, managed, cycle, accepted, thread, interrupt, cb, library>>

NoFile == path \in {"null", "empty"}

checkPath ==
    /\ AtStep("path")
    /\ path' = IF NoFile /\ Gateway THEN "default" ELSE path
    /\ IF NoFile /\ ~Gateway THEN Exit("exit1") ELSE Continue
    /\ UNCHANGED <<argument, handlers, rc, managed, cycle, accepted, thread, interrupt, cb, library>>

Initialize ==
    /\ AtStep("initialize")
    /\ \/ ~NoFile /\ initialize(self) /\ Continue
       \/ Exit("exit1") /\ UNCHANGED library
    /\ UNCHANGED <<argument, path, handlers, rc, managed, cycle, accepted, thread, interrupt, cb>>

Connect ==
    /\ AtStep("connect") /\ connectiotf(self) /\ Continue
    /\ UNCHANGED <<argument, path, handlers, rc, managed, cycle, accepted, thread, interrupt, cb>>

Connected ==
    /\ AtStep("connected") /\ IF rc THEN Continue ELSE Exit("exit1")
    /\ UNCHANGED <<argument, path, handlers, rc, managed, cycle, accepted, thread, interrupt,
                   cb, library>>

-----------------------------------------------------------------------------
(* main: with a session.                                                   *)

setCommandHandler ==
    /\ AtStep("setCommandHandler") /\ Continue
    /\ cb' = IF Gateway THEN "gateway" ELSE "device"
    /\ UNCHANGED <<argument, path, handlers, rc, managed, cycle, accepted, thread, interrupt,
                   library>>

\* The filter that a program subscribes to; only a grant changes subs.
Filter == IF ~Gateway THEN "command"
          ELSE IF argv.action = "gateway" THEN "gatewayCommand" ELSE "notification"
Granted == accepted' = accepted \cup subs'[self]

subscribe ==
    /\ AtStep("subscribe") /\ Continue
    /\ subscribeCommand(self) \/ SubscribeGateway(self)
    /\ subs'[self] \subseteq subs[self] \cup {Filter} /\ Granted
    /\ UNCHANGED <<argument, path, handlers, rc, managed, cycle, thread, interrupt, cb>>

\* A value of 1 that nobody has set makes manage return at once.
manage ==
    /\ AtStep("manage") /\ Continue
    /\ IF managed = 1 THEN UNCHANGED <<managed, subs>>
       ELSE subscribeTopic(self, "management") /\ managed' \in {managed, 1}
    /\ Granted
    /\ UNCHANGED <<memory, handle, orphan, handles, call, lives, platform, fault>>
    /\ UNCHANGED <<argument, path, handlers, rc, cycle, thread, interrupt, cb>>

setRebootHandler ==
    /\ AtStep("setRebootHandler") /\ Continue
    /\ UNCHANGED <<argument, path, handlers, rc, managed, cycle, accepted, thread, interrupt,
                   cb, library>>

publish ==
    IF ~Gateway THEN publishEvent(self)
    ELSE IF argv.action = "gateway" THEN publishGatewayEvent(self) ELSE publishDeviceEvent(self)

LoopEnds_Off == interrupt \/ cycle > noEvents
LoopEnds_Counted == Gateway /\ cycle >= noEvents
LoopEnds == interrupt \/ (Gateway /\ cycle >= noEvents)

loop ==
    /\ AtStep("loop")
    /\ IF LoopEnds THEN Continue /\ UNCHANGED <<cycle, library>>
       ELSE publish /\ cycle' = (IF Gateway THEN cycle + 1 ELSE cycle) /\ UNCHANGED <<step, status>>
    /\ UNCHANGED <<argument, path, handlers, rc, managed, accepted, thread, interrupt, cb>>

unmanage ==
    /\ AtStep("unmanage") /\ Continue
    /\ managed' \in IF managed = 0 THEN {0} ELSE {managed, 0}
    /\ UNCHANGED <<argument, path, handlers, rc, cycle, accepted, thread, interrupt, cb, library>>

Disconnect ==
    /\ AtStep("disconnect") /\ disconnect(self) /\ Continue
    /\ UNCHANGED <<argument, path, handlers, rc, managed, cycle, accepted, thread, interrupt, cb>>

ReturnFromMain ==
    /\ AtStep("return") /\ Exit("exit0")
    /\ UNCHANGED <<argument, path, handlers, rc, managed, cycle, accepted, thread, interrupt,
                   cb, library>>

-----------------------------------------------------------------------------
(* Beside main.                                                            *)

\* The library goes on with main's call; connectiotf returns success exactly
\* with a session.
Library ==
    /\ Step(self)
    /\ rc' = IF call[self].op = "connectiotf" /\ call'[self] = NoCall
             THEN handle'[self] = "up" ELSE rc
    /\ UNCHANGED <<argument, step, status, path, handlers, managed, cycle, accepted, thread,
                   interrupt, cb>>

NetworkChanges ==
    /\ PlatformChanges \/ connlost(self) \/ OrphanLost(self)
    /\ UNCHANGED sample

sigHandler ==
    /\ interrupt' = TRUE
    /\ IF handlers THEN UNCHANGED status ELSE status' = "killed"
    /\ UNCHANGED <<argument, step, path, handlers, rc, managed, cycle, accepted, thread, cb, library>>

\* The levels of a topic to which a filter applies.
Topic(filter) ==
    CASE filter = "command"        -> <<"iot-2", "cmd", "reset", "fmt", "json">>
      [] filter = "gatewayCommand" ->
           <<"iot-2", "type", "NXP", "id", "se1", "cmd", "reset", "fmt", "json">>
      [] filter = "notification"   -> <<"iot-2", "type", "NXP", "id", "se1", "notify">>
      [] filter = "management"     -> <<"iotdm-1", "mgmt", "initiate", "device", "reboot">>

\* The platform sends a message; the MQTT library hands it to its thread.
Receive ==
    /\ incoming = <<>> /\ \E filter \in subs[self] : incoming' = <<filter, "test">>
    /\ UNCHANGED <<argument, main, delivered, dropped, interrupt, cb, library>>

\* strtok(NULL, "/"), n times.
Level(topic, n) == IF n <= Len(topic) THEN topic[n] ELSE "NULL"

Arguments_OneFurther(topic) ==
    [type |-> Level(topic, 3), id |-> Level(topic, 5),
     command |-> Level(topic, 6), format |-> Level(topic, 9)]
Arguments(topic) ==
    IF SubSeq(topic, 1, 2) = <<"iot-2", "cmd">>
    THEN [type |-> "NULL", id |-> "NULL", command |-> Level(topic, 3), format |-> Level(topic, 5)]
    ELSE [type |-> Level(topic, 3), id |-> Level(topic, 5),
          command |-> Level(topic, 7), format |-> Level(topic, 9)]

\* cb is tested, and read again for the call.
messageArrived ==
    /\ incoming # <<>>
    /\ LET filter == incoming[1] IN
       \/ /\ filter = "management" /\ incoming' = <<>> /\ UNCHANGED <<delivered, dropped>>
       \/ /\ filter # "management" /\ incoming[2] = "test" /\ UNCHANGED delivered
          /\ incoming' = IF cb = "none" THEN <<>> ELSE <<filter, "call">>
          /\ dropped' = (dropped \/ cb = "none")
       \/ /\ incoming[2] = "call" /\ incoming' = <<>> /\ UNCHANGED dropped
          /\ delivered' = <<filter, cb, Arguments(Topic(filter))>>
    /\ UNCHANGED <<argument, main, interrupt, cb, library>>

-----------------------------------------------------------------------------
MainStep ==
    \/ argc \/ signals \/ getopts \/ checkPath \/ Initialize \/ Connect \/ Connected
    \/ setCommandHandler \/ subscribe \/ manage \/ setRebootHandler \/ loop \/ unmanage
    \/ Disconnect \/ ReturnFromMain

Running == status = "running"

\* A process that has ended does nothing more.
Ended == ~Running /\ UNCHANGED all

SampleNext ==
    \/ Running /\ (MainStep \/ Library \/ NetworkChanges \/ sigHandler \/ Receive \/ messageArrived)
    \/ Ended

\* Main and its calls go on; the platform and the Secure Element as in
\* Connection.  Signals and messages need not come.
SampleSpec ==
    /\ SampleInit /\ [][SampleNext]_all
    /\ WF_all(Running /\ (MainStep \/ Library))
    /\ SF_all(Running /\ Library /\ Extracts(self))
    /\ SF_all(Running /\ Library /\ Creates(self))

-----------------------------------------------------------------------------
(* Properties.                                                             *)

\* The type invariant: the client's, and of main's variables.
SampleTypeOK ==
    /\ TypeOK
    /\ program \in Programs /\ self \in Clients /\ argv \in Options
    /\ step \in DOMAIN Main[program] /\ status \in {"running", "exit0", "exit1", "killed"}
    /\ path \in {"null", "empty", "given", "default"}
    /\ {handlers, interrupt, rc, dropped} \subseteq BOOLEAN
    /\ cb \in {"none", "device", "gateway"} /\ managed \in {0, 1, 2}
    /\ cycle \in 0 .. noEvents /\ accepted \subseteq Topics

\* Whatever the platform sends as soon as it grants a subscription, and however
\* late its thread looks: no command finds the library without a callback.
NoneDropped == ~dropped

\* A callback is told of a topic what the topic's labels say, for each kind of
\* topic that one of the programs subscribes to.
Labelled(topic, label) ==
    IF \E n \in DOMAIN topic : topic[n] = label
    THEN topic[(CHOOSE n \in DOMAIN topic : topic[n] = label) + 1] ELSE "NULL"
ArgumentsMatch ==
    delivered # <<>> =>
        LET topic == Topic(delivered[1])
        IN  delivered[3] = [type |-> Labelled(topic, "type"), id |-> Labelled(topic, "id"),
                            command |-> Labelled(topic, "cmd"), format |-> Labelled(topic, "fmt")]

\* A program that returns from main leaves nothing at the platform, not even a
\* session that a reconnect abandoned, and has freed its configuration.
CleanExit ==
    status = "exit0" =>
        handle[self] # "up" /\ orphan[self] = NoId /\ cfg[self].mem = "freed"

\* CTRL-C ends each program, through a retry in progress, once the platform
\* stays reachable.
SignalEnds == <>[]platform => [](interrupt => <>~Running)

\* What deviceSample.c says of itself: it receives commands.  A program in its
\* loop with a session has the subscriptions it was granted.
CommandsReceived ==
    Running /\ AtStep("loop") /\ handle[self] = "up" => accepted \subseteq subs[self]
=============================================================================
