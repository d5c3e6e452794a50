--------------------------- MODULE MCManagedDevice ---------------------------
(***************************************************************************)
(* Instances of ManagedDevice for TLC, and the claims of its comments that *)
(* the code does not keep.                                                 *)
(***************************************************************************)
EXTENDS ManagedDevice, TLC

CONSTANTS a1, a2, r1, r2, r3, r4, r5, r6  \* model values

Request(kind, id, fields) ==
    [kind |-> kind, req |-> id, payload |-> "json", fields |-> fields]
Malformed(kind, id) == [Request(kind, id, <<>>) EXCEPT !.payload = "malformed"]
Firmware(state) == [name |-> "mgmt.firmware", state |-> state]
Location    == [name |-> "location", state |-> IDLE]
Unsupported == [name |-> "unsupported", state |-> IDLE]

\* The ids of the application are interchangeable.
AppSymmetry == Permutations({a1, a2})

Set(hs) == hs \X {TRUE}

\* A firmware upgrade while the application manages and unmanages.
UpgradeRequests == {
    Request("update", r1, <<Firmware(DOWNLOADED)>>),
    Request("firmware_update", r2, <<>>)}
UpgradeHandlers == Set({"firmware_update"})

\* The firmware state goes through several values, and requests are refused.
StateRequests == UpgradeRequests \cup {
    Request("update", r3, <<Firmware(DOWNLOADING), Location>>),
    Request("download", r4, <<>>)}
StateHandlers == Set({"download", "firmware_update"})

\* Device actions, with handlers that are set and cleared.
ActionRequests == {
    Request("reboot", r5, <<>>),
    Request("factory_reset", r6, <<>>)}
ActionHandlers == {<<"dm", TRUE>>, <<"reboot", TRUE>>, <<"reboot", FALSE>>,
                   <<"factory_reset", TRUE>>}

\* Observation, and the payloads that end a handler early.
PayloadRequests == {
    Request("update", r1, <<Unsupported, Location>>),
    Malformed("update", r2),
    Malformed("cancel", r3),
    Request("other", r4, <<>>),
    Request("observe", r5, <<>>),
    Request("cancel", r6, <<Unsupported, Firmware(IDLE)>>)}

NoHandlers == {}

-----------------------------------------------------------------------------
(* What comments of the code say, and the code does not do.                *)

DownloadRequests == {Request("observe", r1, <<>>), Request("download", r2, <<>>)}
DownloadHandlers == Set({"download"})
CancelRequests   == {Request("cancel", r1, <<Firmware(IDLE)>>)}
RebootRequests   == {Request("reboot", r1, <<>>), Request("cancel", r2, <<>>)}
RebootHandlers   == Set({"reboot"})

\* manageddevice.c:585 "Update the firmware state while downloading firmware
\* and Notifies the IBM Watson IoT Platform with the updated state": not
\* refused once the platform has been told that it observes the state.
ObservedStateNotified ==
    [][\A t \in Threads :
          At(t, "changeFirmwareDownloadState", "start") /\ frame'[t].op = "none"
              => ~ \E a \in sent : a.op = "observe" /\ a.rc = 200]_vars

\* manageddevice.c:547 "Notifies the IBM Watson IoT Platform response for
\* action", of "the request that is received": changeState answers under the
\* id of a request whose callback has run.
ActionAnsweredUnderItsId ==
    \A a \in sent : a.op = "changeState" =>
        \E c \in called : c.cb \in {"reboot", "factory_reset"} /\ a.id = Whole(c.req)

\* manageddevice.c:494 "Process device management messages": no message the
\* platform sends well-formed ends the process.
WellFormedProcessed == crash = "payload" => \E m \in taken : m.payload = "malformed"

=============================================================================
