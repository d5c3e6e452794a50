---------------------- MODULE MCManagedDeviceScenarios ----------------------
(***************************************************************************)
(* Three instances of ManagedDevice in one run of TLC: what the platform   *)
(* may send, what the application may register, how many requests it makes *)
(* and how many messages may be in flight are those of a scenario that is  *)
(* chosen at the start and does not change.                                *)
(***************************************************************************)
EXTENDS MCManagedDevice, FiniteSets

VARIABLE scenario

Scenarios == {
    \* A firmware upgrade while the application manages and unmanages.
    [requests |-> UpgradeRequests, handlers |-> UpgradeHandlers, issues |-> 2, flight |-> 1],
    \* Updates, downloads and firmware updates in every order.
    [requests |-> StateRequests, handlers |-> StateHandlers, issues |-> 1, flight |-> 2],
    \* Device actions against handlers that come and go.
    [requests |-> ActionRequests, handlers |-> ActionHandlers, issues |-> 1, flight |-> 1]}

AllRequests == UNION {s.requests : s \in Scenarios}
AllHandlers == UNION {s.handlers : s \in Scenarios}

Within(s) ==
    /\ \A i \in 1 .. Len(inbox') : inbox'[i] \in s.requests \/ inbox'[i].kind = "response"
    /\ Len(inbox') <= s.flight /\ Cardinality(issued') <= s.issues
    /\ \A h \in Handlers : handler'[h] # handler[h] => <<h, handler'[h]>> \in s.handlers

ScenarioSpec ==
    /\ Init /\ scenario \in Scenarios
    /\ [][Next /\ Within(scenario) /\ UNCHANGED scenario]_<<vars, scenario>>
=============================================================================
