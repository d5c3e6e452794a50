----------------------------- MODULE DeviceService -----------------------------
(***************************************************************************)
(* What the platform may rely on of a device that it manages.              *)
(*                                                                         *)
(* The device serves one message at a time, each once.  To a request it    *)
(* gives one answer, as often as the request has parts, or none; it runs   *)
(* one callback for it, or none, and none once it has refused.  Answers    *)
(* may get lost, and what the application reports on its own account later *)
(* is no answer to a request.                                              *)
(***************************************************************************)
CONSTANTS
    Messages,  \* what the platform may send: records with a kind and a req
    Nothing,   \* what is served while nothing is
    Codes,     \* per kind, the codes of an answer ...
    Callbacks  \* ... and the callbacks that it may run

VARIABLES
    serving,   \* the message that is being served
    served,    \* all that have been received
    answers,   \* pairs of a req and a code
    acted      \* pairs of a req and a callback

vars == <<serving, served, answers, acted>>

REFUSED == 400

Init == serving = Nothing /\ served = {} /\ answers = {} /\ acted = {}

\* A message may be of no interest.
Receive(m) ==
    /\ serving = Nothing /\ m \notin served
    /\ served' = served \cup {m} /\ serving' \in {m, Nothing}
    /\ UNCHANGED <<answers, acted>>

Busy == serving # Nothing

Answer(code) ==
    /\ Busy /\ code \in Codes[serving.kind]
    /\ \A a \in answers : a[1] = serving.req => a[2] = code
    /\ code = REFUSED => \A b \in acted : b[1] # serving.req
    /\ answers' = answers \cup {<<serving.req, code>>}
    /\ serving' \in {serving, Nothing} /\ UNCHANGED <<served, acted>>

Act(callback) ==
    /\ Busy /\ callback \in Callbacks[serving.kind]
    /\ <<serving.req, REFUSED>> \notin answers
    /\ \A b \in acted : b[1] # serving.req
    /\ acted' = acted \cup {<<serving.req, callback>>}
    /\ UNCHANGED <<serving, served, answers>>

Finish == Busy /\ serving' = Nothing /\ UNCHANGED <<served, answers, acted>>

Next ==
    \/ \E m \in Messages : Receive(m)
    \/ Busy /\ \E code \in Codes[serving.kind] : Answer(code)
    \/ Busy /\ \E callback \in Callbacks[serving.kind] : Act(callback)
    \/ Finish

Spec == Init /\ [][Next]_vars
=============================================================================
