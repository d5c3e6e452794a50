------------------------------ MODULE MCSamples ------------------------------
(***************************************************************************)
(* Instances of Samples for TLC: a device and a gateway that use the       *)
(* Secure Element, as in the configurations beside the samples, and a      *)
(* device that has an id of its own.                                       *)
(***************************************************************************)
EXTENDS Samples, TLC

CONSTANTS c1, c2, c3, id1  \* model values

SampleConfiguration ==
    (c1 :> [gateway |-> FALSE, se |-> TRUE, id |-> NoId, cert |-> NoPath, key |-> NoPath])
    @@ (c2 :> [gateway |-> TRUE, se |-> TRUE, id |-> NoId, cert |-> NoPath, key |-> NoPath])
    @@ (c3 :> [gateway |-> FALSE, se |-> FALSE, id |-> id1, cert |-> NoPath, key |-> NoPath])
SampleNames == {"certs"} \cup RetrievedNames
SampleDir == <<"certs">>
=============================================================================
