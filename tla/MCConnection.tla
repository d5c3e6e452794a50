---------------------------- MODULE MCConnection ----------------------------
(***************************************************************************)
(* Instances of Connection for TLC, and the claim of a comment that the    *)
(* code does not keep.                                                     *)
(***************************************************************************)
EXTENDS Connection, TLC

CONSTANTS c1, c2, f1, f2, uid, t1  \* model values

FileNames   == {"opt", "a71ch", "certs", "client.crt", "client.key"}
                   \cup RetrievedNames
Default     == <<"opt", "certs">>
ConfigCert  == <<"opt", "a71ch", "certs", "client.crt">>
ConfigKey   == <<"opt", "a71ch", "certs", "client.key">>
Host        == {ConfigCert, ConfigKey}
Above       == {SubSeq(ConfigCert, 1, n) : n \in 0 .. 3}

Client(gateway, se, id, cert, key) ==
    [gateway |-> gateway, se |-> se, id |-> id, cert |-> cert, key |-> key]

\* Two devices of the same type that both ask for the Secure Element.
TwoDevices == c1 :> Client(FALSE, TRUE, f1, NoPath, NoPath)
           @@ c2 :> Client(FALSE, TRUE, f2, ConfigCert, ConfigKey)

\* A gateway with the Secure Element and a device without.
GatewayAndDevice == c1 :> Client(TRUE, TRUE, NoId, NoPath, NoPath)
                 @@ c2 :> Client(FALSE, FALSE, f2, ConfigCert, ConfigKey)

OneGateway == c1 :> Client(TRUE, FALSE, f1, ConfigCert, ConfigKey)

-----------------------------------------------------------------------------
(* What a comment says, and the code does not do.                          *)

\* gatewayclient.c:174 "free memory for subscriptions - for gateways": each
\* is freed once.
TopicsFreedOnce == fault # "double_free"
=============================================================================
