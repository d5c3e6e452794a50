------------------------------ MODULE Retrieval ------------------------------
(***************************************************************************)
(* What a caller of a71ch_retrieveCertificatesFromSE may rely on.          *)
(*                                                                         *)
(* A call writes some files, may spoil others (they are opened for writing *)
(* before the certificate is known to be one), and answers with the id of  *)
(* the element or with NULL.  The id is a promise: the key file is there,  *)
(* and no file is left spoilt, as far as the host took the files.  NULL    *)
(* promises nothing, and certificates that an earlier call has written may *)
(* be gone.                                                                *)
(***************************************************************************)
CONSTANT Files   \* the files a retrieval can write, "key" among them

VARIABLES
    busy,      \* a call is in progress
    answer,    \* of the last call: "none", "id" or "null"
    whole,     \* files with a complete certificate or key in them
    spoilt,    \* files that this call has cut and not completed
    refused    \* files that the host did not take from this call

vars == <<busy, answer, whole, spoilt, refused>>

Init == /\ ~busy /\ answer = "none" /\ whole = {} /\ spoilt = {} /\ refused = {}

Begin == /\ ~busy /\ busy' /\ answer' = "none" /\ spoilt' = {} /\ refused' = {}
         /\ UNCHANGED whole

Write(f) == /\ busy /\ whole' = whole \cup {f} /\ spoilt' = spoilt \ {f}
            /\ refused' = refused \ {f} /\ UNCHANGED <<busy, answer>>

Spoil(f) == /\ busy /\ whole' = whole \ {f} /\ spoilt' = spoilt \cup {f}
            /\ refused' \in {refused, refused \cup {f}} /\ UNCHANGED <<busy, answer>>

\* The host does not open a file, which stays as it was.
Omit(f) == /\ busy /\ refused' = refused \cup {f} /\ UNCHANGED <<busy, answer, whole, spoilt>>

Answer == /\ busy /\ ~busy' /\ answer' \in {"id", "null"}
          /\ answer' = "id" => "key" \in whole \cup refused /\ spoilt \subseteq refused
          /\ UNCHANGED <<whole, spoilt, refused>>

Next == Begin \/ Answer \/ \E f \in Files : Write(f) \/ Spoil(f) \/ Omit(f)

Spec == Init /\ [][Next]_vars
=============================================================================
