------------------------------ MODULE Utilities ------------------------------
(***************************************************************************)
(* Strings as src/src/iotf_utils.c and the C library treat them where the  *)
(* configuration is read.  A string is a sequence of characters and of     *)
(* words, that is, of runs of at least two characters that nothing takes   *)
(* apart; NULL is a value of its own.                                      *)
(***************************************************************************)
EXTENDS Integers, Sequences, FiniteSetsExt

CONSTANTS
    NULL,
    Tokens  \* the characters and the words

ASSUME NullAssumption == NULL \notin Seq(Tokens)

Blank      == {" ", "\n"}          \* isspace
Characters == Blank \cup {"=", "#", ".", "0", "1", "x", "m"}

strlen(s) == Len(s) + Cardinality({p \in DOMAIN s : s[p] \notin Characters})

\* strtok(s, "="): the n-th run of s without the delimiter.
Starts(s) == {p \in DOMAIN s : s[p] # "=" /\ (p = 1 \/ s[p - 1] = "=")}
strtok(s, n) ==
    IF Cardinality(Starts(s)) < n THEN NULL
    ELSE LET first == CHOOSE p \in Starts(s) : Cardinality({q \in Starts(s) : q < p}) = n - 1
             last  == Max({p \in DOMAIN s : p >= first /\ \A q \in first .. p : s[q] # "="})
         IN  SubSeq(s, first, last)

\* The two pointers of trim.  Of a blank string, endp runs past the start.
frontp(s) == Min({Len(s) + 1} \cup {p \in DOMAIN s : s[p] \notin Blank})
endp_OneShort(s) == Max({0} \cup {p \in 1 .. Len(s) - 1 : s[p] \notin Blank \/ p = frontp(s)})
endp(s) == Max({0} \cup {p \in DOMAIN s : s[p] \notin Blank \/ p = frontp(s)})
trim(s) == IF s \in {NULL, <<>>} THEN s ELSE SubSeq(s, frontp(s), endp(s))

\* What strCopy leaves in *dest: an empty source is not copied.
strCopy_Empty(dest, src) == src
strCopy(dest, src) == IF src = <<>> THEN dest ELSE src

\* The terminator is put over the last character.
buildPath(filePath) == SubSeq(<<".">> \o filePath, 1, Len(filePath))
getServerCertPath   == buildPath(<<"/IoTFoundation.pe", "m">>)
=============================================================================
