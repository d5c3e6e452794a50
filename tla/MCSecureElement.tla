--------------------------- MODULE MCSecureElement ---------------------------
(***************************************************************************)
(* Instances of SecureElement for TLC.                                     *)
(***************************************************************************)
EXTENDS SecureElement

\* Headers of elements: lengths in one byte, in one that follows, in two, in
\* three; the length 95, whose last bits are those of a long tag; elements that
\* just fit in objData, and just do not.
DerHead(bytes) == [i \in 1 .. 6 |-> IF i <= Len(bytes) THEN bytes[i] ELSE 255]
OneByte   == DerHead(<<48, 100>>)
Mistaken  == DerHead(<<48, 95, 7>>)
Following == DerHead(<<48, 129, 200>>)
TwoBytes  == DerHead(<<48, 130, 1, 244>>)
Fitting   == DerHead(<<48, 130, 31, 156>>)
OneOver   == DerHead(<<48, 130, 31, 157>>)
Largest   == DerHead(<<48, 130, 255, 251>>)
TooLong   == DerHead(<<48, 130, 255, 255>>)
ThreeByte == DerHead(<<48, 131, 0, 2, 0>>)

Certificate(index, header) ==
    [class |-> CERTIFICATE, index |-> index, header |-> header, x509 |-> TRUE]
Damaged(index) == [Certificate(index, TwoBytes) EXCEPT !.x509 = FALSE]
Key == [Certificate(0, TwoBytes) EXCEPT !.class = KEY_PAIR]

SampleElements == {
    <<>>,
    <<Key, Certificate(0, TwoBytes), Certificate(1, Following)>>,
    <<Certificate(1, TwoBytes), Damaged(0)>>,
    <<Certificate(0, OneByte), Certificate(2, TwoBytes), Certificate(0, ThreeByte)>>,
    <<Certificate(0, TwoBytes), Certificate(1, Fitting), Certificate(0, Following)>>,
    <<Certificate(1, TwoBytes), Certificate(0, Mistaken)>>,
    <<Certificate(1, OneOver)>>, <<Certificate(0, TwoBytes), Certificate(1, Largest)>>,
    <<Key, Key, Certificate(1, TwoBytes), Key, Certificate(0, TwoBytes), Certificate(1, TwoBytes)>>}

\* The bytes below the table: no object, or something like a certificate.
SampleGarbage == {NoEntry, Damaged(1), Certificate(1, OneByte), Certificate(0, TooLong)}
=============================================================================
