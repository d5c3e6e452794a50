-------------------------- MODULE SecureElementProofs --------------------------
(***************************************************************************)
(* Proofs about SecureElement, for any elements, whatever lies below the   *)
(* part of the table that is read, and any lengths of the random key.      *)
(***************************************************************************)
EXTENDS SecureElement, TLAPS

-----------------------------------------------------------------------------
(* Lengths and keys.                                                       *)

\* Arithmetic in a U16; nothing else is used of its size.
LEMMA WordTyped ==
    /\ WORD \in Nat /\ WORD > 1000
    /\ \A n \in Nat : n % WORD \in 0 .. WORD - 1 /\ (n < WORD => n % WORD = n)
<1>1. WORD \in Nat /\ WORD > 1000
    BY DEF WORD
<1>2. ASSUME NEW n \in Nat
      PROVE  n % WORD \in 0 .. WORD - 1 /\ (n < WORD => n % WORD = n)
    BY <1>1
<1> QED
    BY <1>1, <1>2

\* A length that GetFileSize computes fits in its U16.
LEMMA FileSizeTyped ==
    ASSUME NEW header \in Header PROVE GetFileSize(header) \in 0 .. WORD - 1
<1> DEFINE tagLen == IF header[2] % 32 # 31 THEN 1 ELSE IF header[3] < 128 THEN 2 ELSE 3
<1>1. \A i \in 1 .. 6 : header[i] \in 0 .. 255
    BY DEF Header, Bytes
<1>2. tagLen \in 1 .. 3
    OBVIOUS
<1>3. /\ header[tagLen + 1] \in 0 .. 255 /\ header[tagLen + 2] \in 0 .. 255
      /\ header[tagLen + 3] \in 0 .. 255
    BY <1>1, <1>2
<1> HIDE DEF tagLen
<1> DEFINE l == header[tagLen + 1]
           a == header[tagLen + 2]
           b == header[tagLen + 3]
           n == a * 256 + b + 3 + tagLen
<1>4. l \in 0 .. 255 /\ a \in 0 .. 255 /\ b \in 0 .. 255
    BY <1>3
<1>5. GetFileSize(header) =
        IF l < 128 THEN l + 1 + tagLen ELSE IF l = 129 THEN a + 2 + tagLen ELSE n % WORD
    BY DEF GetFileSize, tagLen
<1> HIDE DEF l, a, b
<1>6. n \in Nat
    BY <1>2, <1>4
<1> HIDE DEF n
<1>7. n % WORD \in 0 .. WORD - 1
    BY <1>6, WordTyped
<1>8. a + 2 + tagLen \in 0 .. WORD - 1 /\ (l < 128 => l + 1 + tagLen \in 0 .. WORD - 1)
    BY <1>2, <1>4, WordTyped
<1> QED
    BY <1>5, <1>7, <1>8

\* What is read of a length is what DER says of the element.
LEMMA FileSizeIsExtent ==
    ASSUME NEW header \in Header, DerLength(header)
    PROVE  GetFileSize(header) = Extent(header)
<1>1. \A i \in 1 .. 6 : header[i] \in 0 .. 255
    BY DEF Header, Bytes
<1>2. header[2] % 32 # 31
    BY <1>1 DEF DerLength
<1>3. GetFileSize(header) =
        IF header[2] < 128 THEN header[2] + 1 + 1
        ELSE IF header[2] = 129 THEN header[3] + 2 + 1
        ELSE (header[3] * 256 + header[4] + 3 + 1) % WORD
    BY <1>2 DEF GetFileSize
<1>4. CASE header[2] = 130
    <2> DEFINE a == header[3]
               b == header[4]
               n == a * 256 + b + 3 + 1
    <2>1. a \in 0 .. 255 /\ b \in 0 .. 255
        BY <1>1
    <2>2. GetFileSize(header) = n % WORD
        BY <1>3, <1>4
    <2>3. Extent(header) = 4 + 256 * a + b /\ Extent(header) < WORD
        BY <1>4 DEF Extent, DerLength
    <2> HIDE DEF a, b
    <2>4. n \in Nat /\ n = 4 + 256 * a + b
        BY <2>1
    <2> HIDE DEF n
    <2>5. n < WORD /\ n = Extent(header)
        BY <2>3, <2>4
    <2>6. n % WORD = n
        BY <2>4, <2>5, WordTyped
    <2> QED
        BY <2>2, <2>5, <2>6
<1>5. CASE header[2] = 129
    BY <1>1, <1>3, <1>5 DEF Extent
<1>6. CASE header[2] < 128
    BY <1>1, <1>3, <1>6 DEF Extent
<1>7. header[2] = 130 \/ header[2] = 129 \/ header[2] < 128
    <2>1. header[2] \in Int /\ header[2] <= 130 /\ header[2] # 128
        BY <1>1 DEF DerLength
    <2> QED
        BY <2>1
<1> QED
    BY <1>4, <1>5, <1>6, <1>7

\* The bytes of a reference: those at its end, one by one, and those before.
IsReference(key, len) ==
    /\ key[len - 9] = 165 /\ key[len - 8] = 166 /\ key[len - 7] = 181 /\ key[len - 6] = 182
    /\ key[len - 5] = 165 /\ key[len - 4] = 166 /\ key[len - 3] = 181 /\ key[len - 2] = 182
    /\ key[len - 1] = KEY_PAIR /\ key[len] = 0
    /\ \A p \in 1 .. len - 10 : key[p] = IF p = 1 THEN 16 ELSE 0

LEMMA ReferenceKeyBytes ==
    ASSUME NEW len \in 11 .. 32 PROVE IsReference(ReferenceKey(len), len)
<1>1. /\ Magic[1] = 182 /\ Magic[2] = 181 /\ Magic[3] = 166 /\ Magic[4] = 165
    BY DEF Magic
<1> QED
    BY <1>1 DEF ReferenceKey, IsReference

LEMMA ReferenceKeyTyped ==
    ASSUME NEW len \in 11 .. 32
    PROVE  ReferenceKey(len) \in Seq(Bytes) /\ Len(ReferenceKey(len)) = len
<1>1. \A i \in 1 .. 4 : Magic[i] \in Bytes
    BY DEF Magic, Bytes
<1>2. \A p \in 1 .. len : ReferenceKey(len)[p] \in Bytes
    <2> SUFFICES ASSUME NEW p \in 1 .. len PROVE ReferenceKey(len)[p] \in Bytes
        OBVIOUS
    <2> DEFINE i == len - p + 1
    <2>1. i \in 1 .. len
        OBVIOUS
    <2>2. ReferenceKey(len)[p] \in {0, 16, KEY_PAIR} \cup {Magic[j] : j \in 1 .. 4}
        BY <2>1 DEF ReferenceKey
    <2> QED
        BY <1>1, <2>2 DEF Bytes, KEY_PAIR
<1>3. ReferenceKey(len) \in [1 .. len -> Bytes]
    BY <1>2 DEF ReferenceKey
<1> QED
    BY <1>3

-----------------------------------------------------------------------------
(* Typing.                                                                 *)

Early   == {"connect", "info", "uid", "table"}
AtEntry == {"header", "data", "file"}

\* While a certificate is read, nObj is that of its entry; the table is not
\* looked at before it has been read.
PlaceInv ==
    /\ pc \in AtEntry => /\ nObj <= Len(element) /\ Wanted(entry)
                         /\ nObj <= TABLE_READ => entry = element[nObj]
    /\ pc \in Early => nObj = 1

TypeInv == TypeOK /\ PlaceInv

\* TypeOK in three parts.
Numbers == nObj \in 1 .. 256 /\ certLength \in 0 .. WORD - 1 /\ leaked \in 0 .. MaxFiles
Control ==
    /\ pc \in Steps /\ answer \in {"none", "id", "null"}
    /\ touched \subseteq Files /\ refused \subseteq Files
    /\ failed \in BOOLEAN /\ deviceId \in BOOLEAN /\ link \in BOOLEAN /\ atr \in BOOLEAN
    /\ crash \in {"none", "null", "overflow"}
Contents ==
    /\ element \in Elements /\ entry \in Entry /\ refKey \in Seq(Bytes)
    /\ file \in [Files -> {"none", "cut", "whole"}] /\ holds \in [Files -> 0 .. 255]

LEMMA TypeParts == TypeOK <=> Numbers /\ Control /\ Contents
BY DEF TypeOK, Numbers, Control, Contents

LEMMA ElementTyped ==
    ASSUME TypeOK
    PROVE  /\ element \in Seq(Entry) /\ Len(element) \in Nat /\ Len(element) < 256
           /\ \A n \in 1 .. Len(element) : element[n] \in Entry
           /\ \A n \in 1 .. Len(element) : \A e \in EntryAt(n) : e \in Entry
<1>1. element \in Seq(Entry) /\ Len(element) < 256
    BY ElementsAssumption DEF TypeOK
<1>2. Len(element) \in Nat
    BY <1>1
<1>3. \A n \in 1 .. Len(element) : element[n] \in Entry
    BY <1>1
<1>4. ASSUME NEW n \in 1 .. Len(element), NEW e \in EntryAt(n) PROVE e \in Entry
    <2>1. CASE n <= TABLE_READ
        BY <1>3, <1>4, <2>1 DEF EntryAt
    <2>2. CASE ~(n <= TABLE_READ)
        BY <1>4, <2>2, ElementsAssumption DEF EntryAt
    <2> QED
        BY <2>1, <2>2
<1> QED
    BY <1>1, <1>2, <1>3, <1>4

LEMMA NoEntryTyped == NoEntry \in Entry
BY DEF NoEntry, Entry, Header, Bytes

LEMMA InitTyped == Init => TypeInv
<1> SUFFICES ASSUME Init PROVE TypeInv
    OBVIOUS
<1>1. Numbers
    BY WordTyped, ElementsAssumption DEF Init, Numbers
<1>2. Control
    BY DEF Init, Control, Steps
<1>3. Contents
    BY NoEntryTyped DEF Init, Contents
<1>4. PlaceInv
    BY DEF Init, PlaceInv, Early, AtEntry
<1> QED
    BY <1>1, <1>2, <1>3, <1>4, TypeParts DEF TypeInv

LEMMA NextTyped == TypeInv /\ [Next]_vars => TypeInv'
<1> SUFFICES ASSUME TypeInv, [Next]_vars PROVE TypeInv'
    OBVIOUS
<1> Numbers /\ Control /\ Contents /\ PlaceInv
    BY TypeParts DEF TypeInv
<1> SUFFICES Numbers' /\ Control' /\ Contents' /\ PlaceInv'
    BY DEF TypeInv, TypeOK, Numbers, Control, Contents
<1> USE DEF Early, AtEntry, Steps, disk, attempts, Goto, Fail
<1>1. CASE a71ch_retrieveCertificatesFromSE
    <2>1. Numbers'
        BY <1>1, WordTyped DEF a71ch_retrieveCertificatesFromSE, Numbers
    <2>3. Contents'
        BY <1>1, NoEntryTyped DEF a71ch_retrieveCertificatesFromSE, Contents
    <2>2. Control' /\ PlaceInv'
        BY <1>1 DEF a71ch_retrieveCertificatesFromSE, Control, PlaceInv
    <2> QED
        BY <2>1, <2>2, <2>3
<1>2. CASE SM_Connect
    BY <1>2 DEF SM_Connect, Numbers, Control, Contents, PlaceInv
<1>3. CASE A71_GetModuleInfo
    BY <1>3 DEF A71_GetModuleInfo, Command, Numbers, Control, Contents, PlaceInv
<1>4. CASE getDeviceId
    BY <1>4 DEF getDeviceId, Command, Numbers, Control, Contents, PlaceInv
<1>5. CASE ReadTable
    BY <1>5 DEF ReadTable, Command, Numbers, Control, Contents, PlaceInv
<1>6. CASE NextEntry
    <2>1. PICK e \in EntryAt(nObj) :
            IF Wanted(e) THEN Goto("header") /\ entry' = e /\ UNCHANGED nObj
                         ELSE nObj' = nObj + 1 /\ UNCHANGED <<pc, failed, entry>>
        BY <1>6 DEF NextEntry
    <2>2. nObj \in 1 .. Len(element) /\ nObj + 1 \in 1 .. 256
        BY <1>6, ElementTyped DEF NextEntry, TypeInv, Numbers
    <2>3. e \in Entry
        BY <2>2, ElementTyped DEF TypeInv
    <2>4. nObj <= TABLE_READ => e = element[nObj]
        BY <2>1 DEF EntryAt
    <2>5. Numbers'
        BY <1>6, <2>1, <2>2 DEF NextEntry, Numbers
    <2>7. entry' \in Entry
        BY <2>1, <2>3 DEF Contents
    <2>8. Contents'
        BY <1>6, <2>7 DEF NextEntry, Contents
    <2>6. Control' /\ PlaceInv'
        BY <1>6, <2>1, <2>2, <2>4 DEF NextEntry, Control, PlaceInv
    <2> QED
        BY <2>5, <2>6, <2>8
<1>7. CASE LastEntry
    BY <1>7 DEF LastEntry, Numbers, Control, Contents, PlaceInv
<1>8. CASE ReadHeader
    <2>1. GetFileSize(entry.header) \in 0 .. WORD - 1
        BY FileSizeTyped DEF Contents, Entry
    <2> QED
        BY <1>8, <2>1 DEF ReadHeader, Command, Numbers, Control, Contents, PlaceInv
<1>9. CASE ReadData
    BY <1>9 DEF ReadData, Numbers, Control, Contents, PlaceInv
<1>10. CASE WriteCertificate
    <2>1. fileOf(entry) \in Files
        BY DEF fileOf, Files
    <2>2. nObj + 1 \in 1 .. 256 /\ nObj \in 0 .. 255
        BY <1>10, ElementTyped DEF WriteCertificate, TypeInv, Numbers, PlaceInv
    <2>3. AnotherOpen => leaked' \in 0 .. MaxFiles
        BY ElementsAssumption DEF AnotherOpen, Numbers
    <2>4. Numbers'
        BY <1>10, <2>2, <2>3 DEF WriteCertificate, ParseFails, Numbers
    <2>5. Contents'
        <3> DEFINE f == fileOf(entry)
        <3>1. file' = file \/ file' = [file EXCEPT ![f] = "whole"] \/ file' = [file EXCEPT ![f] = "cut"]
            BY <1>10 DEF WriteCertificate, Writes, Cuts
        <3>2. holds' = holds \/ holds' = [holds EXCEPT ![f] = nObj]
            BY <1>10 DEF WriteCertificate
        <3>3. entry' = entry /\ refKey' = refKey /\ element' = element
            BY <1>10 DEF WriteCertificate
        <3>4. f \in Files
            BY <2>1
        <3> HIDE DEF f
        <3>5. file' \in [Files -> {"none", "cut", "whole"}]
            <4>1. [file EXCEPT ![f] = "whole"] \in [Files -> {"none", "cut", "whole"}]
                BY <3>4 DEF Contents
            <4>2. [file EXCEPT ![f] = "cut"] \in [Files -> {"none", "cut", "whole"}]
                BY <3>4 DEF Contents
            <4> QED
                BY <3>1, <4>1, <4>2 DEF Contents
        <3>6. holds' \in [Files -> 0 .. 255]
            <4>1. [holds EXCEPT ![f] = nObj] \in [Files -> 0 .. 255]
                BY <2>2, <3>4 DEF Contents
            <4> QED
                BY <3>2, <4>1 DEF Contents
        <3> QED
            BY <3>3, <3>5, <3>6 DEF Contents
    <2>6. Control' /\ PlaceInv'
        BY <1>10, <2>1 DEF WriteCertificate, Writes, Cuts, ParseFails, Control, PlaceInv
    <2> QED
        BY <2>4, <2>5, <2>6
<1>11. CASE getReferenceKey
    <2>1. refKey' \in Seq(Bytes)
        <3>1. \A len \in KeyLengths : ReferenceKey(len) \in Seq(Bytes)
            BY ReferenceKeyTyped, ElementsAssumption
        <3>2. <<>> \in Seq(Bytes)
            OBVIOUS
        <3>3. refKey' = refKey \/ refKey' = <<>> \/ \E len \in KeyLengths : refKey' = ReferenceKey(len)
            BY <1>11 DEF getReferenceKey
        <3> QED
            BY <3>1, <3>2, <3>3 DEF Contents
    <2>2. file' \in [Files -> {"none", "cut", "whole"}]
        <3>1. \/ file' = file \/ file' = [file EXCEPT !["key"] = "whole"]
              \/ file' = [file EXCEPT !["key"] = "cut"]
            BY <1>11 DEF getReferenceKey, Writes, Cuts
        <3> QED
            BY <3>1 DEF Contents
    <2>3. UNCHANGED <<element, nObj, entry, certLength, deviceId, atr, link, holds, leaked, answer,
                      crash>>
        BY <1>11 DEF getReferenceKey
    <2>4. Numbers' /\ Contents'
        BY <2>1, <2>2, <2>3 DEF Numbers, Contents
    <2>5. Control'
        BY <1>11, <2>3 DEF getReferenceKey, Writes, Cuts, Files, Control
    <2>6. PlaceInv'
        BY <1>11, <2>3 DEF getReferenceKey, PlaceInv
    <2> QED
        BY <2>4, <2>5, <2>6
<1>12. CASE Done
    <2>1. Numbers'
        BY <1>12 DEF Done, Numbers
    <2>2. Control'
        BY <1>12 DEF Done, SM_Close, Control
    <2>3. Contents'
        BY <1>12 DEF Done, Contents
    <2>4. PlaceInv'
        BY <1>12 DEF Done, PlaceInv
    <2> QED
        BY <2>1, <2>2, <2>3, <2>4
<1>13. CASE UNCHANGED vars
    <2>1. Numbers'
        BY <1>13 DEF vars, call, Numbers
    <2>2. Control'
        BY <1>13 DEF vars, call, Control
    <2>3. Contents'
        BY <1>13 DEF vars, call, Contents
    <2>4. PlaceInv'
        BY <1>13 DEF vars, call, PlaceInv
    <2> QED
        BY <2>1, <2>2, <2>3, <2>4
<1> QED
    BY <1>1, <1>2, <1>3, <1>4, <1>5, <1>6, <1>7, <1>8, <1>9, <1>10, <1>11, <1>12, <1>13
    DEF Next

\* The type invariant.
THEOREM TypeCorrect == Spec => []TypeOK
<1>1. Spec => []TypeInv
    BY InitTyped, NextTyped, PTL DEF Spec
<1>2. TypeInv => TypeOK
    BY DEF TypeInv
<1> QED
    BY <1>1, <1>2, PTL

-----------------------------------------------------------------------------
(* The session, the length and the key.                                    *)

\* A link is open only inside a call, and not when an ATR is missing: Done
\* would not close it.
LinkInv ==
    /\ pc \in {"idle", "connect"} => ~link
    /\ pc = "connect" => atr
    /\ ~atr => ~link

LengthInv == pc = "data" => certLength = GetFileSize(entry.header)

KeyInv == refKey # <<>> => \E len \in KeyLengths : refKey = ReferenceKey(len)

LocalInv == LinkInv /\ LengthInv /\ KeyInv

LEMMA LocalInvariant == Spec => []LocalInv
<1>1. Init => LocalInv
    BY DEF Init, LocalInv, LinkInv, LengthInv, KeyInv
<1>2. TypeInv /\ LocalInv /\ [Next]_vars => LocalInv'
    <2> SUFFICES ASSUME TypeInv, LocalInv, [Next]_vars PROVE LocalInv'
        OBVIOUS
    <2> link \in BOOLEAN /\ atr \in BOOLEAN
        BY DEF TypeInv, TypeOK
    <2> USE DEF disk, attempts, Goto, Fail
    <2>1. LinkInv'
        <3>1. CASE SM_Connect
            <4>1. atr /\ ~link /\ pc' # "idle" /\ pc' # "connect"
                BY <3>1 DEF LocalInv, LinkInv, SM_Connect
            <4>2. atr' \/ ~link'
                BY <3>1, <4>1 DEF SM_Connect
            <4> QED
                BY <4>1, <4>2, Zenon DEF LinkInv
        <3>2. CASE Done
            BY <3>2 DEF LocalInv, LinkInv, Done, SM_Close
        <3>3. CASE a71ch_retrieveCertificatesFromSE
            BY <3>3 DEF LocalInv, LinkInv, a71ch_retrieveCertificatesFromSE
        <3>4. CASE WriteCertificate
            BY <3>4 DEF LocalInv, LinkInv, WriteCertificate, ParseFails
        <3>5. CASE getReferenceKey
            BY <3>5 DEF LocalInv, LinkInv, getReferenceKey
        <3>6. CASE \/ A71_GetModuleInfo \/ getDeviceId \/ ReadTable \/ NextEntry
                   \/ LastEntry \/ ReadHeader \/ ReadData
            BY <3>6 DEF LocalInv, LinkInv, A71_GetModuleInfo, getDeviceId, ReadTable,
                        NextEntry, LastEntry, ReadHeader, ReadData, Command
        <3>7. CASE UNCHANGED vars
            BY <3>7 DEF LocalInv, LinkInv, vars, call
        <3> QED
            BY <3>1, <3>2, <3>3, <3>4, <3>5, <3>6, <3>7 DEF Next
    <2>2. LengthInv'
        BY DEF LocalInv, LengthInv, Next, vars, call, a71ch_retrieveCertificatesFromSE,
               SM_Connect, A71_GetModuleInfo, getDeviceId, ReadTable, NextEntry, LastEntry,
               ReadHeader, ReadData, WriteCertificate, ParseFails, getReferenceKey, Done,
               Command
    <2>3. KeyInv'
        BY DEF LocalInv, KeyInv, Next, vars, call, a71ch_retrieveCertificatesFromSE,
               SM_Connect, A71_GetModuleInfo, getDeviceId, ReadTable, NextEntry, LastEntry,
               ReadHeader, ReadData, WriteCertificate, getReferenceKey, Done
    <2> QED
        BY <2>1, <2>2, <2>3 DEF LocalInv
<1>3. Spec => []TypeInv
    BY InitTyped, NextTyped, PTL DEF Spec
<1> QED
    BY <1>1, <1>2, <1>3, PTL DEF Spec

\* Whatever fails, a call that has ended has closed its session.
THEOREM SessionClosed == Spec => []ElementReleased
<1>1. LocalInv => ElementReleased
    BY DEF LocalInv, LinkInv, ElementReleased
<1> QED
    BY <1>1, LocalInvariant, PTL

\* The length read of a certificate is the one that its DER header states, for
\* every header with a length in one, two or three bytes.
THEOREM LengthRead == Spec => []CertificateLength
<1>1. TypeOK /\ LocalInv => CertificateLength
    <2> SUFFICES ASSUME TypeOK, LocalInv, pc = "data", DerLength(entry.header)
                 PROVE  certLength = Extent(entry.header)
        BY DEF CertificateLength
    <2>1. entry.header \in Header
        BY DEF TypeOK, Entry
    <2> QED
        BY <2>1, FileSizeIsExtent DEF LocalInv, LengthInv
<1> QED
    BY <1>1, LocalInvariant, TypeCorrect, PTL

\* Nothing of the random key is left in the key file, whatever its length.
THEOREM KeyIsReference == Spec => []ReferenceOnly
<1>1. LocalInv => ReferenceOnly
    <2> SUFFICES ASSUME LocalInv, refKey # <<>> PROVE ReferenceOnly
        BY DEF ReferenceOnly
    <2>1. PICK len \in KeyLengths : refKey = ReferenceKey(len)
        BY DEF LocalInv, KeyInv
    <2>2. len \in 11 .. 32
        BY ElementsAssumption
    <2>3. Len(refKey) = len /\ refKey \in Seq(Bytes)
        BY <2>1, <2>2, ReferenceKeyTyped
    <2> DEFINE tail == SubSeq(refKey, len - 9, len)
               mark == <<165, 166, 181, 182, 165, 166, 181, 182, KEY_PAIR, 0>>
    <2>4. IsReference(refKey, len)
        BY <2>1, <2>2, ReferenceKeyBytes
    <2>5. tail = [i \in 1 .. 10 |-> refKey[len - 10 + i]]
        BY <2>2, <2>3
    <2>6. \A i \in 1 .. 10 : refKey[len - 10 + i] = mark[i]
        <3>1. /\ refKey[len - 9] = 165 /\ refKey[len - 8] = 166
              /\ refKey[len - 7] = 181 /\ refKey[len - 6] = 182
              /\ refKey[len - 5] = 165 /\ refKey[len - 4] = 166
              /\ refKey[len - 3] = 181 /\ refKey[len - 2] = 182
              /\ refKey[len - 1] = KEY_PAIR /\ refKey[len] = 0
            BY <2>4 DEF IsReference
        <3>2. /\ len - 10 + 1 = len - 9 /\ len - 10 + 2 = len - 8 /\ len - 10 + 3 = len - 7
              /\ len - 10 + 4 = len - 6 /\ len - 10 + 5 = len - 5 /\ len - 10 + 6 = len - 4
              /\ len - 10 + 7 = len - 3 /\ len - 10 + 8 = len - 2 /\ len - 10 + 9 = len - 1
              /\ len - 10 + 10 = len
            BY <2>2
        <3> QED
            BY <3>1, <3>2
    <2>7. tail = mark
        <3>1. tail = [i \in 1 .. 10 |-> mark[i]]
            BY <2>5, <2>6
        <3>2. mark = [i \in 1 .. 10 |-> mark[i]]
            OBVIOUS
        <3> QED
            BY <3>1, <3>2
    <2> QED
        BY <2>3, <2>4, <2>7 DEF IsReference, ReferenceOnly
<1> QED
    BY <1>1, LocalInvariant, PTL

-----------------------------------------------------------------------------
(* The files of a call.                                                    *)

Failed    == pc = "done" /\ failed
Completed == pc = "done" /\ ~failed
Scanning  == pc \in {"entry", "key"} \cup AtEntry \/ Completed

\* The entries before the nth, in the part that is read, with a certificate
\* for a file.
Before(n, f) == {m \in 1 .. Len(element) : /\ m < n /\ m <= TABLE_READ /\ Wanted(element[m])
                                           /\ fileOf(element[m]) = f}

\* What a file holds is the last of them, or something below the table.
Holds(n, f) ==
    \/ holds[f] \in Before(n, f) /\ \A m \in Before(n, f) : m <= holds[f]
    \/ holds[f] \in TABLE_READ + 1 .. Len(element)
Retrieved(n) ==
    \A f \in {"device", "gateway"} \ refused :
        Before(n, f) # {} => f \in touched /\ Holds(n, f)

\* A call that goes on has left no file cut but those that the host refused,
\* and has passed over no entry; what an id says of the files is true until the
\* next call.
AllWhole  == \A f \in touched \ refused : file[f] = "whole"
WholeInv  == pc # "idle" /\ ~Failed => AllWhole
KeyDone   == Completed => "key" \in refused \/ file["key"] = "whole"
ScanInv   == Scanning => Retrieved(nObj)
LastInv   == pc = "key" \/ Completed => nObj > Len(element)
AnswerInv == answer = "id" => Retrieved(nObj) /\ nObj > Len(element) /\ AllWhole

FilesInv ==
    /\ pc # "idle" => answer # "id"
    /\ WholeInv /\ KeyDone /\ ScanInv /\ LastInv /\ AnswerInv

\* A step that fails, or that leaves the files alone and does not go past an
\* entry, keeps the invariant.
LEMMA FailKeeps ==
    ASSUME FilesInv, pc # "idle", pc' = "done", failed', answer' = answer
    PROVE  FilesInv'
BY DEF FilesInv, WholeInv, KeyDone, ScanInv, LastInv, AnswerInv, Failed, Completed,
       Scanning, AtEntry

LEMMA StepKeeps ==
    ASSUME FilesInv, pc # "idle", ~Failed,
           pc' \in {"info", "uid", "table"} \/ (Scanning /\ pc' \in {"entry", "header", "data", "file"}),
           UNCHANGED <<element, nObj, touched, refused, file, holds, answer>>
    PROVE  FilesInv'
<1>1. pc' \notin {"idle", "key", "done"}
    OBVIOUS
<1>2. WholeInv'
    BY DEF FilesInv, WholeInv, AllWhole
<1>3. KeyDone' /\ LastInv' /\ ~Completed'
    BY <1>1 DEF KeyDone, LastInv, Completed
<1>4. ScanInv'
    BY DEF FilesInv, ScanInv, Scanning, Completed, AtEntry, Retrieved, Holds, Before
<1>5. answer' # "id"
    BY DEF FilesInv
<1> QED
    BY <1>1, <1>2, <1>3, <1>4, <1>5 DEF FilesInv, AnswerInv

\* The entry that is passed over, or whose certificate is written, is added.
LEMMA OneMoreBefore ==
    ASSUME NEW n \in Nat, NEW f
    PROVE  /\ \A m \in Before(n + 1, f) : m \in Before(n, f) \/ m = n
           /\ Before(n, f) \subseteq Before(n + 1, f)
           /\ \A m \in Before(n, f) : m \in Nat /\ m < n
           /\ n \in Before(n + 1, f) <=> /\ n \in 1 .. Len(element) /\ n <= TABLE_READ
                                        /\ Wanted(element[n]) /\ fileOf(element[n]) = f
BY DEF Before

LEMMA FilesInvariant == Spec => []FilesInv
<1>1. Init => FilesInv
    BY DEF Init, FilesInv, WholeInv, AllWhole, KeyDone, ScanInv, LastInv, AnswerInv, Completed,
           Scanning, AtEntry
<1>2. TypeInv /\ FilesInv /\ [Next]_vars => FilesInv'
    <2> SUFFICES ASSUME TypeInv, FilesInv, [Next]_vars PROVE FilesInv'
        OBVIOUS
    <2>0. /\ Len(element) \in Nat /\ nObj \in 1 .. 256 /\ failed \in BOOLEAN
          /\ file \in [Files -> {"none", "cut", "whole"}] /\ touched \subseteq Files
          /\ holds \in [Files -> 0 .. 255] /\ refused \subseteq Files /\ PlaceInv
        BY ElementTyped DEF TypeInv, TypeOK
    <2>1. CASE a71ch_retrieveCertificatesFromSE
        BY <2>1 DEF a71ch_retrieveCertificatesFromSE, disk, FilesInv, WholeInv, AllWhole, KeyDone,
               ScanInv, LastInv, AnswerInv, Completed, Scanning, AtEntry
    <2>2. CASE SM_Connect
        <3>1. /\ pc # "idle" /\ ~Failed
              /\ UNCHANGED <<element, nObj, touched, refused, file, holds, answer>>
            BY <2>2 DEF SM_Connect, disk, attempts, Failed
        <3>2. pc' = "info" \/ (pc' = "done" /\ failed')
            BY <2>2 DEF SM_Connect, Goto, Fail
        <3> QED
            BY <3>1, <3>2, FailKeeps, StepKeeps
    <2>3. CASE A71_GetModuleInfo \/ getDeviceId \/ ReadHeader \/ ReadData
        <3>1. /\ pc # "idle" /\ ~Failed
              /\ UNCHANGED <<element, nObj, touched, refused, file, holds, answer>>
            BY <2>3 DEF A71_GetModuleInfo, getDeviceId, ReadHeader, ReadData, disk, attempts, Failed
        <3>2. \/ pc' \in {"uid", "table"}
              \/ Scanning /\ pc' \in {"data", "file"}
              \/ pc' = "done" /\ failed'
            BY <2>3 DEF A71_GetModuleInfo, getDeviceId, ReadHeader, ReadData, Command,
                        Goto, Fail, Scanning, AtEntry
        <3> QED
            BY <3>1, <3>2, FailKeeps, StepKeeps
    <2>4. CASE ReadTable
        <3>1. pc = "table" /\ UNCHANGED <<element, nObj, touched, refused, file, holds, answer>>
            BY <2>4 DEF ReadTable, disk, attempts
        <3>2. CASE pc' = "entry"
            <4>1. nObj' = 1
                BY <3>1, <2>0 DEF PlaceInv, Early
            <4>2. Retrieved(nObj)'
                BY <4>1 DEF Retrieved, Before
            <4> QED
                BY <4>2, <3>1, <3>2 DEF FilesInv, WholeInv, AllWhole, KeyDone, ScanInv, LastInv,
                       AnswerInv, Failed, Completed
        <3>3. pc' = "entry" \/ (pc' = "done" /\ failed')
            BY <2>4 DEF ReadTable, Command, Goto, Fail
        <3> QED
            BY <3>1, <3>2, <3>3, FailKeeps
    <2>5. CASE NextEntry
        <3>1. pc = "entry" /\ nObj <= Len(element)
              /\ UNCHANGED <<element, touched, refused, file, holds, answer>>
            BY <2>5 DEF NextEntry, disk, attempts
        <3>2. PICK e \in EntryAt(nObj) :
                IF Wanted(e) THEN Goto("header") /\ entry' = e /\ UNCHANGED nObj
                             ELSE nObj' = nObj + 1 /\ UNCHANGED <<pc, failed, entry>>
            BY <2>5 DEF NextEntry
        <3>3. CASE Wanted(e)
            <4>1. pc' = "header" /\ nObj' = nObj
                BY <3>2, <3>3 DEF Goto
            <4> QED
                BY <3>1, <4>1, StepKeeps DEF Scanning, Failed
        <3>4. CASE ~Wanted(e)
            <4>1. pc' = pc /\ nObj' = nObj + 1
                BY <3>2, <3>4
            <4>2. nObj <= TABLE_READ => ~Wanted(element[nObj])
                BY <3>4 DEF EntryAt
            <4>3. \A f : Before(nObj + 1, f) = Before(nObj, f)
                BY <2>0, <4>2 DEF Before
            <4>4. Retrieved(nObj)
                BY <3>1 DEF FilesInv, ScanInv, Scanning
            <4>5. Retrieved(nObj)'
                <5> SUFFICES ASSUME NEW g \in {"device", "gateway"} \ refused,
                                    Before(nObj + 1, g) # {}
                             PROVE  g \in touched /\ Holds(nObj + 1, g)
                    BY <3>1, <4>1 DEF Retrieved, Holds, Before
                <5>1. Before(nObj + 1, g) = Before(nObj, g)
                    BY <4>3
                <5>2. g \in touched /\ Holds(nObj, g)
                    BY <4>4, <5>1 DEF Retrieved
                <5> QED
                    BY <5>1, <5>2 DEF Holds
            <4> QED
                BY <3>1, <4>1, <4>5 DEF FilesInv, WholeInv, AllWhole, KeyDone, ScanInv, LastInv,
                       AnswerInv, Failed, Completed, Scanning
        <3> QED
            BY <3>3, <3>4
    <2>6. CASE LastEntry
        <3>1. pc = "entry" /\ nObj > Len(element) /\ pc' = "key"
              /\ UNCHANGED <<element, nObj, touched, refused, file, holds, answer>>
            BY <2>6 DEF LastEntry, disk, attempts, Goto
        <3> QED
            BY <3>1 DEF FilesInv, WholeInv, AllWhole, KeyDone, ScanInv, LastInv, AnswerInv, Failed,
                   Completed, Scanning, Retrieved, Holds, Before
    <2>7. CASE WriteCertificate
        <3> DEFINE f == fileOf(entry)
        <3>1. pc = "file" /\ answer' = answer /\ element' = element
            BY <2>7 DEF WriteCertificate
        <3>2. f \in {"device", "gateway"} /\ f \in Files
            BY DEF fileOf, Files
        <3>3. CASE pc' = "done" /\ failed'
            BY <3>1, <3>3, FailKeeps
        <3>4. CASE UNCHANGED <<pc, nObj, touched, refused, file, holds>>
            BY <3>1, <3>4, StepKeeps DEF Failed, Scanning, AtEntry
        <3>5. ASSUME touched' = touched \cup {f}, pc' = "entry", nObj' = nObj + 1,
                     \/ /\ file' = [file EXCEPT ![f] = "whole"] /\ refused' = refused \ {f}
                        /\ holds' = [holds EXCEPT ![f] = nObj]
                     \/ /\ file' = [file EXCEPT ![f] = "cut"] /\ refused' = refused \cup {f}
                        /\ holds' = holds
              PROVE  FilesInv'
            <4>1. /\ nObj \in 1 .. Len(element) /\ Wanted(entry)
                  /\ nObj <= TABLE_READ => entry = element[nObj]
                BY <2>0, <3>1 DEF PlaceInv, AtEntry
            <4>2. Retrieved(nObj) /\ AllWhole /\ answer # "id"
                BY <3>1 DEF FilesInv, WholeInv, Failed, ScanInv, Scanning, AtEntry
            <4>3. AllWhole'
                BY <2>0, <3>2, <3>5, <4>2 DEF AllWhole
            <4>4. Retrieved(nObj)'
                <5> SUFFICES ASSUME NEW g \in {"device", "gateway"} \ refused',
                                    Before(nObj + 1, g) # {}
                             PROVE  g \in touched' /\ Holds(nObj, g)'
                    BY <3>1, <3>5 DEF Retrieved, Before
                <5>0. Before(nObj, g)' = Before(nObj + 1, g) /\ g \in Files /\ nObj \in Nat
                    BY <2>0, <3>1, <3>5 DEF Before, Files
                <5>1. CASE g = f
                    <6>1. holds'[g] = nObj /\ g \in touched'
                        BY <2>0, <3>2, <3>5, <5>1
                    <6>2. CASE nObj <= TABLE_READ
                        <7>1. nObj \in Before(nObj + 1, g)
                            BY <4>1, <5>0, <5>1, <6>2, OneMoreBefore
                        <7>2. \A m \in Before(nObj + 1, g) : m <= nObj
                            BY <5>0, OneMoreBefore
                        <7> QED
                            BY <5>0, <6>1, <7>1, <7>2 DEF Holds
                    <6>3. CASE ~(nObj <= TABLE_READ)
                        <7>1. nObj \in TABLE_READ + 1 .. Len(element)
                            BY <4>1, <6>3 DEF TABLE_READ
                        <7> QED
                            BY <3>1, <6>1, <7>1 DEF Holds
                    <6> QED
                        BY <6>2, <6>3
                <5>2. CASE g # f
                    <6>1. g \notin refused /\ holds'[g] = holds[g]
                        BY <2>0, <3>2, <3>5, <5>0, <5>2
                    <6>2. Before(nObj + 1, g) = Before(nObj, g)
                        <7>1. nObj \notin Before(nObj + 1, g)
                            BY <4>1, <5>0, <5>2, OneMoreBefore
                        <7>2. Before(nObj + 1, g) \subseteq Before(nObj, g)
                            BY <5>0, <7>1, OneMoreBefore
                        <7>3. Before(nObj, g) \subseteq Before(nObj + 1, g)
                            BY <5>0, OneMoreBefore
                        <7> QED
                            BY <7>2, <7>3
                    <6>3. g \in touched /\ Holds(nObj, g)
                        BY <4>2, <6>1, <6>2 DEF Retrieved
                    <6> QED
                        BY <3>1, <3>5, <5>0, <6>1, <6>2, <6>3 DEF Holds
                <5> QED
                    BY <5>1, <5>2
            <4> QED
                BY <3>1, <3>5, <4>2, <4>3, <4>4 DEF FilesInv, WholeInv, KeyDone, ScanInv, LastInv,
                       AnswerInv, Completed
        <3>6. \/ pc' = "done" /\ failed'
              \/ UNCHANGED <<pc, nObj, touched, refused, file, holds>>
              \/ /\ touched' = touched \cup {f} /\ pc' = "entry" /\ nObj' = nObj + 1
                 /\ \/ /\ file' = [file EXCEPT ![f] = "whole"] /\ refused' = refused \ {f}
                       /\ holds' = [holds EXCEPT ![f] = nObj]
                    \/ /\ file' = [file EXCEPT ![f] = "cut"] /\ refused' = refused \cup {f}
                       /\ holds' = holds
            BY <2>7 DEF WriteCertificate, Writes, Cuts, ParseFails, Goto, Fail, attempts
        <3> QED
            BY <3>3, <3>4, <3>5, <3>6
    <2>8. CASE getReferenceKey
        <3>1. pc = "key" /\ UNCHANGED <<element, nObj, holds, answer>>
            BY <2>8 DEF getReferenceKey
        <3>2. CASE pc' = "done" /\ failed'
            BY <3>1, <3>2, FailKeeps
        <3>3. CASE /\ pc' = "done" /\ ~failed'
                   /\ \/ /\ touched' = touched \cup {"key"} /\ refused' = refused \ {"key"}
                         /\ file' = [file EXCEPT !["key"] = "whole"]
                      \/ /\ touched' \in {touched, touched \cup {"key"}}
                         /\ refused' = refused \cup {"key"}
                         /\ file' \in {file, [file EXCEPT !["key"] = "cut"]}
            <4>1. Retrieved(nObj) /\ AllWhole /\ answer # "id" /\ nObj > Len(element)
                BY <3>1 DEF FilesInv, WholeInv, Failed, ScanInv, Scanning, LastInv
            <4>2. AllWhole' /\ KeyDone'
                BY <2>0, <3>3, <4>1 DEF AllWhole, KeyDone, Files
            <4>3. Retrieved(nObj)'
                <5> SUFFICES ASSUME NEW g \in {"device", "gateway"} \ refused', Before(nObj, g) # {}
                             PROVE  g \in touched' /\ Holds(nObj, g)'
                    BY <3>1 DEF Retrieved, Before
                <5>1. g \notin refused
                    BY <3>3
                <5>2. g \in touched /\ Holds(nObj, g)
                    BY <4>1, <5>1 DEF Retrieved
                <5>3. g \in touched'
                    BY <3>3, <5>2
                <5>4. Holds(nObj, g)'
                    BY <3>1, <5>2 DEF Holds, Before
                <5> QED
                    BY <5>3, <5>4
            <4> QED
                BY <3>1, <3>3, <4>1, <4>2, <4>3 DEF FilesInv, WholeInv, ScanInv, LastInv, AnswerInv
        <3>4. \/ pc' = "done" /\ failed'
              \/ /\ pc' = "done" /\ ~failed'
                 /\ \/ /\ touched' = touched \cup {"key"} /\ refused' = refused \ {"key"}
                       /\ file' = [file EXCEPT !["key"] = "whole"]
                    \/ /\ touched' \in {touched, touched \cup {"key"}}
                       /\ refused' = refused \cup {"key"}
                       /\ file' \in {file, [file EXCEPT !["key"] = "cut"]}
            BY <2>8 DEF getReferenceKey, Writes, Cuts, Goto, Fail
        <3> QED
            BY <3>2, <3>3, <3>4
    <2>9. CASE Done
        <3>1. /\ pc = "done" /\ pc' = "idle" /\ (answer' = "id" => ~failed)
              /\ UNCHANGED <<element, nObj, touched, refused, file, holds>>
            BY <2>9 DEF Done, disk, attempts
        <3> QED
            BY <3>1 DEF FilesInv, WholeInv, AllWhole, KeyDone, ScanInv, LastInv, AnswerInv, Failed,
                   Completed, Scanning, AtEntry, Retrieved, Holds, Before
    <2>10. CASE UNCHANGED vars
        BY <2>10 DEF vars, call, disk, attempts, FilesInv, WholeInv, AllWhole, KeyDone, ScanInv,
               LastInv, AnswerInv, Failed, Completed, Scanning, Retrieved, Holds, Before
    <2> QED
        BY <2>1, <2>2, <2>3, <2>4, <2>5, <2>6, <2>7, <2>8, <2>9, <2>10 DEF Next
<1>3. Spec => []TypeInv
    BY InitTyped, NextTyped, PTL DEF Spec
<1> QED
    BY <1>1, <1>2, <1>3, PTL DEF Spec

\* The largest number of a set is the one that no other is above.
LEMMA MaxIs ==
    ASSUME NEW S \in SUBSET Nat, NEW x \in S, \A y \in S : y <= x
    PROVE  Max(S) = x
<1>1. \A z \in S : (\A y \in S : z >= y) => z = x
    OBVIOUS
<1> QED
    BY <1>1 DEF Max

\* With an id, each certificate's file that the host took holds the last
\* certificate for it of the part of the table that is read, or something found
\* below a table with more entries than that: for every element.
THEOREM CertificatesRetrieved == Spec => []AllRetrieved
<1>1. TypeOK /\ FilesInv => AllRetrieved
    <2> SUFFICES ASSUME TypeOK, FilesInv, answer = "id", NEW f \in {"device", "gateway"} \ refused,
                        {n \in 1 .. Len(element) : /\ n <= TABLE_READ /\ Wanted(element[n])
                                                   /\ fileOf(element[n]) = f} # {}
                 PROVE  /\ f \in touched /\ file[f] = "whole"
                        /\ \/ holds[f] = Max({n \in 1 .. Len(element) :
                                                 /\ n <= TABLE_READ /\ Wanted(element[n])
                                                 /\ fileOf(element[n]) = f})
                           \/ holds[f] \in TABLE_READ + 1 .. Len(element)
        BY DEF AllRetrieved
    <2>1. nObj \in Int /\ Len(element) \in Nat
        BY ElementTyped DEF TypeOK
    <2>2. Retrieved(nObj) /\ nObj > Len(element) /\ AllWhole
        BY DEF FilesInv, AnswerInv
    <2>3. Before(nObj, f) = {n \in 1 .. Len(element) : /\ n <= TABLE_READ /\ Wanted(element[n])
                                                      /\ fileOf(element[n]) = f}
        BY <2>1, <2>2 DEF Before
    <2>4. f \in touched /\ Holds(nObj, f)
        BY <2>2, <2>3 DEF Retrieved
    <2>5. file[f] = "whole"
        BY <2>2, <2>4 DEF AllWhole
    <2>6. holds[f] \in Before(nObj, f) /\ (\A m \in Before(nObj, f) : m <= holds[f])
            => holds[f] = Max(Before(nObj, f))
        <3>1. Before(nObj, f) \in SUBSET Nat
            BY DEF Before
        <3> QED
            BY <3>1, MaxIs
    <2> QED
        BY <2>3, <2>4, <2>5, <2>6 DEF Holds
<1> QED
    BY <1>1, FilesInvariant, TypeCorrect, PTL

-----------------------------------------------------------------------------
(* The refinement.                                                         *)

LEMMA InitRefines == Init => R!Init
BY DEF Init, R!Init

LEMMA NextRefines == TypeInv /\ FilesInv /\ [Next]_vars => [R!Next]_(R!vars)
<1> SUFFICES ASSUME TypeInv, FilesInv, [Next]_vars PROVE R!Next \/ UNCHANGED R!vars
    BY DEF R!vars
<1>0. /\ file \in [Files -> {"none", "cut", "whole"}] /\ touched \subseteq Files
      /\ refused \subseteq Files /\ failed \in BOOLEAN
    BY DEF TypeInv, TypeOK
<1>1. CASE a71ch_retrieveCertificatesFromSE
    <2>1. R!Begin
        BY <1>1 DEF a71ch_retrieveCertificatesFromSE, disk, R!Begin
    <2> QED
        BY <2>1 DEF R!Next
<1>2. CASE \/ SM_Connect \/ A71_GetModuleInfo \/ getDeviceId \/ ReadTable \/ NextEntry
           \/ LastEntry \/ ReadHeader \/ ReadData
    <2>1. pc # "idle" /\ pc' # "idle" /\ UNCHANGED <<touched, refused, file, answer>>
        BY <1>2 DEF SM_Connect, A71_GetModuleInfo, getDeviceId, ReadTable, NextEntry,
                    LastEntry, ReadHeader, ReadData, Command, Goto, Fail, disk, attempts
    <2> QED
        BY <2>1 DEF R!vars
<1>3. ASSUME NEW f \in Files, pc # "idle", pc' # "idle", answer' = answer, Writes(f)
      PROVE  R!Next
    BY <1>0, <1>3 DEF Writes, R!Next, R!Write
<1>4. ASSUME NEW f \in Files, pc # "idle", pc' # "idle", answer' = answer, Cuts(f),
             refused' \in {refused, refused \cup {f}}
      PROVE  R!Next
    BY <1>0, <1>4 DEF Cuts, R!Next, R!Spoil
<1>5. ASSUME NEW f \in Files, pc # "idle", pc' # "idle", refused' = refused \cup {f},
             UNCHANGED <<touched, file, answer>>
      PROVE  R!Next
    BY <1>5 DEF R!Next, R!Omit
<1>6. CASE WriteCertificate
    <2>1. pc # "idle" /\ pc' # "idle" /\ answer' = answer /\ fileOf(entry) \in Files
        BY <1>6 DEF WriteCertificate, ParseFails, Goto, Fail, fileOf, Files
    <2>2. \/ Writes(fileOf(entry))
          \/ /\ Cuts(fileOf(entry))
             /\ refused' \in {refused, refused \cup {fileOf(entry)}}
          \/ UNCHANGED <<touched, refused, file>>
        BY <1>6 DEF WriteCertificate, attempts
    <2>3. CASE UNCHANGED <<touched, refused, file>>
        BY <2>1, <2>3 DEF R!vars
    <2> QED
        BY <2>1, <2>2, <2>3, <1>3, <1>4
<1>7. CASE getReferenceKey
    <2>1. pc # "idle" /\ pc' # "idle" /\ answer' = answer /\ "key" \in Files
        BY <1>7 DEF getReferenceKey, Goto, Fail, Files
    <2>2. \/ Writes("key")
          \/ Cuts("key") /\ refused' = refused \cup {"key"}
          \/ refused' = refused \cup {"key"} /\ UNCHANGED <<touched, file>>
          \/ UNCHANGED <<touched, refused, file>>
        BY <1>7 DEF getReferenceKey, attempts
    <2>3. CASE UNCHANGED <<touched, refused, file>>
        BY <2>1, <2>3 DEF R!vars
    <2> QED
        BY <2>1, <2>2, <2>3, <1>3, <1>4, <1>5
<1>8. CASE Done
    <2>1. /\ pc = "done" /\ pc' = "idle" /\ answer' \in {"id", "null"}
          /\ answer' = "id" => ~failed
          /\ UNCHANGED <<touched, refused, file>>
        BY <1>8 DEF Done, disk, attempts
    <2>2. answer' = "id" => /\ "key" \in refused \/ file["key"] = "whole"
                            /\ \A f \in touched \ refused : file[f] = "whole"
        BY <2>1 DEF FilesInv, WholeInv, AllWhole, KeyDone, Failed, Completed
    <2>3. R!Answer
        BY <1>0, <2>1, <2>2 DEF R!Answer, Files
    <2> QED
        BY <2>3 DEF R!Next
<1>9. CASE UNCHANGED vars
    BY <1>9 DEF vars, call, disk, attempts, R!vars
<1> QED
    BY <1>1, <1>2, <1>6, <1>7, <1>8, <1>9 DEF Next

\* The retrieval implements its abstraction: an id comes only with the key in
\* place and no file left cut, but for files that the host refused, which the
\* call does not notice.
THEOREM RetrievalImplemented == Spec => Promise
<1>1. Spec => []TypeInv
    BY InitTyped, NextTyped, PTL DEF Spec
<1> QED
    BY <1>1, InitRefines, NextRefines, FilesInvariant, PTL DEF Spec, Promise, R!Spec
=============================================================================
