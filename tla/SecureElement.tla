---------------------------- MODULE SecureElement ----------------------------
(***************************************************************************)
(* a71ch_retrieveCertificatesFromSE of src/src/a71chRetrieveCertificates.c,*)
(* with what it calls: the certificates of a Secure Element are found in   *)
(* its table of objects, and written to files together with a key that     *)
(* refers to the one inside the element.                                   *)
(*                                                                         *)
(* A step is one command to the element, or the writing of one file; any   *)
(* command may fail.  connectiotf calls it again as often as it has to, so *)
(* that files of an earlier call are there when the next one runs.         *)
(*                                                                         *)
(* The element itself is external: Elements are the contents it may have.  *)
(* The host may refuse a file: it cannot be opened, where the directory is *)
(* missing or not writable, or not all of it can be written.               *)
(*                                                                         *)
(* Left out: the id's text, names of files, the public key, printing,      *)
(* malloc without memory.                                                  *)
(***************************************************************************)
EXTENDS Integers, Sequences, FiniteSetsExt

CONSTANTS
    Elements,     \* the tables of objects an element may have
    Garbage,      \* what bytes beside the part of the table that is read,
                  \* taken for an entry, may look like
    KeyLengths,   \* lengths of the random key before it is overwritten
    MaxFiles      \* the count of files that stay open saturates here

Bytes == 0 .. 255
Files == {"device", "gateway", "key"}
CERTIFICATE == 9  \* OBJECT_CLASS(HLSE_CERTIFICATE)
KEY_PAIR    == 48 \* A71CH_SSI_KEY_PAIR
TABLE_READ  == 5  \* entries that fit in the 32 bytes read, after their count
OBJ_DATA    == 8096 \* bytes that fit in objData

Header == [1 .. 6 -> Bytes]
Entry  == [class : Bytes, index : Bytes, header : Header, x509 : BOOLEAN]

ASSUME ElementsAssumption ==
    /\ \A element \in Elements : element \in Seq(Entry) /\ Len(element) < 256
    /\ Garbage \subseteq Entry /\ KeyLengths \subseteq 11 .. 32 /\ MaxFiles \in Nat

VARIABLES
    element,     \* the entries of the table, as the code counts them
    pc,          \* where the call is; "idle" between calls
    nObj,        \* the entry looked at
    entry,       \* its class, index and certificate
    certLength,  \* bytes to be read of it
    failed,      \* retCode # 0
    deviceId,    \* whether deviceId # NULL
    link,        \* a session with the element is open
    atr,         \* AtrLen > 0
    file,        \* per file: "none", "cut" (opened, not completed), "whole"
    holds,       \* per certificate: the place in the table of the one it holds
    refKey,      \* the bytes of the key file
    touched,     \* files that this call has opened
    refused,     \* files that the host did not take, when this call last wrote them
    leaked,      \* files that stay open
    answer,      \* what the last call returned: "none", "id", "null"
    crash        \* "none", "null" (a FILE pointer was NULL), "overflow" (of objData)

attempts == <<touched, refused>>
call  == <<pc, nObj, entry, certLength, failed, deviceId, atr, attempts>>
disk  == <<file, holds, refKey, leaked>>
vars  == <<element, call, link, disk, answer, crash>>

-----------------------------------------------------------------------------
(* Lengths and keys.                                                       *)

WORD == 65536  \* the values of a U16

\* GetFileSize, with the element's first byte at 1; U16 arithmetic.
GetFileSize_TagOnly(header) == (header[3] * 256 + header[4] + 4) % WORD
GetFileSize_Unbounded(header) ==
    IF header[2] < 128 THEN header[2] + 2
    ELSE IF header[2] = 129 THEN header[3] + 3 ELSE header[3] * 256 + header[4] + 4
GetFileSize(header) ==
    LET tagLen == IF header[2] % 32 # 31 THEN 1 ELSE IF header[3] < 128 THEN 2 ELSE 3
        length == header[tagLen + 1]
    IN  IF length < 128 THEN length + 1 + tagLen
        ELSE IF length = 129 THEN header[tagLen + 2] + 2 + tagLen
        ELSE (header[tagLen + 2] * 256 + header[tagLen + 3] + 3 + tagLen) % WORD

\* The length of a DER element, for lengths of up to three bytes.
Extent(header) ==
    IF header[2] < 128 THEN 2 + header[2]
    ELSE IF header[2] = 129 THEN 3 + header[3]
    ELSE IF header[2] = 130 THEN 4 + 256 * header[3] + header[4]
    ELSE 5 + 65536 * header[3] + 256 * header[4] + header[5]

\* The key file: a private key of which getReferenceKey keeps no byte.
Magic == <<182, 181, 166, 165>>
ReferenceKey_Short(len) ==
    [p \in 1 .. len |-> LET i == len - p + 1
                        IN  IF i = 1 THEN 0 ELSE IF i = 2 THEN KEY_PAIR
                            ELSE IF i \in 3 .. 6 THEN Magic[i - 2]
                            ELSE IF i \in 7 .. 9 THEN Magic[i - 6]
                            ELSE IF p = 1 THEN 16 ELSE 0]
ReferenceKey(len) ==
    [p \in 1 .. len |-> LET i == len - p + 1
                        IN  IF i = 1 THEN 0 ELSE IF i = 2 THEN KEY_PAIR
                            ELSE IF i \in 3 .. 6 THEN Magic[i - 2]
                            ELSE IF i \in 7 .. 10 THEN Magic[i - 6]
                            ELSE IF p = 1 THEN 16 ELSE 0]

-----------------------------------------------------------------------------
NoEntry == [class |-> 0, index |-> 0, header |-> [i \in 1 .. 6 |-> 0], x509 |-> FALSE]

Init ==
    /\ element \in Elements
    /\ pc = "idle" /\ nObj = 1 /\ entry = NoEntry /\ certLength = 0
    /\ failed = FALSE /\ deviceId = FALSE /\ link = FALSE /\ atr = TRUE
    /\ touched = {} /\ refused = {}
    /\ file = [f \in Files |-> "none"] /\ holds = [f \in Files |-> 0]
    /\ refKey = <<>> /\ leaked = 0 /\ answer = "none" /\ crash = "none"

\* The call goes on at next, or at done with an error code.
Goto(next) == pc' = next /\ failed' = FALSE
Fail       == pc' = "done" /\ failed' = TRUE

\* A command to the element succeeds only over an open link, and not always.
Command(next) == \/ link /\ Goto(next)
                 \/ Fail

-----------------------------------------------------------------------------
a71ch_retrieveCertificatesFromSE ==
    /\ pc = "idle" /\ pc' = "connect" /\ answer' = "none"
    /\ nObj' = 1 /\ failed' = FALSE /\ deviceId' = FALSE /\ atr' = TRUE
    /\ touched' = {} /\ refused' = {} /\ entry' = NoEntry /\ certLength' = 0
    /\ UNCHANGED <<element, link, disk, crash>>

\* Only a failure that leaves no ATR ends the call.
SM_Connect ==
    /\ pc = "connect"
    /\ \/ Goto("info") /\ link' \in BOOLEAN /\ UNCHANGED atr
       \/ Fail /\ atr' = FALSE /\ UNCHANGED link
    /\ UNCHANGED <<element, nObj, entry, certLength, deviceId, attempts, disk, answer, crash>>

A71_GetModuleInfo ==
    /\ pc = "info" /\ Command("uid")
    /\ UNCHANGED <<element, nObj, entry, certLength, deviceId, atr, attempts, link, disk, answer,
                   crash>>

getDeviceId ==
    /\ pc = "uid" /\ Command("table")
    /\ deviceId' = (pc' = "table")
    /\ UNCHANGED <<element, nObj, entry, certLength, atr, attempts, link, disk, answer,
                   crash>>

ReadTable ==
    /\ pc = "table" /\ Command("entry")
    /\ UNCHANGED <<element, nObj, entry, certLength, deviceId, atr, attempts, link, disk, answer,
                   crash>>

\* The entry at dataRead[30 - nObj * 6]: from the sixth on, the index is
\* negative, and the bytes are those below the array.
EntryAt_FromZero(n) == IF n = 1 THEN Garbage ELSE {element[n - 1]}
EntryAt(n) == IF n <= TABLE_READ THEN {element[n]} ELSE Garbage

Wanted(e) == e.class = CERTIFICATE /\ e.index \in {0, 1}

NextEntry ==
    /\ pc = "entry" /\ nObj <= Len(element)
    /\ \E e \in EntryAt(nObj) :
         IF Wanted(e) THEN Goto("header") /\ entry' = e /\ UNCHANGED nObj
                      ELSE nObj' = nObj + 1 /\ UNCHANGED <<pc, failed, entry>>
    /\ UNCHANGED <<element, certLength, deviceId, atr, attempts, link, disk, answer,
                   crash>>

LastEntry ==
    /\ pc = "entry" /\ nObj > Len(element) /\ Goto("key")
    /\ UNCHANGED <<element, nObj, entry, certLength, deviceId, atr, attempts, link, disk, answer,
                   crash>>

ReadHeader ==
    /\ pc = "header" /\ Command("data")
    /\ certLength' = IF pc' = "data" THEN GetFileSize(entry.header) ELSE certLength
    /\ UNCHANGED <<element, nObj, entry, deviceId, atr, attempts, link, disk, answer,
                   crash>>

\* A71_GetGpData is not told the size of objData.  What a process does whose
\* stack is overwritten is not followed.
ReadData ==
    /\ pc = "data"
    /\ \/ Fail /\ UNCHANGED crash
       \/ link /\ certLength <= OBJ_DATA /\ Goto("file") /\ UNCHANGED crash
       \/ link /\ certLength > OBJ_DATA /\ crash' = "overflow" /\ UNCHANGED <<pc, failed>>
    /\ UNCHANGED <<element, nObj, entry, certLength, deviceId, atr, attempts, link, disk, answer>>

\* The file is opened, and with it cut, before the certificate is parsed; it
\* is closed only if that succeeds.
fileOf(e)  == IF e.index = 0 THEN "device" ELSE "gateway"
Parses     == entry.x509 /\ certLength >= Extent(entry.header)
AnotherOpen == leaked' = IF leaked < MaxFiles THEN leaked + 1 ELSE leaked

\* What becomes of a file: all of it is written, or only a part.
Writes(f) == /\ touched' = touched \cup {f} /\ refused' = refused \ {f}
             /\ file' = [file EXCEPT ![f] = "whole"]
Cuts(f)   == touched' = touched \cup {f} /\ file' = [file EXCEPT ![f] = "cut"]

\* What becomes of a certificate that is none.
ParseFails_Ignored == Goto("entry") /\ nObj' = nObj + 1 /\ UNCHANGED leaked
ParseFails == Fail /\ AnotherOpen /\ UNCHANGED nObj

\* Whether the file was written is not looked at, nor whether it was opened: a
\* certificate that parses is written to a FILE that is NULL.
WriteCertificate ==
    /\ pc = "file"
    /\ LET f == fileOf(entry) IN
       \/ /\ Parses /\ Goto("entry") /\ nObj' = nObj + 1 /\ UNCHANGED <<leaked, crash>>
          /\ \/ Writes(f) /\ holds' = [holds EXCEPT ![f] = nObj]
             \/ Cuts(f) /\ refused' = refused \cup {f} /\ UNCHANGED holds
       \/ ~Parses /\ Cuts(f) /\ ParseFails /\ UNCHANGED <<refused, holds, crash>>
       \/ Parses /\ crash' = "null" /\ UNCHANGED <<attempts, file, holds, leaked, nObj, pc, failed>>
       \/ ~Parses /\ Fail /\ UNCHANGED <<attempts, file, holds, leaked, nObj, crash>>
    /\ UNCHANGED <<element, entry, certLength, deviceId, atr, link, refKey, answer>>

\* A key that cannot be written is reported on the console only.
getReferenceKey ==
    /\ pc = "key"
    /\ \/ Fail /\ UNCHANGED <<attempts, file, refKey>>
       \/ /\ link /\ Goto("done")
          /\ \/ Writes("key") /\ \E len \in KeyLengths : refKey' = ReferenceKey(len)
             \/ Cuts("key") /\ refused' = refused \cup {"key"} /\ refKey' = <<>>
             \/ refused' = refused \cup {"key"} /\ UNCHANGED <<touched, file, refKey>>
    /\ UNCHANGED <<element, nObj, entry, certLength, deviceId, atr, link, holds, leaked, answer,
                   crash>>

\* SM_Close, also of a link that did not open.
SM_Close_OnSuccess == link' = (link /\ (~atr \/ failed))
SM_Close == link' = (link /\ ~atr)

Done ==
    /\ pc = "done" /\ pc' = "idle"
    /\ SM_Close /\ deviceId' = FALSE
    /\ answer' = IF failed \/ ~deviceId THEN "null" ELSE "id"
    /\ UNCHANGED <<element, nObj, entry, certLength, failed, atr, attempts, disk, crash>>

-----------------------------------------------------------------------------
Next ==
    /\ crash = "none"
    /\ \/ a71ch_retrieveCertificatesFromSE \/ SM_Connect \/ A71_GetModuleInfo
       \/ getDeviceId \/ ReadTable \/ NextEntry \/ LastEntry \/ ReadHeader
       \/ ReadData \/ WriteCertificate \/ getReferenceKey \/ Done

Spec == Init /\ [][Next]_vars

-----------------------------------------------------------------------------
(* Properties.                                                             *)

Steps == {"idle", "connect", "info", "uid", "table", "entry", "header", "data", "file",
          "key", "done"}

\* The type invariant.
TypeOK ==
    /\ element \in Elements
    /\ pc \in Steps /\ nObj \in 1 .. 256 /\ entry \in Entry /\ certLength \in 0 .. WORD - 1
    /\ failed \in BOOLEAN /\ deviceId \in BOOLEAN /\ link \in BOOLEAN /\ atr \in BOOLEAN
    /\ touched \subseteq Files /\ refused \subseteq Files
    /\ file \in [Files -> {"none", "cut", "whole"}] /\ holds \in [Files -> 0 .. 255]
    /\ refKey \in Seq(Bytes) /\ leaked \in 0 .. MaxFiles
    /\ answer \in {"none", "id", "null"} /\ crash \in {"none", "null", "overflow"}

\* Whatever step failed, no call leaves a session with the element open: the
\* next one would not get it.
ElementReleased == pc = "idle" => ~link

\* With an id, each file for which the table has a certificate holds the last
\* one that the table has for it, written by this call; but where the table has
\* more entries than are read of it, it may hold one that was found below them.
\* A file that the host refused holds neither: the id comes all the same.
AllRetrieved ==
    answer = "id" =>
        \A f \in {"device", "gateway"} \ refused :
            LET entries == {n \in 1 .. Len(element) : /\ n <= TABLE_READ /\ Wanted(element[n])
                                                      /\ fileOf(element[n]) = f}
            IN  entries # {} =>
                    /\ f \in touched /\ file[f] = "whole"
                    /\ holds[f] = Max(entries) \/ holds[f] \in TABLE_READ + 1 .. Len(element)

\* Lengths that DER encodes in the byte itself, or in the one or two bytes that
\* follow, are read as they were written.  (Of the first kind 31, 63, 95 and
\* 127 are not: their last bits look like those of a long tag.)
DerLength(header) ==
    /\ header[2] <= 130 /\ header[2] # 128 /\ ~(header[2] < 128 /\ header[2] % 32 = 31)
    /\ Extent(header) < WORD
CertificateLength ==
    pc = "data" /\ DerLength(entry.header) => certLength = Extent(entry.header)

\* The key file holds a reference and nothing of the random key below it: read
\* from the end, the key's index, its class, the mark of the engine twice, and
\* zeros up to the first byte.
ReferenceOnly ==
    refKey # <<>> =>
        LET len == Len(refKey)
        IN /\ SubSeq(refKey, len - 9, len) =
                 <<165, 166, 181, 182, 165, 166, 181, 182, KEY_PAIR, 0>>
           /\ \A p \in 1 .. len - 10 : refKey[p] = IF p = 1 THEN 16 ELSE 0

\* What connectiotf relies on.
R == INSTANCE Retrieval WITH
        busy <- pc # "idle",
        whole <- {f \in Files : file[f] = "whole"},
        spoilt <- {f \in touched : file[f] # "whole"}

\* An id is returned only with the key in place and no file left cut, although
\* the files are opened before the certificates are parsed and an earlier call
\* may have left them in any state; except for a file that the host refused, of
\* which the call takes no notice.  The retrieval implements its abstraction.
Promise == R!Spec
=============================================================================
