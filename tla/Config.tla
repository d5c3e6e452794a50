-------------------------------- MODULE Config --------------------------------
(***************************************************************************)
(* src/src/config.c: how an iotfclient gets its configuration, from a file *)
(* (initialize_configfile, get_config) or from arguments (initialize), and *)
(* how it loses it (freeConfig, called by disconnect).                     *)
(*                                                                         *)
(* A file is read line by line, by fgets: of a line longer than the        *)
(* buffer, the rest is read as a line of its own.  A NULL pointer that is  *)
(* used ends the process.  The application initialises a client as often   *)
(* as it likes, with success or without, whether it is initialised or not. *)
(*                                                                         *)
(* Left out: logging, upper and lower case, malloc without memory.         *)
(***************************************************************************)
EXTENDS Utilities

CONSTANTS
    Files,      \* what a configuration file may hold: sequences of lines
    LineSize,   \* what the buffer of get_config holds of a line, in tokens
    Arguments,  \* what initialize may be called with
    MaxCalls    \* bound on the calls of the two functions

Texts == {"org", "domain", "type", "id", "auth-token", "auth-method", "serverCertPath",
          "rootCACertPath", "clientCertPath", "clientKeyPath"}
Flags == {"useClientCertificates", "useNXPEngine", "useCertsFromSE"}

ASSUME FilesAssumption     == /\ Files \subseteq Seq(Seq(Tokens) \ {<<>>}) /\ NULL \notin Files
                              /\ LineSize \in Nat \ {0}
ASSUME ArgumentsAssumption == \A a \in Arguments : /\ \A k \in Texts : a[k] \in {NULL} \cup Seq(Tokens)
                                                  /\ \A k \in Flags : a[k] \in BOOLEAN
ASSUME MaxCallsAssumption  == MaxCalls \in Nat

CONFIG_FILE_ERROR        == -3
MISSING_INPUT_PARAM      == -4
QUICKSTART_NOT_SUPPORTED == -5

VARIABLES
    client,    \* isQuickstart, isGateway; mem: "unset", "live", "freed"; cfg
    pc,        \* where the call is; "idle" outside
    gateway,   \* isGatewayClient
    file,      \* the file that is read; NULL if there is none
    linenum,   \* lines read of it
    column,    \* tokens read of the next one
    configstr, \* the configuration being built
    rc,        \* what the last call returned
    lost,      \* what the last call, or disconnect, allocated and let go
    calls,     \* calls so far
    crash      \* "none", "null" (a NULL pointer), "underrun" (of trim)

input == <<gateway, file>>
vars  == <<client, pc, input, linenum, column, configstr, rc, lost, calls, crash>>

-----------------------------------------------------------------------------
Quickstart    == <<"quickstart">>
DefaultDomain == <<"internetofthings.ibmcloud.com">>
CustomPem     == <<"./IoTFoundation.pe", "m">>

ASSUME TokensAssumption ==
    {"quickstart", "internetofthings.ibmcloud.com", "./IoTFoundation.pe", ".",
     "/IoTFoundation.pe", "m"} \subseteq Tokens

NoConfig == [k \in Texts \cup Flags \cup {"port"} |->
                IF k \in Texts THEN NULL ELSE IF k \in Flags THEN FALSE ELSE 1883]

Init ==
    /\ client \in [mem : {"unset"}, cfg : {NoConfig}, isQuickstart : BOOLEAN,
                   isGateway : BOOLEAN]
    /\ pc = "idle" /\ gateway = FALSE /\ file = NULL /\ linenum = 0 /\ column = 0
    /\ configstr = NoConfig /\ rc = 0 /\ lost = {} /\ calls = 0 /\ crash = "none"

\* One text of a configuration: what it was is lost, unless it was NULL.
Overwritten(cfg, k, value) == IF cfg[k] # NULL /\ value # <<>> THEN {k} ELSE {}
Set(cfg, k, value) == [cfg EXCEPT ![k] = strCopy(@, value)]

\* freeConfig does not free serverCertPath.
freeConfig_NoKey(cfg) == {k \in {"serverCertPath", "clientKeyPath"} : cfg[k] # NULL}
freeConfig(cfg) == {k \in {"serverCertPath"} : cfg[k] # NULL}

\* client->cfg = configstr frees nothing of the configuration it replaces.
Replaced == IF client.mem = "live" THEN {"Config"} ELSE {}

-----------------------------------------------------------------------------
(* initialize_configfile.                                                  *)

initialize_configfile ==
    /\ pc = "idle" /\ calls < MaxCalls /\ calls' = calls + 1
    /\ gateway' \in BOOLEAN /\ file' \in Files \cup {NULL}
    /\ linenum' = 0 /\ column' = 0 /\ configstr' = NoConfig /\ lost' = {}
    /\ IF file' = NULL  \* no path, or fopen fails
       THEN rc' = CONFIG_FILE_ERROR /\ UNCHANGED pc
       ELSE pc' = "open" /\ rc' = 0
    /\ UNCHANGED <<client, crash>>

Known(prop) == Len(prop) = 1 /\ prop[1] \in Texts \cup Flags

\* A text of at most one character is none; for two of them it is the default.
Default_Kept(k, value) == IF strlen(value) > 1 THEN value ELSE <<>>
Default(k, value) ==
    IF strlen(value) > 1 THEN value
    ELSE IF k = "domain" THEN DefaultDomain
    ELSE IF k = "serverCertPath" THEN getServerCertPath ELSE <<>>

\* The character's distance from "0"; of an empty value, that of NUL.
Flag(value) == value = <<>> \/ value[1] # "0"

\* The port changes in one direction only.
Port_Swapped(cfg) == IF cfg["org"] # Quickstart THEN cfg ELSE [cfg EXCEPT !["port"] = 8883]
Port(cfg) == IF cfg["org"] = Quickstart THEN cfg ELSE [cfg EXCEPT !["port"] = 8883]

SetText(k, value) ==
    LET cfg == Set(configstr, k, Default(k, value)) IN
    /\ lost' = lost \cup Overwritten(configstr, k, Default(k, value))
    /\ configstr' = IF k = "org" THEN Port(cfg) ELSE cfg

\* trim of a blank name at the start of the buffer reads the byte below it.  As
\* long as that is no blank, the name becomes empty; a blank is passed over,
\* and a byte below the buffer is cleared.
Underrun(line) == line # <<>> /\ line[1] \in Blank /\ trim(strtok(line, 1)) = <<>>

ParseLine(line) ==
    LET prop  == trim(strtok(line, 1))
        value == trim(strtok(line, 2))
        k     == prop[1]
    IN IF line # <<>> /\ line[1] = "#" THEN UNCHANGED <<configstr, lost, crash>>
       ELSE IF \/ prop = NULL
               \/ Known(prop) /\ value = NULL
               \/ Known(prop) /\ k = "org" /\ strCopy(configstr[k], Default(k, value)) = NULL
       THEN crash' = "null" /\ UNCHANGED <<configstr, lost>>
       ELSE IF Known(prop)
       THEN /\ IF k \in Texts THEN SetText(k, value)
               ELSE configstr' = [configstr EXCEPT ![k] = Flag(value)] /\ UNCHANGED lost
            /\ UNCHANGED crash
       ELSE /\ \/ UNCHANGED crash
               \/ Underrun(line) /\ crash' = "underrun"
            /\ UNCHANGED <<configstr, lost>>

\* The domain is set as soon as the file is open.
OpenFile ==
    /\ pc = "open" /\ pc' = "read"
    /\ configstr' = Set(configstr, "domain", DefaultDomain)
    /\ UNCHANGED <<client, input, linenum, column, rc, lost, calls, crash>>

\* fgets: as much of the next line as the buffer holds.
Upto  == Min({column + LineSize, Len(file[linenum + 1])})
fgets == SubSeq(file[linenum + 1], column + 1, Upto)
RestOfLine == IF Upto = Len(file[linenum + 1]) THEN linenum' = linenum + 1 /\ column' = 0
              ELSE column' = Upto /\ UNCHANGED linenum

ReadLine ==
    /\ pc = "read" /\ linenum < Len(file)
    /\ ParseLine(fgets) /\ RestOfLine
    /\ UNCHANGED <<client, pc, input, rc, calls>>

\* The file is not closed.
EndOfFile ==
    /\ pc = "read" /\ linenum = Len(file) /\ pc' = "validate"
    /\ lost' = lost \cup {"FILE"}
    /\ UNCHANGED <<client, input, linenum, column, configstr, rc, calls, crash>>

-----------------------------------------------------------------------------
(* What is refused.                                                        *)

\* From a file.  isQuickstart is of the client, and already set.
Missing(cfg, quickstart) ==
    \/ cfg["org"] = NULL \/ cfg["type"] = NULL
    \/ /\ ~quickstart /\ cfg["useClientCertificates"] /\ ~cfg["useCertsFromSE"]
       /\ \E k \in {"rootCACertPath", "clientCertPath", "clientKeyPath"} : cfg[k] = NULL

EngineRefused(cfg, quickstart) ==
    IF ~cfg["useNXPEngine"] THEN 0
    ELSE IF ~cfg["useClientCertificates"] THEN CONFIG_FILE_ERROR
    ELSE IF quickstart THEN QUICKSTART_NOT_SUPPORTED ELSE 0

\* What the client is told of quickstart, whatever the call returns.
IsQuickstart_Kept(cfg) == client.isQuickstart \/ cfg["org"] = Quickstart
IsQuickstart(cfg) == cfg["org"] = Quickstart

RefusedFile(quickstart) ==
    IF Missing(configstr, quickstart) THEN MISSING_INPUT_PARAM
    ELSE IF EngineRefused(configstr, quickstart) # 0 THEN EngineRefused(configstr, quickstart)
    ELSE IF gateway /\ quickstart THEN QUICKSTART_NOT_SUPPORTED ELSE 0

\* org is compared before it is known to be there.
CompareNull ==
    /\ pc = "validate" /\ configstr["org"] = NULL /\ crash' = "null"
    /\ UNCHANGED <<client, pc, input, linenum, column, configstr, rc, lost, calls>>

Validate ==
    /\ pc = "validate" /\ configstr["org"] # NULL /\ pc' = "idle"
    /\ LET quickstart == IsQuickstart(configstr) IN
       /\ rc' = RefusedFile(quickstart)
       /\ \/ /\ rc' = 0 /\ lost' = lost \cup Replaced
             /\ client' = [mem |-> "live", cfg |-> configstr, isQuickstart |-> quickstart,
                           isGateway |-> gateway]
          \/ /\ rc' # 0 /\ lost' = lost \cup freeConfig(configstr)
             /\ client' = [client EXCEPT !.isQuickstart = quickstart]
    /\ linenum' = 0 /\ configstr' = NoConfig /\ UNCHANGED <<input, column, calls, crash>>

-----------------------------------------------------------------------------
(* initialize.                                                             *)

\* The copies it makes; those of certificates and tokens not for quickstart.
Copied(a) ==
    {"org", "domain", "type", "id"} \cup
        IF a["org"] = Quickstart THEN {}
        ELSE {"auth-method", "auth-token", "serverCertPath"} \cup
             IF a["useClientCertificates"]
             THEN {"rootCACertPath", "clientCertPath", "clientKeyPath"} ELSE {}

Given(a, k) == IF a[k] # NULL THEN a[k] ELSE IF k = "domain" THEN DefaultDomain ELSE CustomPem

Built(a) ==
    [k \in Texts \cup Flags \cup {"port"} |->
        IF k = "domain" THEN strCopy(DefaultDomain, Given(a, k))
        ELSE IF k \in Copied(a) THEN strCopy(NULL, Given(a, k))
        ELSE IF k \in Texts THEN NULL
        ELSE IF k = "port" THEN IF a["org"] = Quickstart THEN 1883 ELSE 8883
        ELSE IF k = "useClientCertificates" THEN a[k] /\ a["org"] # Quickstart
        ELSE a[k]]

\* NULL is looked for, not the empty string.
Unchecked(a) == {"org", "type", "id"} \cup
    IF a["useClientCertificates"]
    THEN {"rootCACertPath", "clientCertPath", "clientKeyPath"} ELSE {}
Needed(a) == Unchecked(a) \cup
    IF a["org"] = Quickstart THEN {} ELSE {"auth-method", "auth-token"}
Absent(a, keys) == \E k \in keys : a[k] = NULL

Refused(a, isGateway) ==
    IF Absent(a, Needed(a)) THEN MISSING_INPUT_PARAM
    ELSE IF isGateway /\ a["org"] = Quickstart THEN QUICKSTART_NOT_SUPPORTED
    ELSE EngineRefused(Built(a), a["org"] = Quickstart)

\* The default domain is allocated before the one that is given.
LostDomain(a) ==
    IF Absent(a, Unchecked(a)) \/ a["domain"] \in {NULL, <<>>} THEN {} ELSE {"domain"}

initialize ==
    /\ pc = "idle" /\ calls < MaxCalls /\ calls' = calls + 1 /\ gateway' \in BOOLEAN
    /\ \E a \in Arguments :
         LET quickstart == a["org"] = Quickstart IN
         /\ rc' = Refused(a, gateway')
         /\ \/ /\ rc' = 0 /\ lost' = LostDomain(a) \cup Replaced
               /\ client' = [mem |-> "live", cfg |-> Built(a), isQuickstart |-> quickstart,
                             isGateway |-> gateway']
            \/ rc' = MISSING_INPUT_PARAM /\ lost' = LostDomain(a) /\ UNCHANGED client
            \/ /\ rc' \in {QUICKSTART_NOT_SUPPORTED, CONFIG_FILE_ERROR}
               /\ lost' = LostDomain(a) \cup freeConfig(Built(a))
               /\ client' = [client EXCEPT
                    !.isQuickstart = quickstart,
                    !.isGateway = IF quickstart /\ gateway' THEN @ ELSE gateway']
    /\ file' = NULL /\ UNCHANGED <<pc, linenum, column, configstr, crash>>

-----------------------------------------------------------------------------
\* The pointers of client->cfg stay, and point to nothing.
disconnect ==
    /\ pc = "idle" /\ client.mem = "live"
    /\ client' = [client EXCEPT !.mem = "freed", !.cfg = NoConfig]
    /\ lost' = freeConfig(client.cfg)
    /\ UNCHANGED <<pc, input, linenum, column, configstr, rc, calls, crash>>

Next ==
    /\ crash = "none"
    /\ \/ initialize_configfile \/ OpenFile \/ ReadLine \/ EndOfFile
       \/ CompareNull \/ Validate \/ initialize \/ disconnect

Spec == Init /\ [][Next]_vars

-----------------------------------------------------------------------------
(* Properties.                                                             *)

Text   == {NULL} \cup (Seq(Tokens) \ {<<>>})
IsConfig(cfg) ==
    /\ DOMAIN cfg = Texts \cup Flags \cup {"port"}
    /\ \A k \in Texts : cfg[k] \in Text
    /\ \A k \in Flags : cfg[k] \in BOOLEAN
    /\ cfg["port"] \in {1883, 8883}

\* The type invariant: no text of a configuration is an empty string.
TypeOK ==
    /\ client.mem \in {"unset", "live", "freed"} /\ IsConfig(client.cfg)
    /\ client.isQuickstart \in BOOLEAN /\ client.isGateway \in BOOLEAN
    /\ pc \in {"idle", "open", "read", "validate"} /\ gateway \in BOOLEAN
    /\ file \in Files \cup {NULL} /\ (file # NULL => linenum \in 0 .. Len(file))
    /\ column \in Nat /\ calls \in 0 .. MaxCalls
    /\ IsConfig(configstr) /\ crash \in {"none", "null", "underrun"}
    /\ rc \in {0, CONFIG_FILE_ERROR, MISSING_INPUT_PARAM, QUICKSTART_NOT_SUPPORTED}
    /\ lost \subseteq Texts \cup {"FILE", "Config"}

\* After a call that succeeded a client is in quickstart mode exactly if its
\* organisation is quickstart, and then no gateway, whatever calls before left
\* in it.  A call that is refused ends this: it writes the mode of what it was
\* given to a client that keeps its configuration.
QuickstartAgrees ==
    client.mem = "live" /\ pc = "idle" /\ rc = 0 =>
        /\ client.isQuickstart = (client.cfg["org"] = Quickstart)
        /\ ~(client.isQuickstart /\ client.isGateway)

\* Only quickstart uses the port on which connectiotf does without TLS, in
\* whatever order and how often a file names its organisation.
NoClearText ==
    client.mem = "live" /\ client.cfg["org"] # Quickstart => client.cfg["port"] = 8883

\* What a line says to somebody who reads it: a name, "=", a value; a line
\* that begins with "=" has its name after it.
Strip(s) == LET inner == {p \in DOMAIN s : s[p] \notin Blank}
            IN  IF inner = {} THEN <<>> ELSE SubSeq(s, Min(inner), Max(inner))
Begin(line)   == Min({Len(line) + 1} \cup {p \in DOMAIN line : line[p] # "="})
Equals(line)  == Min({Len(line) + 1} \cup {p \in DOMAIN line : p > Begin(line) /\ line[p] = "="})
Name(line)    == Strip(SubSeq(line, Begin(line), Equals(line) - 1))
Value(line)   == Strip(SubSeq(line, Equals(line) + 1, Len(line)))
Comment(line) == line # <<>> /\ line[1] = "#"
Says(line, k) == ~Comment(line) /\ Name(line) = <<k>>

Empty(line)   == line # <<>> /\ \A p \in DOMAIN line : line[p] \in Blank

\* A comment, a blank line, or one "=" with something on either side, and an
\* organisation that is a word.
Readable(line) ==
    \/ Comment(line) \/ Empty(line)
    \/ /\ Cardinality({p \in DOMAIN line : line[p] = "="}) = 1
       /\ Equals(line) < Len(line) /\ Name(line) # <<>>
       /\ Says(line, "org") => Value(line) # <<>> /\ Value(line)[1] \notin Characters
Fits(f) == \A n \in 1 .. Len(f) : Len(f[n]) <= LineSize
WellFormed(f) == /\ Fits(f) /\ \A n \in 1 .. Len(f) : Readable(f[n])
                 /\ \E n \in 1 .. Len(f) : Says(f[n], "org")

\* The last word on k in a file, of the lines for which test holds.
LinesOf(f, k) == {n \in 1 .. Len(f) : Says(f[n], k)}
Words(f, k)   == {n \in LinesOf(f, k) : strlen(Value(f[n])) > 1}

\* A client that is initialised from a well-formed file is configured as the
\* file says: the last line on a property counts, blank lines and blanks around
\* a value do not, and a text of one character is none.
AsWritten ==
    client.mem = "live" /\ file # NULL /\ pc = "idle" /\ rc = 0 /\ WellFormed(file) =>
        /\ \A k \in Texts \ {"domain", "serverCertPath"} :
              client.cfg[k] = IF Words(file, k) = {} THEN NULL
                              ELSE Value(file[Max(Words(file, k))])
        /\ LET n == LinesOf(file, "domain") IN
           client.cfg["domain"] = IF n = {} \/ Max(n) \notin Words(file, "domain")
                                  THEN DefaultDomain ELSE Value(file[Max(n)])
        /\ \A k \in Flags : client.cfg[k] =
              (LinesOf(file, k) # {} /\
               LET value == Value(file[Max(LinesOf(file, k))])
               IN  value = <<>> \/ value[1] # "0")

\* Only a file that is not well-formed makes the process use a NULL pointer; in
\* a well-formed one, all there is to meet is the underrun at a blank line.
CrashOnlyMalformed ==
    crash # "none" /\ WellFormed(file) =>
        crash = "underrun" /\ \E n \in 1 .. Len(file) : Empty(file[n])

\* What a call allocates is given to the client or freed, except for the path
\* of the server's certificate, the FILE, a domain that replaces the default,
\* texts that a file gives twice, or may give in the rest of a line, and the
\* configuration that the client had before.
LostOnly ==
    \A k \in lost \ {"serverCertPath", "FILE", "domain", "Config"} :
        file # NULL /\ (Fits(file) => Cardinality(LinesOf(file, k)) > 1)
=============================================================================
