------------------------------- MODULE MCConfig -------------------------------
(***************************************************************************)
(* Instances of Config for TLC.                                            *)
(***************************************************************************)
EXTENDS Config

AnyToken == STRING

\* The lines of the configuration files of the samples: one for the Secure
\* Element and one for quickstart; and those of a file with certificates of
\* its own.  Each ends with a blank line.
Plain(k, v) == <<k, "=", v, "\n">>
Org   == <<"org", "=", "abc123", "\n">>
Type  == <<"type", "=", " ", "iotsensor", " ", "\n">>
Certs == <<"useClientCertificates", "=", "1", "\n">>
CA    == Plain("rootCACertPath", "IoTFoundation.pem")
EmptyLine == <<"\n">>
SEFile == <<Org, Type, Certs, CA, Plain("useNXPEngine", "1"), Plain("useCertsFromSE", "1"),
            EmptyLine>>
QuickstartFile == <<Plain("org", "quickstart"), Type, Plain("id", "device1"),
                    Plain("useClientCertificates", "0"), CA, EmptyLine>>
OwnFile == <<Org, Type, Certs, CA, Plain("clientCertPath", "cert.pem"),
             Plain("clientKeyPath", "key.pem"), EmptyLine>>

\* Lines that may take the place of another, or stand in a file of their own.
\* The last one is longer than the buffer: its rest is read as a line.
Lines == {
    Org, Type, Certs,
    <<"org", " ", "=", "quickstart">>,
    <<"org", "=", "x", "\n">>,
    <<"org", "\n">>,
    <<"#", "org", "=", "abc123", "\n">>,
    <<" ", "\n">>,
    <<"=", "\n">>,
    <<"=">>,
    <<"=", "auth-token", "=", "secret", "\n">>,
    <<"id", "=", " ", "x", "\n">>,
    <<"id", "=", "device1", "=", "=", "\n">>,
    <<"auth-token", "=", "secret", "\n">>,
    <<"domain", "=", "\n">>,
    <<"domain", "=", "example.com", "\n">>,
    <<"serverCertPath", "=", "\n">>,
    <<"serverCertPath", "=", "server.pem", "\n">>,
    <<"useNXPEngine", "=", "\n">>,
    <<"useClientCertificates", "=", " ", "0", "\n">>,
    <<"unknown", "=", "x", "\n">>,
    <<"#", " ", "=", " ", " ", " ", "org", "=", "quickstart", "\n">>}

\* Those that come in pairs, and those that replace a line of a longer file.
Core == {
    Org, Type,
    <<"org", " ", "=", "quickstart">>,
    <<"org", "=", "x", "\n">>,
    <<"domain", "=", "\n">>,
    <<"domain", "=", "example.com", "\n">>,
    <<"serverCertPath", "=", "\n">>,
    <<"serverCertPath", "=", "server.pem", "\n">>}
Changes == {
    <<"org", " ", "=", "quickstart">>,
    <<"useClientCertificates", "=", " ", "0", "\n">>,
    <<"#", "org", "=", "abc123", "\n">>}

Replace(f, lines) == {[f EXCEPT ![p] = line] : p \in 1 .. Len(f) - 1, line \in lines}
SampleFiles ==
    {<<>>, SEFile, QuickstartFile, OwnFile}
    \cup Replace(SEFile, Core \cup Changes) \cup Replace(OwnFile, Changes)
    \cup {<<line>> : line \in Lines} \cup {<<Org, Type, line>> : line \in Lines}
    \cup {<<Org, Type, one, other>> : one \in Core, other \in Core}

\* Arguments: the texts of a device, with some of them absent or empty.
Device == [k \in Texts \cup Flags |->
             IF k \in Flags THEN FALSE
             ELSE IF k = "org" THEN <<"abc123">> ELSE <<k>>]
SampleArguments ==
    {[Device EXCEPT !["org"] = o, ![absent] = NULL, !["domain"] = d,
                    !["useClientCertificates"] = c, !["useNXPEngine"] = e] :
        o \in {<<>>, <<"abc123">>, Quickstart}, absent \in {"id", "auth-token", "serverCertPath"},
        d \in {<<>>, <<"example.com">>}, c \in BOOLEAN, e \in BOOLEAN}
    \cup {Device, [Device EXCEPT !["org"] = NULL], [Device EXCEPT !["type"] = <<>>],
          [Device EXCEPT !["useClientCertificates"] = TRUE, !["clientKeyPath"] = NULL]}
=============================================================================
