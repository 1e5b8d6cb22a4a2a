--------------------------- MODULE ClientSettings ---------------------------
(***************************************************************************)
(* From flags and environment to the settings of the OTLP client:          *)
(* applyOTLPEnvOverrides of cmd/tercios/otel_env.go, the checks of main    *)
(* and Config.Validate, mergedTLSConfig and newOTLPClient of               *)
(* internal/otlp, and what the vendored SDK, which that client is an       *)
(* instance of, reads from the environment on its own.  Options are        *)
(* records; a value that may come from a flag or a variable is "unset" or  *)
(* "blank", or one of a few values of a kind: an endpoint is "plain"       *)
(* (host:port), "address" (a numeric one, which url.Parse refuses), an     *)
(* "http" or "https" URL, an https URL with "noHost" or one with a         *)
(* "badScheme", ftp for instance; a file is "good" or "bad" (unreadable,   *)
(* no PEM, a key of another certificate).                                  *)
(***************************************************************************)
EXTENDS Integers, FiniteSets, Sequences

Given(value) == value \notin {"unset", "blank"}

\* firstNonEmptyEnv of the variables of the signal and of all signals
FirstNonEmpty(env) == IF Given(env.traces) THEN env.traces ELSE env.generic

\* a flag, if it is set, then the environment, then the default
Override(flag, env, default) ==
    IF flag # "unset" THEN flag
    ELSE IF Given(FirstNonEmpty(env)) THEN FirstNonEmpty(env)
    ELSE default

\* normalizeOTLPProtocol, which only sees the environment's value
NormalProtocol(raw) == IF raw = "http/protobuf" THEN "http" ELSE raw

\* DefaultConfig: localhost:4317, grpc, insecure
Endpoint(o) == Override(o.endpoint, o.endpointEnv, "plain")
Insecure(o) == Override(o.insecure, o.insecureEnv, "true") = "true"
Protocol(o) ==
    IF o.protocol # "unset" THEN o.protocol
    ELSE NormalProtocol(Override("unset", o.protocolEnv, "grpc"))

EnvInvalid(o) ==
    \/ /\ o.protocol = "unset" /\ Given(FirstNonEmpty(o.protocolEnv))
       /\ NormalProtocol(FirstNonEmpty(o.protocolEnv)) \notin {"grpc", "http"}
    \/ /\ o.insecure = "unset" /\ Given(FirstNonEmpty(o.insecureEnv))
       /\ FirstNonEmpty(o.insecureEnv) \notin {"true", "false"}

\* Config.Validate and the checks of the summary flags; "numbers" stands for the latter
\* and for the limits, durations and rates
Valid(o) ==
    /\ Endpoint(o) # "blank"
    /\ Protocol(o) \in {"grpc", "http"}
    /\ o.numbers

\* main clears the two TLS flags of an insecure run
CAFlag(o)   == IF Insecure(o) THEN "unset" ELSE o.ca
SkipFlag(o) == o.skip /\ ~Insecure(o)

\* Mutated: certificate and key are looked up on their own, the signal's first
PairsApart(o) ==
    {[cert |-> c, key |-> k] : c, k \in {"traces", "generic"}} \cap
    {p \in [cert : {"traces", "generic"}, key : {"traces", "generic"}] :
        /\ o.certEnv[p.cert] = "good" /\ o.keyEnv[p.key] = "good"
        /\ p.cert = "generic" => ~Given(o.certEnv.traces)
        /\ p.key = "generic" => ~Given(o.keyEnv.traces)}

\* the variable a client certificate and its key are read from; one scope gives both
Pairs(o) == {[cert |-> s, key |-> s] : s \in {t \in {"traces", "generic"} :
                 o.certEnv[t] = "good" /\ o.keyEnv[t] = "good"}}

\* applyClientCertificateFromEnv, for the generic variables first, so that the signal's
\* win; what cannot be read is passed over
ClientPair(o) ==
    LET signal == {p \in Pairs(o) : p.cert = "traces"}
    IN  IF signal # {} THEN signal ELSE Pairs(o)

\* where the roots are read from: the flag, or the last variable that can be read
RootCA(o) ==
    IF CAFlag(o) # "unset" THEN "flag"
    ELSE IF o.caEnv.traces = "good" THEN "traces"
    ELSE IF o.caEnv.generic = "good" THEN "generic"
    ELSE "system"

\* the host's roots, no certificate, and the collector's is verified
HostTLS == [roots |-> "system", pair |-> {}, skip |-> FALSE]

\* mergedTLSConfig: nil if nothing was asked for.  The SDK, which reads the same variables,
\* then has no configuration either, and what main gives it replaces its own.
TLSConfig(o) ==
    {[roots |-> RootCA(o), pair |-> ClientPair(o), skip |-> SkipFlag(o)]} \ {HostTLS}

\* getOptionsFromEnv of the SDK: a variable may ask for plain text, by name or by the scheme
\* of an endpoint; the last that is given decides, a flag of main's or not
EnvPlain(o) ==
    LET byName == FirstNonEmpty(o.insecureEnv)
        urls   == [s \in {"traces", "generic"} |->
                     IF o.endpointEnv[s] = "address" THEN "blank" ELSE o.endpointEnv[s]]
    IN  IF Given(byName) THEN byName = "true" ELSE FirstNonEmpty(urls) = "http"

\* newOTLPClient gives the SDK WithInsecure, or no option at all in this respect; a gRPC
\* client with a TLS configuration uses it all the same
SpeaksTLS(o) ==
    \/ Protocol(o) # "http" /\ TLSConfig(o) # {}
    \/ ~(Insecure(o) \/ EnvPlain(o))

\* the TLS configuration of a client, if it does not connect in plain text
ClientTLS(o) ==
    IF ~SpeaksTLS(o) THEN {}
    ELSE IF TLSConfig(o) = {} THEN {HostTLS}
    ELSE TLSConfig(o)

\* only the gRPC client of an insecure run does not come to read the roots of the flag
ClientInvalid(o) ==
    \/ Endpoint(o) \in {"noHost", "badScheme"}
    \/ (Protocol(o) = "http" \/ ~Insecure(o)) /\ CAFlag(o) = "bad"
=============================================================================
