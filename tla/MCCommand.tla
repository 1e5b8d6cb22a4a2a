----------------------------- MODULE MCCommand -----------------------------
(* Command with a few flags and environments, each set of them varying one *)
(* group of settings while the others are left alone.                      *)
EXTENDS Command

CONSTANTS b1, b2

Neither == [traces |-> "unset", generic |-> "unset"]
Env(values) == [traces : values, generic : values]

Plain ==
    [any |-> TRUE, dryRun |-> FALSE, output |-> "summary", timeout |-> TRUE,
     numbers |-> TRUE, ca |-> "unset", skip |-> FALSE,
     endpoint |-> "unset", endpointEnv |-> Neither,
     protocol |-> "unset", protocolEnv |-> Neither,
     insecure |-> "unset", insecureEnv |-> Neither,
     caEnv |-> Neither, certEnv |-> Neither, keyEnv |-> Neither]

\* the settings that decide how far the process comes
Courses ==
    {[Plain EXCEPT !.dryRun = d, !.output = f, !.timeout = t, !.protocol = p] :
        d, t \in BOOLEAN, f \in {"summary", "json", "other"}, p \in {"unset", "http"}}
    \cup {[Plain EXCEPT !.any = FALSE], [Plain EXCEPT !.numbers = FALSE]}

\* the settings that decide where the client connects to, and how
Targets ==
    {[Plain EXCEPT !.endpointEnv = [traces |-> t, generic |-> e], !.endpoint = f] :
        t \in {"unset", "blank", "badScheme"}, e \in {"noHost", "https"},
        f \in {"unset", "blank", "plain"}}
    \cup {[Plain EXCEPT !.protocolEnv = e] : e \in Env({"blank", "http/protobuf", "other"})}
    \cup {[Plain EXCEPT !.insecureEnv = e] : e \in Env({"unset", "false", "other"})}

\* the settings of a secure client
Secure == [Plain EXCEPT !.insecure = "false"]
Identities ==
    {[Secure EXCEPT !.certEnv = c, !.keyEnv = k] :
        c, k \in Env({"unset", "good", "bad"})}
    \cup {[Secure EXCEPT !.ca = f, !.caEnv = e] :
        f \in {"unset", "good", "bad"}, e \in Env({"unset", "good", "bad"})}

\* a secure client is asked for in an environment that may ask the SDK for plain text
Contested ==
    {[Secure EXCEPT !.protocol = p, !.ca = f, !.skip = s, !.insecureEnv = i] :
        p \in {"grpc", "http"}, f \in {"unset", "good"}, s \in BOOLEAN,
        i \in Env({"unset", "true", "false"})}
    \cup {[Secure EXCEPT !.protocol = p, !.ca = f, !.endpointEnv = e, !.insecureEnv.generic = i] :
        p \in {"grpc", "http"}, f \in {"unset", "good"}, i \in {"unset", "false"},
        e \in Env({"unset", "http", "https", "address"})}

MCOptions == Courses \cup Targets \cup Identities \cup Contested

\* the flags of README.md's examples with an internal CA
DocsOptions == {[Plain EXCEPT !.protocol = p, !.ca = "good"] : p \in {"http", "grpc"}}
=============================================================================
