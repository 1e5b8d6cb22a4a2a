---------------------------- MODULE MCChaosEngine ----------------------------
(* ChaosEngine with a handful of policies that interact. *)
EXTENDS ChaosEngine

Input(kind, end, span, resource) ==
    [kind |-> kind, end |-> end, status |-> "ok", span |-> span, resource |-> resource]

Attributes(service, other) == [service |-> service, other |-> other]

\* service.name is in both maps, in one of them only, or differs
SomeSpans ==
    {Input("server", 2, Attributes("a", Absent), Attributes("a", "a")),
     Input("server", 4, Attributes("b", "a"), Attributes("b", Absent)),
     Input("client", 1, Attributes(Absent, "a"), Attributes("a", "b")),
     Input("client", 3, Attributes("a", "b"), Attributes("b", "a"))}

Match(kinds, service, other) == [kinds |-> kinds, service |-> service, other |-> other]

SetAttribute(scope, name, value) ==
    [type |-> "set_attribute", scope |-> scope, name |-> name, value |-> value]
SetError          == [type |-> "set_status", code |-> "error"]
AddLatencyOf(ms)  == [type |-> "add_latency", delta |-> ms]

\* the second makes the first, third and fourth match or not; the last two shift the end
SomePolicies ==
    {[probability |-> "sometimes", match |-> Match({}, "a", AnyValue),
      actions |-> <<SetError, SetAttribute("span", "service", "b")>>],
     [probability |-> "always", match |-> Match({}, AnyValue, "a"),
      actions |-> <<SetAttribute("resource", "service", "a"),
                    SetAttribute("resource", "other", "b")>>],
     [probability |-> "always", match |-> Match({"server"}, "b", AnyValue),
      actions |-> <<AddLatencyOf(-2), SetAttribute("span", "other", "a")>>],
     [probability |-> "sometimes", match |-> Match({}, AnyValue, AnyValue),
      actions |-> <<AddLatencyOf(0), AddLatencyOf(-3), AddLatencyOf(1)>>],
     [probability |-> "never", match |-> Match({}, AnyValue, AnyValue), actions |-> <<SetError>>]}
=============================================================================
