CONSTANTS
    Values = {"a", "b"}
    Kinds = {"server", "client"}
    Inputs <- SomeSpans
    MaxSpans = 2
    Policies <- SomePolicies
    MaxPolicies = 3
SPECIFICATION Spec
INVARIANTS
    InputUntouched
    ResultIsPure
    EndsAfterStart
