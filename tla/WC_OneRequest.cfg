\* One request, for two of three agents that come and go.
SPECIFICATION Spec
CONSTANTS
    a1 = a1
    a2 = a2
    a3 = a3
    x = x
    y = y
    Agents = {a1, a2, a3}
    Requests = {r1}
    Payloads = {x, y}
    NoList = NoList
    Watch = y
    Forms <- MCForms
INVARIANTS
    SteadyAgentsAreServed
    SteadyAgentsAreListed
    FailedOperationSentNothing
CHECK_DEADLOCK FALSE
