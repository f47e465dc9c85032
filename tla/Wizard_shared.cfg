SPECIFICATION Spec
CONSTANTS
    Remote = {s1}
    Local = local
    NoServer = noserver
    Services = {svc}
    New = new
    Closed = closed
    NoDraft = nodraft
    Earlier <- MCEarlier
    MaxEdits = 1
    MaxOpens = 1
    MaxCalls = 1
INVARIANTS ReconcileSkipsSharedHost
CHECK_DEADLOCK FALSE
