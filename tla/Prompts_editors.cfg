\* Two operators on the admin pages at once.
CONSTANTS
    Operators = {o1, o2}
    Guardrail = guardrail
    k1 = k1
    k2 = k2
    Candidates <- MCCandidates
    Providers = {x1, x2}
    Typed = typed
    Default = default
    NoKey = NoKey
    MaxVersions = 2
SPECIFICATION PromptsSpec
SYMMETRY MCSymmetry
INVARIANTS PromptsTypeOK CaseHoldsTogether
PROPERTIES TextsAreSaved
