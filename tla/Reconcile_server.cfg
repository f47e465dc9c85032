\* One card and two requests: a second one may run beside one that was cut off.  Two
\* clicks, one change of the host by others.  Operators may stop clicking: no deadlock.
CONSTANTS
    Cards = {c1}
    Jobs = {j1, j2}
    Names = {n1, n2}
    n1 = n1
    n2 = n2
    Locations = {l1, l2}
    PortOf <- MCPortOf
    Upstreams = {3, 30}
    AppPort = 7
    None = None
    MaxClicks = 2
    MaxChanges = 1
SPECIFICATION ReconcileSpec
INVARIANTS ReconcileTypeOK
PROPERTIES ManagedSurvive ServedRoutesStay
CHECK_DEADLOCK FALSE
SYMMETRY Symmetry
