\* Three calls, side by side or one after the other, for two environments.
CONSTANTS
    Calls = {h1, h2, h3}
    Environments = {staging, production}
    None = None
SPECIFICATION Spec
INVARIANTS TypeOK ReadyHasItsApp ReprovisionFindsPlaces ProvisioningIsTended
SYMMETRY MCSymmetry
CHECK_DEADLOCK FALSE
