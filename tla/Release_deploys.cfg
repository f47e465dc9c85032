\* Two jobs of any kind side by side, in seven set-ups.
CONSTANTS
    Jobs = {j1, j2}
    MaxCommit = 2
    Configs <- MCConfigs
    Rolling = Rolling
    Before = Before
    NoCommit = NoCommit
    NoImage = NoImage
SPECIFICATION Spec
INVARIANTS TypeOK VerifiedRunsCommit SuccessServesData ReadyHadItsImage
SYMMETRY MCSymmetry
CHECK_DEADLOCK FALSE
