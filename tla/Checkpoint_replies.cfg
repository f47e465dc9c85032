\* Two checkpoints, two approvers, two replies handled side by side.
CONSTANTS
    Checkpoints = {k1, k2}
    Approvers = {a1, a2}
    Replies = {m1, m2}
    NoCheckpoint = NoCheckpoint
    NoApprover = NoApprover
SPECIFICATION Spec
INVARIANTS TypeOK OneActionPerYes ApprovedIsDoneOrUnpublished ToldIsFinal
SYMMETRY MCSymmetry
CHECK_DEADLOCK FALSE
