\* Two requests side by side, of any kind, on a new or a provisioned service.
CONSTANTS
    Requests = {q1, q2}
    Branches <- MCBranches
    BranchInputs <- MCBranchInputs
    Texts <- MCTexts
    TextInputs <- MCTextInputs
    BoxKeys = {"baseURL"}
    Commits = {c1, c2}
    NoBranch = NoBranch
    NoValue = NoValue
    NoText = NoText
    NoApp = NoApp
    NoCommit = NoCommit
    First = First
    CallsFail = TRUE
SPECIFICATION ConfigSpec
INVARIANTS ConfigTypeOK PushedWasStored DeployCarriesVault SavedBranchesAgree
SYMMETRY MCSymmetry
CHECK_DEADLOCK FALSE
