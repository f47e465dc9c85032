------------------------- MODULE MCDeploymentConfig -------------------------
(***************************************************************************)
(* Instances of DeploymentConfig for TLC.                                  *)
(***************************************************************************)
EXTENDS DeploymentConfig, TLC

MCBranches == {"staging", "master", "dev"}

\* One branch for both, one for each, or one for staging only.
MCBranchInputs ==
    {[branch |-> "dev", staging |-> NoBranch, production |-> NoBranch],
     [branch |-> NoBranch, staging |-> "dev", production |-> NoBranch]}

\* A signing key and an address.
MCTexts == {{"ADMIN_SECRET", "baseURL"}}

MCTextInputs ==
    {[e \in Env |-> NoText], [e \in Env |-> {"ADMIN_SECRET", "baseURL"}]}

MCSymmetry == Permutations(Requests)

=============================================================================
