----------------------------- MODULE MCRelease -----------------------------
(***************************************************************************)
(* Instances of Release for TLC.                                           *)
(***************************************************************************)
EXTENDS Release, TLC

Plain == [token |-> TRUE, workflow |-> FALSE, ecr |-> FALSE, skipBuild |-> FALSE, mongo |-> FALSE,
          named |-> TRUE, labelled |-> TRUE, remote |-> TRUE]

\* Images from GitHub Actions, with and without a commit in them; releases with a build
\* of their own, on the build server or in the API's container, or a skipped one, with a
\* data volume; names the gate does not know.
MCConfigs ==
    {[Plain EXCEPT !.workflow = TRUE],
     [Plain EXCEPT !.workflow = TRUE, !.ecr = TRUE, !.labelled = FALSE],
     [Plain EXCEPT !.ecr = TRUE],
     [Plain EXCEPT !.ecr = TRUE, !.remote = FALSE],
     [Plain EXCEPT !.ecr = TRUE, !.skipBuild = TRUE],
     [Plain EXCEPT !.mongo = TRUE, !.named = FALSE],
     [Plain EXCEPT !.token = FALSE, !.ecr = TRUE, !.mongo = TRUE]}

MCSymmetry == Permutations(Jobs)

=============================================================================
