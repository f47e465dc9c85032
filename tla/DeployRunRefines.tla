--------------------------- MODULE DeployRunRefines ---------------------------
(***************************************************************************)
(* DeployRun implements DeployLifecycle: the rows are the rows, a run has   *)
(* earned its success when Coolify or the host finished and the gate said   *)
(* yes, and the environment row shows the run of its tag.                  *)
(***************************************************************************)
EXTENDS DeployRun

StatusOf == [r \in Runs |-> run[r].status]
EarnedBy == {r \in Runs : Earned(r)}
SoloRuns == {r \in Runs : Solo(r)}

Lifecycle == INSTANCE DeployLifecycle
    WITH status <- StatusOf, earned <- EarnedBy, shown <- env.tag,
         green <- (env.status = "active"), solo <- SoloRuns

\* Pipelines, pollers, webhooks, timers and restarts together do to the rows and the
\* environment only what the lifecycle of a run allows.
ImplementsLifecycle == Lifecycle!Spec

=============================================================================
