--------------------------- MODULE DeployLifecycle ---------------------------
(***************************************************************************)
(* What the deployments page promises of deploy runs, whatever drives them:  *)
(* a run begins queued, is recorded a success only once it has earned it,    *)
(* and, when nothing but the API itself writes its row, is never opened      *)
(* again once closed and is shown on the environment only then.             *)
(***************************************************************************)
CONSTANTS Runs, NoRun

VARIABLES
    status,  \* each run's row
    earned,  \* the runs whose deployment ended well and passed its gate
    shown,   \* the run whose version the environment shows
    green,   \* the environment is shown as active
    solo     \* the runs whose row only the API writes

vars == <<status, earned, shown, green, solo>>

Open     == {"queued", "building"}
Terminal == {"success", "failed"}

Init ==
    /\ status = [r \in Runs |-> "absent"]
    /\ earned \in SUBSET Runs
    /\ shown = NoRun /\ green = FALSE
    /\ solo \in SUBSET Runs

Create(r) ==
    /\ status[r] = "absent"
    /\ status' = [status EXCEPT ![r] = "queued"]
    /\ UNCHANGED <<earned, shown, green, solo>>

\* Success is earned for good.
Earn ==
    /\ earned \subseteq earned' /\ earned' \subseteq Runs
    /\ UNCHANGED <<status, shown, green, solo>>

Record(r, s) ==
    /\ status[r] # "absent"
    /\ s = "success" => r \in earned
    /\ r \in solo /\ status[r] \in Terminal => s \in Terminal
    /\ status' = [status EXCEPT ![r] = s]
    /\ UNCHANGED <<earned, shown, green, solo>>

Show(r) ==
    /\ r \in solo => status[r] \in Terminal
    /\ shown' = r
    /\ green' \in BOOLEAN /\ (green' => r \in earned)
    /\ UNCHANGED <<status, earned, solo>>

Next ==
    \/ Earn
    \/ \E r \in Runs : Create(r) \/ Show(r) \/ \E s \in Open \cup Terminal : Record(r, s)

Spec == Init /\ [][Next]_vars

=============================================================================
