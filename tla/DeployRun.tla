------------------------------ MODULE DeployRun ------------------------------
(***************************************************************************)
(* The life of a deploy run: the row of public.deploy_runs that            *)
(* CicdService.triggerDeploy creates, and everything that writes it         *)
(* afterwards.  Four drivers share the table:                              *)
(*   "coolify"      the row is created once Coolify accepted the deploy,    *)
(*                  then a poller and Coolify's webhooks both write it;     *)
(*   "ecr-release"  the row exists first, a background pipeline builds and  *)
(*                  pins the image, asks Coolify to deploy, then polls;     *)
(*   "ssh-build"    the row exists first, a build is started on the host    *)
(*                  over SSH, then its log is polled;                       *)
(*   "simulate"     two timers write the row.                               *)
(* Every run here targets the same environment of the same service, so that *)
(* they also meet in that service's environment row.                        *)
(*                                                                         *)
(* One action is the code between two awaits that reach shared state.  The  *)
(* pollers, the pipelines, the webhook handlers and the map from runs to    *)
(* Coolify ids live in the API process only: a restart loses them.          *)
(***************************************************************************)
EXTENDS Naturals

CONSTANTS
    Runs,         \* deploy requests that pass RBAC, CI readiness and pre-flight
    Handlers,     \* webhook requests the API serves at the same time
    Drivers,      \* the drivers a request may be resolved to
    Commits,      \* git commits
    ErrorTexts,   \* failure texts Coolify, or the build log, may give
    NoCommit, NoError, NoRun,
    MaxMisses,    \* polls Coolify may fail in a row: 8 in the code
    MaxRestarts   \* bound on the restarts of the API process

AllDrivers == {"coolify", "ecr-release", "ssh-build", "simulate"}

ASSUME DriversAssumption == Drivers \subseteq AllDrivers
ASSUME NoRunAssumption == NoRun \notin Runs
ASSUME BoundsAssumption == MaxMisses \in Nat \ {0} /\ MaxRestarts \in Nat

VARIABLES
    req,       \* the request: driver, is a service known, the commit CI or the release built
    pc,        \* control of the request handler and of the pipeline behind it
    run,       \* rows of deploy_runs
    sim,       \* writes the simulated lifecycle still owes
    ext,       \* Coolify's deployment, or the build on the host
    coolifyId, \* what the poller asks Coolify for
    poll,      \* pollers
    notes,     \* Coolify notifications under way to the API
    hook,      \* webhook handlers
    env,       \* the service's environment row
    vouched,   \* what the post-deploy gate has let through: runs, for a commit
    restarts,
    reopened   \* history: closed runs a "started" has opened again, with no word of an end since

vars == <<req, pc, run, sim, ext, coolifyId, poll, notes, hook, env, vouched, restarts, reopened>>

Open     == {"queued", "building"}
Terminal == {"success", "failed"}
Status   == Open \cup Terminal

Commit == Commits \cup {NoCommit}

\* The texts the code itself writes into error_message.
GateError     == "gate"
TimeoutError  == "timeout"
NotFoundError == "not found"
StartError    == "did not start"
Error == ErrorTexts \cup {NoError, GateError, TimeoutError, NotFoundError, StartError}

Row    == [status : Status \cup {"absent"}, commit : Commit, error : Error]
Absent == [status |-> "absent", commit |-> NoCommit, error |-> NoError]

\* COALESCE: a missing value keeps the column.
Coalesce(new, old, none) == IF new = none THEN old ELSE new

\* deployRuns.updateStatus: an unconditional UPDATE by id.
Updated(row, status, commit, error) ==
    [status |-> status,
     commit |-> Coalesce(commit, row.commit, NoCommit),
     error  |-> Coalesce(error, row.error, NoError)]

UpdateStatus(r, status, commit, error) ==
    run' = [run EXCEPT ![r] = Updated(run[r], status, commit, error)]

\* deployRuns.create
Queued(commit) == [status |-> "queued", commit |-> commit, error |-> NoError]

CreateRun(r, commit) == run' = [run EXCEPT ![r] = Queued(commit)]

\* finalizeServiceEnv and applyDeployOutcome, seen by the one environment the
\* runs share: each outcome overwrites status, version and commit.
FinalizeServiceEnv(r, outcome, commit) ==
    env' = IF req[r].service
           THEN [status |-> IF outcome = "success" THEN "active" ELSE "error",
                 tag |-> r, commit |-> commit]
           ELSE env

-----------------------------------------------------------------------------

PollOff == [pc |-> "off", misses |-> 0, late |-> FALSE, mapped |-> "queued",
            commit |-> NoCommit, error |-> NoError, seen |-> Absent]
PollStarted == [PollOff EXCEPT !.pc = "wait"]

\* What the timer of the next tick keeps of a poller.
Rearmed(p) == [PollStarted EXCEPT !.misses = p.misses, !.late = p.late]

HookIdle == [pc |-> "idle", run |-> NoRun, status |-> "building",
             commit |-> NoCommit, error |-> NoError, expected |-> NoCommit]

Phase == {"none", "queued", "in_progress", "finished", "failed"}

Deployment == [phase : Phase, commit : Commit]

PollState == [pc : {"off", "wait", "read", "gate", "write", "finalize", "timeout"},
              misses : 0..(MaxMisses - 1), late : BOOLEAN, mapped : Status,
              commit : Commit, error : Error, seen : Row]

HookState == [pc : {"idle", "gate", "write", "finalize"}, run : Runs \cup {NoRun},
              status : Status, commit : Commit, error : Error, expected : Commit]

TypeOK ==
    /\ req \in [Runs -> [driver : AllDrivers, service : BOOLEAN, expected : Commit]]
    /\ pc \in [Runs -> {"idle", "queued", "releasing", "request", "starting", "started",
                        "refused", "closing", "done", "abandoned", "dead"}]
    /\ run \in [Runs -> Row]
    /\ sim \in [Runs -> SUBSET {"building", "success", "finalize"}]
    /\ ext \in [Runs -> Deployment]
    /\ coolifyId \in [Runs -> {"none", "uuid", "fallback"}]
    /\ poll \in [Runs -> PollState]
    /\ notes \subseteq [run : Runs, event : {"started", "success", "failed"}]
    /\ hook \in [Handlers -> HookState]
    /\ \A h \in Handlers : hook[h].pc # "idle" => hook[h].run \in Runs
    /\ env \in [status : {"idle", "active", "error"}, tag : Runs \cup {NoRun}, commit : Commit]
    /\ vouched \subseteq Runs \X Commit
    /\ restarts \in 0..MaxRestarts
    /\ reopened \subseteq Runs

\* What reaches the drivers: an ECR release and a source build need the
\* service's target, and only Coolify deploys of a target with a repository wait
\* for a green CI run and remember its commit.
Requests ==
    {q \in [driver : Drivers, service : BOOLEAN, expected : Commit] :
        /\ q.driver \in {"ecr-release", "ssh-build"} => q.service
        /\ q.expected # NoCommit => q.service /\ q.driver \in {"coolify", "ecr-release"}}

Init ==
    /\ req \in [Runs -> Requests]
    /\ pc = [r \in Runs |-> "idle"]
    /\ run = [r \in Runs |-> Absent]
    /\ sim = [r \in Runs |-> {}]
    /\ ext = [r \in Runs |-> [phase |-> "none", commit |-> NoCommit]]
    /\ coolifyId = [r \in Runs |-> "none"]
    /\ poll = [r \in Runs |-> PollOff]
    /\ notes = {}
    /\ hook = [h \in Handlers |-> HookIdle]
    /\ env = [status |-> "idle", tag |-> NoRun, commit |-> NoCommit]
    /\ vouched = {}
    /\ restarts = 0
    /\ reopened = {}

-----------------------------------------------------------------------------
(***************************************************************************)
(* The request handler and the pipelines it leaves behind.                 *)
(***************************************************************************)

Goto(r, to) == pc' = [pc EXCEPT ![r] = to]

StartPolling(r) == poll' = [poll EXCEPT ![r] = PollStarted]

\* triggerDeploy, up to its first effect: every driver but "coolify" inserts the
\* row before anything else happens.
Trigger(r) ==
    /\ pc[r] = "idle"
    /\ \/ /\ req[r].driver = "coolify"
          /\ Goto(r, "request")
          /\ UNCHANGED <<run, sim>>
       \/ /\ req[r].driver = "ecr-release"
          /\ Goto(r, "queued")
          /\ CreateRun(r, req[r].expected)
          /\ UNCHANGED sim
       \/ /\ req[r].driver = "ssh-build"
          /\ Goto(r, "starting")
          /\ CreateRun(r, NoCommit)
          /\ UNCHANGED sim
       \/ /\ req[r].driver = "simulate"
          /\ Goto(r, "done")
          /\ CreateRun(r, NoCommit)
          /\ sim' = [sim EXCEPT ![r] = {"building", "success"}]
    /\ UNCHANGED <<req, ext, coolifyId, poll, notes, hook, env, vouched, restarts, reopened>>

\* scheduleSimulatedLifecycle.  The two timers issue their UPDATEs without
\* waiting for one another: the database may apply them in either order.
SimBuilding(r) ==
    /\ "building" \in sim[r]
    /\ UpdateStatus(r, "building", NoCommit, NoError)
    /\ sim' = [sim EXCEPT ![r] = @ \ {"building"}]
    /\ UNCHANGED <<req, pc, ext, coolifyId, poll, notes, hook, env, vouched, restarts, reopened>>

SimSuccess(r) ==
    /\ "success" \in sim[r]
    /\ \E c \in Commits : UpdateStatus(r, "success", c, NoError)
    /\ sim' = [sim EXCEPT ![r] = (@ \ {"success"}) \cup {"finalize"}]
    /\ UNCHANGED <<req, pc, ext, coolifyId, poll, notes, hook, env, vouched, restarts, reopened>>

SimFinalize(r) ==
    /\ "finalize" \in sim[r]
    /\ FinalizeServiceEnv(r, "success", run[r].commit)
    /\ sim' = [sim EXCEPT ![r] = @ \ {"finalize"}]
    /\ UNCHANGED <<req, pc, run, ext, coolifyId, poll, notes, hook, vouched, restarts, reopened>>

\* runEcrThenCoolify: mark the run, then build, push and pin the image.
EcrBegin(r) ==
    /\ pc[r] = "queued"
    /\ UpdateStatus(r, "building", NoCommit, NoError)
    /\ Goto(r, "releasing")
    /\ UNCHANGED <<req, sim, ext, coolifyId, poll, notes, hook, env, vouched, restarts, reopened>>

EcrReleased(r) ==
    /\ pc[r] = "releasing"
    /\ \E c \in Commits :
          /\ req' = [req EXCEPT ![r].expected = c]
          /\ UpdateStatus(r, "building", c, NoError)
    /\ Goto(r, "request")
    /\ UNCHANGED <<sim, ext, coolifyId, poll, notes, hook, env, vouched, restarts, reopened>>

\* GET /api/v1/deploy reaches Coolify, which queues a deployment of its own
\* choice of commit.
CoolifyAccepts(r) ==
    /\ pc[r] = "request" /\ ext[r].phase = "none"
    /\ \E c \in Commits : ext' = [ext EXCEPT ![r] = [phase |-> "queued", commit |-> c]]
    /\ UNCHANGED <<req, pc, run, sim, coolifyId, poll, notes, hook, env, vouched, restarts, reopened>>

\* Coolify's answer arrives.  The body may lack a deployment uuid: the
\* idempotency key then stands in for it, and Coolify does not know it.
CoolifyAnswered(r) ==
    /\ pc[r] = "request" /\ ext[r].phase # "none"
    /\ \E id \in {"uuid", "fallback"} : coolifyId' = [coolifyId EXCEPT ![r] = id]
    /\ IF req[r].driver = "coolify" THEN CreateRun(r, req[r].expected) ELSE UNCHANGED run
    /\ StartPolling(r)
    /\ Goto(r, "done")
    /\ UNCHANGED <<req, sim, ext, notes, hook, env, vouched, restarts, reopened>>

\* startSourceDeploy launches the build on the host and returns a handle.
SshLaunched(r) ==
    /\ pc[r] = "starting"
    /\ \E c \in Commits : ext' = [ext EXCEPT ![r] = [phase |-> "in_progress", commit |-> c]]
    /\ Goto(r, "started")
    /\ UNCHANGED <<req, run, sim, coolifyId, poll, notes, hook, env, vouched, restarts, reopened>>

SshBuilding(r) ==
    /\ pc[r] = "started"
    /\ UpdateStatus(r, "building", NoCommit, NoError)
    /\ StartPolling(r)
    /\ Goto(r, "done")
    /\ UNCHANGED <<req, sim, ext, coolifyId, notes, hook, env, vouched, restarts, reopened>>

\* Any await of the handler or pipeline may throw: Coolify refuses or the 15 s
\* timeout fires (Coolify may have accepted all the same), the release fails,
\* SSH or the database is unreachable.  A "coolify" request has no row yet and
\* leaves none; the others go to their catch block.
PipelineThrows(r) ==
    /\ pc[r] \in {"queued", "releasing", "request", "starting", "started"}
    /\ Goto(r, IF req[r].driver = "coolify" THEN "abandoned" ELSE "refused")
    /\ UNCHANGED <<req, run, sim, ext, coolifyId, poll, notes, hook, env, vouched, restarts, reopened>>

\* The catch blocks.  Only the ECR pipeline goes on to the environment row.
MarkRefused(r) ==
    /\ pc[r] = "refused"
    /\ UpdateStatus(r, "failed", NoCommit, StartError)
    /\ Goto(r, IF req[r].driver = "ecr-release" THEN "closing" ELSE "done")
    /\ UNCHANGED <<req, sim, ext, coolifyId, poll, notes, hook, env, vouched, restarts, reopened>>

FinalizeRefused(r) ==
    /\ pc[r] = "closing"
    /\ FinalizeServiceEnv(r, "failed", NoCommit)
    /\ Goto(r, "done")
    /\ UNCHANGED <<req, run, sim, ext, coolifyId, poll, notes, hook, vouched, restarts, reopened>>

\* The UPDATE of the SSH catch block throws in turn: the caller gets a 500 and
\* nothing is left to close the run.  (In the ECR pipeline the same failure is
\* an unhandled rejection, which ends the process: see Restart.)
RefusedThrows(r) ==
    /\ pc[r] = "refused" /\ req[r].driver = "ssh-build"
    /\ Goto(r, "abandoned")
    /\ UNCHANGED <<req, run, sim, ext, coolifyId, poll, notes, hook, env, vouched, restarts, reopened>>

-----------------------------------------------------------------------------
(***************************************************************************)
(* Outside: Coolify's deployment, or the build script on the host.         *)
(***************************************************************************)

Notify(r, event) ==
    notes' = IF req[r].driver = "ssh-build" THEN notes
             ELSE notes \cup {[run |-> r, event |-> event]}

ExtStarts(r) ==
    /\ ext[r].phase = "queued"
    /\ ext' = [ext EXCEPT ![r].phase = "in_progress"]
    /\ Notify(r, "started")
    /\ UNCHANGED <<req, pc, run, sim, coolifyId, poll, hook, env, vouched, restarts, reopened>>

\* A deployment still queued can be cancelled, which Coolify reports as failed.
ExtEnds(r) ==
    /\ \/ /\ ext[r].phase = "in_progress"
          /\ ext' = [ext EXCEPT ![r].phase = "finished"]
          /\ Notify(r, "success")
       \/ /\ ext[r].phase \in {"queued", "in_progress"}
          /\ ext' = [ext EXCEPT ![r].phase = "failed"]
          /\ Notify(r, "failed")
    /\ UNCHANGED <<req, pc, run, sim, coolifyId, poll, hook, env, vouched, restarts, reopened>>

-----------------------------------------------------------------------------
(***************************************************************************)
(* The pollers: pollCoolifyDeployment and pollSourceDeploy.                *)
(***************************************************************************)

SetPoll(r, p) == poll' = [poll EXCEPT ![r] = p]

\* The environment's side of applyPostDeployGate: the hooks run only after a
\* success of a run that has a service, and answer yes or no.
GateAnswers(r, outcome) ==
    IF outcome = "success" /\ req[r].service THEN {"success", "failed"} ELSE {outcome}

Vouch(r, outcome, commit) ==
    vouched' = IF outcome = "success" /\ req[r].service
               THEN vouched \cup {<<r, commit>>} ELSE vouched

\* Polling started longer ago than maxMs.
PollDeadline(r) ==
    /\ poll[r].pc # "off" /\ ~poll[r].late
    /\ SetPoll(r, [poll[r] EXCEPT !.late = TRUE])
    /\ UNCHANGED <<req, pc, run, sim, ext, coolifyId, notes, hook, env, vouched, restarts, reopened>>

\* Mutant: the clock starts again at every tick instead of the run being closed.
PollTimeoutRestarts(r) ==
    /\ poll[r].pc = "wait" /\ poll[r].late
    /\ SetPoll(r, [poll[r] EXCEPT !.late = FALSE])
    /\ UNCHANGED <<req, pc, run, sim, ext, coolifyId, notes, hook, env, vouched, restarts, reopened>>

PollTimeout(r) ==
    /\ poll[r].pc = "wait" /\ poll[r].late
    /\ UpdateStatus(r, "failed", NoCommit, TimeoutError)
    /\ SetPoll(r, [PollOff EXCEPT !.pc = "timeout", !.late = TRUE])
    /\ UNCHANGED <<req, pc, sim, ext, coolifyId, notes, hook, env, vouched, restarts, reopened>>

PollTimeoutFinalize(r) ==
    /\ poll[r].pc = "timeout"
    /\ FinalizeServiceEnv(r, "failed", NoCommit)
    /\ SetPoll(r, PollOff)
    /\ UNCHANGED <<req, pc, run, sim, ext, coolifyId, notes, hook, vouched, restarts, reopened>>

\* Mutant: the limit is compared with > instead of >=.
PollMissOneMore(r) ==
    /\ poll[r].pc = "wait" /\ ~poll[r].late /\ req[r].driver # "ssh-build"
    /\ \/ /\ poll[r].misses + 1 <= MaxMisses
          /\ SetPoll(r, [poll[r] EXCEPT !.misses = @ + 1])
          /\ UNCHANGED run
       \/ /\ poll[r].misses + 1 > MaxMisses
          /\ UpdateStatus(r, "failed", NoCommit, NotFoundError)
          /\ SetPoll(r, PollOff)
    /\ UNCHANGED <<req, pc, sim, ext, coolifyId, notes, hook, env, vouched, restarts, reopened>>

\* Coolify answers the poll with an error status.  The last miss closes the run
\* and returns at once: this path leaves the environment row as it was.
PollMiss(r) ==
    /\ poll[r].pc = "wait" /\ ~poll[r].late /\ req[r].driver # "ssh-build"
    /\ \/ /\ poll[r].misses + 1 < MaxMisses
          /\ SetPoll(r, [poll[r] EXCEPT !.misses = @ + 1])
          /\ UNCHANGED run
       \/ /\ poll[r].misses + 1 >= MaxMisses
          /\ UpdateStatus(r, "failed", NoCommit, NotFoundError)
          /\ SetPoll(r, PollOff)
    /\ UNCHANGED <<req, pc, sim, ext, coolifyId, notes, hook, env, vouched, restarts, reopened>>

\* mapCoolifyApiStatus
MapCoolifyApiStatus(phase) ==
    CASE phase = "failed"      -> "failed"
      [] phase = "finished"    -> "success"
      [] phase = "in_progress" -> "building"
      [] OTHER                 -> "queued"

\* A failure always comes with a text: the hint from the logs, or the status.
ErrorsOf(mapped) == IF mapped = "failed" THEN ErrorTexts ELSE {NoError}

\* GET /api/v1/deployments/{id} answered.
PollFetch(r) ==
    /\ poll[r].pc = "wait" /\ ~poll[r].late
    /\ req[r].driver # "ssh-build" /\ coolifyId[r] = "uuid"
    /\ LET mapped == MapCoolifyApiStatus(ext[r].phase) IN
       \E c \in {NoCommit, ext[r].commit}, e \in ErrorsOf(mapped) :
          SetPoll(r, [poll[r] EXCEPT !.pc = "read", !.misses = 0, !.mapped = mapped,
                                     !.commit = c, !.error = e])
    /\ UNCHANGED <<req, pc, run, sim, ext, coolifyId, notes, hook, env, vouched, restarts, reopened>>

\* getById: the row as it is now decides what is written after the next awaits.  (A
\* local the code no longer reads goes back to its default, here and below, so that
\* TLC does not tell such states apart.)
PollRead(r) ==
    /\ poll[r].pc = "read"
    /\ \/ /\ poll[r].mapped \in Terminal
          /\ SetPoll(r, [poll[r] EXCEPT !.pc = "gate", !.seen = run[r]])
       \/ /\ poll[r].mapped \in Open /\ run[r].status # poll[r].mapped
          /\ SetPoll(r, [poll[r] EXCEPT !.pc = "write"])
       \/ /\ poll[r].mapped \in Open /\ run[r].status = poll[r].mapped
          /\ SetPoll(r, Rearmed(poll[r]))
    /\ UNCHANGED <<req, pc, run, sim, ext, coolifyId, notes, hook, env, vouched, restarts, reopened>>

\* pollSourceDeploy: the done file means success; an error line in the tail of the
\* log means failure even while the script runs on; otherwise keep waiting.
SourceDeployAnswers(r) ==
    CASE ext[r].phase = "finished" -> {"success"}
      [] OTHER                     -> {"failed", "building"}

PollSource(r) ==
    /\ poll[r].pc = "wait" /\ ~poll[r].late /\ req[r].driver = "ssh-build"
    /\ \E mapped \in SourceDeployAnswers(r) \cap Terminal :
       \E c \in IF mapped = "success" THEN {NoCommit, ext[r].commit} ELSE {NoCommit},
          e \in ErrorsOf(mapped) :
          SetPoll(r, [poll[r] EXCEPT !.pc = "gate", !.mapped = mapped,
                                     !.commit = c, !.error = e])
    /\ UNCHANGED <<req, pc, run, sim, ext, coolifyId, notes, hook, env, vouched, restarts, reopened>>

\* The commit the gate is given: the row's, as read before, or else Coolify's.
PollExpected(r) == Coalesce(poll[r].seen.commit, poll[r].commit, NoCommit)

\* Mutant: the environment row is finalized before the run's row is written.
PollGateFinalizesFirst(r) ==
    /\ poll[r].pc = "gate"
    /\ \E outcome \in GateAnswers(r, poll[r].mapped) :
         /\ Vouch(r, outcome, PollExpected(r))
         /\ SetPoll(r, [poll[r] EXCEPT !.pc = "finalize", !.mapped = outcome])
    /\ UNCHANGED <<req, pc, run, sim, ext, coolifyId, notes, hook, env, restarts, reopened>>

\* Coolify's poller stops here, without a word to the environment row, when the
\* row it read already says what it was about to write.
PollGate(r) ==
    /\ poll[r].pc = "gate"
    /\ \E outcome \in GateAnswers(r, poll[r].mapped) :
         LET error == IF outcome = poll[r].mapped THEN poll[r].error ELSE GateError
             unchanged == /\ req[r].driver # "ssh-build"
                          /\ poll[r].seen.status = outcome
                          /\ error \in {NoError, poll[r].seen.error}
         IN /\ Vouch(r, outcome, PollExpected(r))
            /\ SetPoll(r, IF unchanged THEN PollOff
                          ELSE [poll[r] EXCEPT !.pc = "write", !.mapped = outcome,
                                               !.error = error, !.seen = Absent])
    /\ UNCHANGED <<req, pc, run, sim, ext, coolifyId, notes, hook, env, restarts, reopened>>

PollWrite(r) ==
    /\ poll[r].pc = "write"
    /\ UpdateStatus(r, poll[r].mapped, poll[r].commit, poll[r].error)
    /\ SetPoll(r, IF poll[r].mapped \in Terminal
                  THEN [poll[r] EXCEPT !.pc = "finalize", !.error = NoError]
                  ELSE Rearmed(poll[r]))
    /\ UNCHANGED <<req, pc, sim, ext, coolifyId, notes, hook, env, vouched, restarts, reopened>>

PollFinalize(r) ==
    /\ poll[r].pc = "finalize"
    /\ FinalizeServiceEnv(r, poll[r].mapped, poll[r].commit)
    /\ SetPoll(r, PollOff)
    /\ UNCHANGED <<req, pc, run, sim, ext, coolifyId, notes, hook, vouched, restarts, reopened>>

\* Mutant: the catch does not arm the next tick.
PollThrowsForGood(r) ==
    /\ poll[r].pc \in {"read", "gate", "write", "finalize"}
    /\ SetPoll(r, PollOff)
    /\ UNCHANGED <<req, pc, run, sim, ext, coolifyId, notes, hook, env, vouched, restarts, reopened>>

\* Anything the tick awaits may throw; the catch arms the next tick.
PollThrows(r) ==
    /\ poll[r].pc \in {"read", "gate", "write", "finalize"}
    /\ SetPoll(r, Rearmed(poll[r]))
    /\ UNCHANGED <<req, pc, run, sim, ext, coolifyId, notes, hook, env, vouched, restarts, reopened>>

-----------------------------------------------------------------------------
(***************************************************************************)
(* The webhooks: handleCoolifyNotification.  Coolify knows a run by the     *)
(* uuid of its own deployment, which is the row's id for "coolify" runs     *)
(* only.  Notifications may be lost, repeated and reordered.               *)
(***************************************************************************)

SetHook(h, k) == hook' = [hook EXCEPT ![h] = k]

\* mapCoolifyEvent
MapCoolifyEvent(event) == IF event = "started" THEN "building" ELSE event

Known(r) == run[r].status # "absent" /\ req[r].driver = "coolify" /\ coolifyId[r] = "uuid"

\* The notification never arrives, or names a run getById does not find.
NoteDropped(n) ==
    /\ notes' = notes \ {n}
    /\ UNCHANGED <<req, pc, run, sim, ext, coolifyId, poll, hook, env, vouched, restarts, reopened>>

\* getById found the row; "expected" is the commit the gate will be given.
HookReceive(h, n) ==
    /\ hook[h].pc = "idle" /\ Known(n.run)
    /\ notes' \in {notes, notes \ {n}}
    /\ LET status == MapCoolifyEvent(n.event) IN
       \E c \in {NoCommit, ext[n.run].commit}, e \in ErrorsOf(status) :
          SetHook(h, IF status \in Terminal
                     THEN [pc |-> "gate", run |-> n.run, status |-> status, commit |-> c,
                           error |-> e, expected |-> Coalesce(run[n.run].commit, c, NoCommit)]
                     ELSE [HookIdle EXCEPT !.pc = "write", !.run = n.run, !.commit = c])
    /\ UNCHANGED <<req, pc, run, sim, ext, coolifyId, poll, env, vouched, restarts, reopened>>

\* Mutant: the webhook trusts Coolify's word and skips the post-deploy hooks.
HookGateSkipped(h) ==
    /\ hook[h].pc = "gate"
    /\ SetHook(h, [hook[h] EXCEPT !.pc = "write", !.expected = NoCommit])
    /\ UNCHANGED <<req, pc, run, sim, ext, coolifyId, poll, notes, env, vouched, restarts, reopened>>

HookGate(h) ==
    /\ hook[h].pc = "gate"
    /\ \E outcome \in GateAnswers(hook[h].run, hook[h].status) :
         /\ Vouch(hook[h].run, outcome, hook[h].expected)
         /\ SetHook(h, [hook[h] EXCEPT !.pc = "write", !.status = outcome,
                           !.error = IF outcome = hook[h].status THEN @ ELSE GateError,
                           !.expected = NoCommit])
    /\ UNCHANGED <<req, pc, run, sim, ext, coolifyId, poll, notes, env, restarts, reopened>>

\* The UPDATE does not look at the status it replaces.
HookWrite(h) ==
    /\ hook[h].pc = "write"
    /\ UpdateStatus(hook[h].run, hook[h].status, hook[h].commit, hook[h].error)
    /\ reopened' = IF hook[h].status \in Terminal THEN reopened \ {hook[h].run}
                   ELSE reopened \cup {r \in {hook[h].run} : run[r].status \in Terminal}
    /\ SetHook(h, IF hook[h].status \in Terminal
                  THEN [hook[h] EXCEPT !.pc = "finalize", !.error = NoError] ELSE HookIdle)
    /\ UNCHANGED <<req, pc, sim, ext, coolifyId, poll, notes, env, vouched, restarts>>

HookFinalize(h) ==
    /\ hook[h].pc = "finalize"
    /\ FinalizeServiceEnv(hook[h].run, hook[h].status, hook[h].commit)
    /\ SetHook(h, HookIdle)
    /\ UNCHANGED <<req, pc, run, sim, ext, coolifyId, poll, notes, vouched, restarts, reopened>>

\* The handler throws: Coolify gets a 500 and the rest is not done.
HookThrows(h) ==
    /\ hook[h].pc # "idle"
    /\ SetHook(h, HookIdle)
    /\ UNCHANGED <<req, pc, run, sim, ext, coolifyId, poll, notes, env, vouched, restarts, reopened>>

-----------------------------------------------------------------------------

\* The API process ends and comes back: a deployment of Praxarch itself, a crash,
\* or an unhandled rejection of a timer.  Nothing on start-up looks for open runs.
Restart ==
    /\ restarts < MaxRestarts
    /\ restarts' = restarts + 1
    /\ pc' = [r \in Runs |-> IF pc[r] \in {"idle", "done", "abandoned"} THEN pc[r] ELSE "dead"]
    /\ sim' = [r \in Runs |-> {}]
    /\ poll' = [r \in Runs |-> PollOff]
    /\ hook' = [h \in Handlers |-> HookIdle]
    /\ reopened' = {}
    /\ UNCHANGED <<req, run, ext, coolifyId, notes, env, vouched>>

Pipeline(r) ==
    \/ Trigger(r) \/ SimBuilding(r) \/ SimSuccess(r) \/ SimFinalize(r)
    \/ EcrBegin(r) \/ EcrReleased(r) \/ CoolifyAnswered(r)
    \/ SshLaunched(r) \/ SshBuilding(r)
    \/ PipelineThrows(r) \/ MarkRefused(r) \/ FinalizeRefused(r) \/ RefusedThrows(r)

Poller(r) ==
    \/ PollTimeout(r) \/ PollTimeoutFinalize(r) \/ PollMiss(r) \/ PollFetch(r)
    \/ PollRead(r) \/ PollSource(r) \/ PollGate(r) \/ PollWrite(r) \/ PollFinalize(r)
    \/ PollThrows(r)

External(r) == CoolifyAccepts(r) \/ ExtStarts(r) \/ ExtEnds(r)

Webhook(h) ==
    \/ \E n \in notes : HookReceive(h, n)
    \/ HookGate(h) \/ HookWrite(h) \/ HookFinalize(h) \/ HookThrows(h)

Next ==
    \/ \E r \in Runs : Pipeline(r) \/ Poller(r) \/ PollDeadline(r) \/ External(r)
    \/ \E h \in Handlers : Webhook(h)
    \/ \E n \in notes : NoteDropped(n)
    \/ Restart

Spec == Init /\ [][Next]_vars

-----------------------------------------------------------------------------
(***************************************************************************)
(* What must hold.                                                         *)
(***************************************************************************)

\* The deployment behind the run really ended well and, when hooks apply to the
\* run, the post-deploy gate said yes at least once.
Earned(r) ==
    \/ req[r].driver = "simulate"
    \/ /\ ext[r].phase = "finished"
       /\ req[r].service => \E c \in Commit : <<r, c>> \in vouched

\* A run is recorded as a success only if it earned it, whichever of the poller and
\* the webhook handlers wrote last, and however late their reading was.
SuccessIsEarned == \A r \in Runs : run[r].status = "success" => Earned(r)

\* The environment shows "active" only with the version of a run that earned it:
\* no timeout, catch block or crossed handler can turn a bad deploy green.
ActiveIsEarned == env.status = "active" => env.tag \in Runs /\ Earned(env.tag)

\* The drivers whose row no webhook writes.
Solo(r) == req[r].driver \in {"ecr-release", "ssh-build"}

\* Somebody in the process still owes run r a write.
Tended(r) ==
    \/ pc[r] \in {"queued", "releasing", "request", "starting", "started", "refused"}
    \/ poll[r].pc # "off"

\* Until the process restarts, an open run is never left behind: some pipeline or
\* poller still has it, on every path through the catch blocks, early returns and
\* re-armed timers, whatever webhooks close it meanwhile.  The exceptions: the SSH
\* catch block whose own UPDATE failed, a closed run that a late "started" has
\* opened again, and the simulation, whose two timers may cross.
OpenIsTended ==
    restarts = 0 =>
        \A r \in Runs :
            req[r].driver # "simulate" /\ run[r].status \in Open
                => Tended(r) \/ pc[r] = "abandoned" \/ r \in reopened

\* A closed run of such a driver is never opened again: a stale "queued" or
\* "building" reading is never written over an outcome.
ClosedStaysClosed ==
    [][\A r \in Runs : Solo(r) /\ run[r].status \in Terminal => run'[r].status \in Terminal]_vars

\* The environment never shows the version of an open run of such a driver: the row
\* is closed before the environment hears of it, and stays closed.
EnvironmentShowsClosedRuns ==
    env.tag \in Runs /\ Solo(env.tag) => run[env.tag].status \in Terminal

\* Every run of those drivers closes: the deadline bounds the polling whatever
\* Coolify, the host or the exceptions in the ticks do.
RunsClose ==
    \A r \in Runs :
        Solo(r) /\ run[r].status \in Open
            ~> run[r].status \in Terminal \/ pc[r] = "abandoned" \/ restarts > 0

\* The event loop runs what is ready: timers fire, awaited calls settle, one way or
\* the other.  Coolify, the host and the network promise nothing.
Fairness ==
    \A r \in Runs : WF_vars(Pipeline(r)) /\ WF_vars(Poller(r)) /\ WF_vars(PollDeadline(r))

FairSpec == Spec /\ Fairness

=============================================================================
