# Praxarch in TLA+

Praxarch is a control plane for small teams: a NestJS API (`src/apps/api`) and a
Next.js console (`src/apps/web`) that deploy services through Coolify, ask a human
for approval over WhatsApp, publish marketing content and host an assistant. The
repository has no tests. What is hard in it is what tests would reach last: a
deploy takes minutes, is written to by a poller and by webhooks, outlives requests
and does not outlive the process; an approval is a message that may come twice; a
configuration lives in four places that are written one after the other.

This directory models that core, checks it with TLC and proves the main results
with TLAPS.

## The system's parts

| Part | State it keeps | Operations | Talks to | Modules |
|---|---|---|---|---|
| **Deploy runs** (`cicd.service.ts`, `deploy-runs.service.ts`) | rows of `deploy_runs`; in memory: pollers, pipelines, the map from runs to Coolify ids, the event bus | `triggerDeploy`, the ECR pipeline, two pollers, `handleCoolifyNotification`, the simulated lifecycle | Coolify (HTTP, webhooks), the host (SSH), services, live status | `DeployRun`, `DeployLifecycle` |
| **Release** (`ecr-release`, `ecr-ci-readiness`, `prod-post-deploy`, `deployment-compose`) | images in the registry, the pin in git, the containers and volumes of the host | `prepareProductionRelease`, readiness, guards, the gate, SSH builds | GitHub, ECR, the hosts | `Release` |
| **Live status** (`cicd.controller.ts`, `use-deploy-stream.ts`, `service-card.tsx`) | listeners and heartbeats; React state of the card | the SSE stream, the polling fallback, the card's effect | the event bus of deploy runs | `DeployStream` |
| **Approval checkpoints** (`whatsapp/`) | rows of `hitl_checkpoints` | three ways to open one, `handleInboundReply` | Twilio, deploy runs, marketing, n8n | `Checkpoint` |
| **Provisioning** (`coolify-provisioning`, `deploy-targets`) | `deploy_targets` | `provision`, resumable | Coolify, GitHub | `Provisioning` |
| **Configuration** (`services`, `coolify-env`, `service-branch-sync`, `deployment-wizard`, `provision-bundle`) | the environments column, `deploy_targets`, the vault; Coolify's copies | create, configure, save, set and push variables, mirror a key | Coolify | `DeploymentConfig` |
| **Wizard** (`add-deployment-wizard.tsx`, `deployment-wizard-draft.ts`) | the form, drafts in `localStorage` | eight steps, drafts, server choice, submit | configuration, servers | `Wizard` |
| **Servers** (`coolify-servers.service.ts`) | none of its own: keys and servers in Coolify | list, register, validate | Coolify | `Servers` |
| **Pre-flight** (`server-preflight`, `nginx-routes.util`) | the host's containers and nginx routes | scan, reconcile | the host (SSH) | `Reconcile` |
| **Capabilities** (`capabilities/`), **publication** (`marketing/`) | `capability_audit`, drafts | `dispatch`; posting to the platforms | checkpoints, every service above, Unified.to | `Capabilities` |
| **Assistant** (`assistant/`, the panel) | a turn's rounds; the panel's stream | one turn | a language model, capabilities | `Assistant` |
| **Prompts** (`prompts/`, two admin pages) | prompt rows, the case | save, duplicate, choose | | `Prompts` |
| **Workspace settings, pages, HTTP wrappers, diagnosis** | single rows, or nothing | reads and single writes | | not modelled |

What is hard, and where it bites, is listed under `hazards` in `PROJECT.json`: two
writers of one row, readings used after an `await` of minutes, notifications lost,
repeated or late, catch blocks that must arm the next tick, a process whose end
takes all pollers with it, a decision taken before and recorded after its effect,
requests that go on in the API after the browser has been told they failed.

What makes each part correct:

* *Deploy runs.* A success is recorded only when it was earned. An open run is always
  somebody's business, until it closes. What a client sees is a simple lifecycle.
* *Release.* A verified success runs the image the gate compared, which names the commit if
  it names any, and serves the data there was. It is code that contains the commit if its
  builder reached the branch and had the directory to itself. What CI let through had an image.
* *Live status.* `done` ends the stream; a card that follows one deployment is told when that
  one has closed for good.
* *Checkpoints.* A YES carries out one action, once, of the person who said it. Approved
  means done, or a publication that was sent and that no platform took; a reply sent after
  an outcome was told does not touch that checkpoint.
* *Provisioning and servers.* A retry finds what the last try made, whatever became of its
  answer; what it finds is the caller's own, reached with the key the caller gave.
* *Configuration.* What runs was stored; a deploy nobody crossed carries what was stored; a
  save nobody crossed leaves card and target on one branch (whether Coolify is told of it is
  another matter, see below).
* *Wizard and pre-flight.* A deployment that was made leaves no draft. Nothing of Coolify's is
  removed from a host by a tick made for something else, and nginx routes are moved only by
  what the reconciliation itself took for dead.
* *Capabilities and assistant.* No dispatch does anything of high risk without a role or a
  yes, and no endpoint promotes or publishes without; the wizard's endpoints are not gated. A
  dispatch is charged only when its handler came to its end or an approver was asked. A turn ends.
* *Prompts.* What belongs together in the case stays together: its prompts can be found, its
  model is one of its provider's unless it was typed by hand. A duplicate replaces no prompt.
  Saves do overwrite each other: the last one wins.

## The modules

Every action is the code between two awaits that reach shared state, or one event
handler of a page with the effects React runs after it. A definition whose comment
starts with *Mutant* is a wrong version of the one that follows it: it belongs to no
specification and exists to see that a property fails on it. `MC*` modules are the
instances for TLC.

**`DeployRun`**: `run` is the table, `env` the environment row the runs share, `pc` the
control of `triggerDeploy` and of the pipeline it leaves behind, `poll[r]` the locals
of the closure `tick` of run `r` together with where it is suspended, `hook[h]` those of
a webhook handler, `sim[r]` the writes the two timers of the simulated driver still
owe, `ext[r]` the deployment in Coolify or the build on the host, `notes` the
notifications under way, `coolifyId` what `coolifyDeployIds` and the id of the row make
the poller ask for. `vouched` is a history variable: whom the post-deploy gate has let
through, for which commit; so is `reopened`: the closed runs that a `deployment_started`
has opened again, with no notification of an end since. `req` says what a request was resolved to.

| Code | Actions |
|---|---|
| `triggerDeploy` | `Trigger`, `CoolifyAccepts` (Coolify's side), `CoolifyAnswered`, `SshLaunched`, `SshBuilding`, `PipelineThrows`, `RefusedThrows` |
| `runEcrThenCoolify` | `EcrBegin`, `EcrReleased`, `CoolifyAnswered`, `PipelineThrows`, `MarkRefused`, `FinalizeRefused` |
| `scheduleSimulatedLifecycle` | `SimBuilding`, `SimSuccess`, `SimFinalize` |
| `pollCoolifyDeployment` | `PollTimeout`, `PollTimeoutFinalize`, `PollMiss`, `PollFetch`, `PollRead`, `PollGate`, `PollWrite`, `PollFinalize`, `PollThrows` |
| `pollSourceDeploy` | `PollTimeout`, `PollTimeoutFinalize`, `PollSource`, `PollGate`, `PollWrite`, `PollFinalize`, `PollThrows` |
| `handleCoolifyNotification` | `HookReceive`, `HookGate`, `HookWrite`, `HookFinalize`, `HookThrows` |
| the end of the process | `Restart` |
| Coolify, the host, the network | `ExtStarts`, `ExtEnds`, `NoteDropped`, `PollDeadline` |

Time is the flag `late` of a poller, raised at any moment. The gate (`GateAnswers`) is
asked after every success of a run that has a service and answers either way. Texts and
commits are a few model values; what is kept of them is who wrote which.

**`DeployLifecycle`** is the abstract specification of the same: what the deployments
page promises of a run, with rows that are created, recorded and shown, a success only
when earned, and no way back from a closed row that only the API writes.
**`DeployRunRefines`** instantiates it: the rows' statuses, the runs whose deployment
ended well and was vouched for, the tag and status of the environment row, and the runs
of the drivers that no webhook reaches.

**`Release`** follows one service from a commit to a container. `git` is the branch and
its pin, `ci` the runs of GitHub Actions, `registry` the tags, `server` the directory on the build
server, which is the staging application's own, with the docker there, `host` the
production host with its containers, volume and tags. A job is a production deploy
(readiness, guards, release, Coolify, gate), a source build of staging, or a manual
build. An image remembers what it was built from, the commit it says it is, and whether
its builder had the directory to itself. `config` says how the service is set up; a
release without a build server is built in the API's container from whatever working
copy is mounted there (`BuildLocal`). `Pull` has the three outcomes of its script: the
branch's head, whatever is in the directory when the fetch or the checkout has failed
without stopping the script, or a failed job.

| Code | Actions |
|---|---|
| `getEcrCiReadiness`, guards | `Begin`, `CiHead`, `FetchRuns`, `PinVolume` |
| `prepareProductionRelease` | `ReleaseHead`, `ImageExists`, `BuildLocal` or `Pull` and `Build`, `Tag`, `PushRolling`, `PushCommit`, `PinRead`, `PinWrite` |
| a failure of these | `Throws` |
| Coolify | `CallCoolify`, `CoolifyDeploys`, `CoolifyFails`, `Deadline` |
| `afterCoolifySuccess` | `StartGate`, `Verify`, `Compare`, `CommitTag`, `Label`, `DropCopies`, `StopMongo`, `StartMongo`, `CountUsers`, `Seed`, `GateThrows` |
| `startSourceDeploy`, its script and its poller | `Launch`, `Checkout`, `Compose`, `Recreate`, `Healthy`, `Dies`, `PollDone`, `PollError`, `SourceDeadline` |
| developers and GitHub Actions | `Push`, `Actions` |

**`DeployStream`** composes the event bus, the SSE endpoint, the browser's hook and the
card. A status is reduced to `open` or `closed`, and a write (`Update`) may open a row that
is closed, as the code's does. `Render` is a React render with the effect it triggers; of a
run that is shown as neither a success nor failed it leaves the card busy. The card's deploy
buttons are off while its state is `busy`; `AskApproval` is the answer of a request for
approval, which ends that state whatever is being followed.

**`Checkpoint`** has the rows of `hitl_checkpoints` (`cp`), a clock that may give two
rows the same millisecond, the age from which rows are expired (`horizon`), and one
handler for each reply. `Find` is `handleInboundReply` up to its first effect,
`Act`/`ActThrows` the deploy, the publication or the resumed n8n execution, `Mark` the
update of the status, `Ack` the WhatsApp message; each of them may throw instead. A
publication also returns when every platform has failed: `reply[m].unpublished`. `acted`
counts effects, `told` holds the outcomes the approver was told, and `reply[m].known` those
known when `m` was sent.

**`Provisioning`** is `provision` called several times for the environments of one
service, with one action for each awaited request. `target` holds the rows of
`deploy_targets`; `projects`, `places` (Coolify's environments) and `apps` are what
Coolify has, `github` the keys the repository accepts; `job[h]` is a call: where it is
and its locals. A request that makes something may do so and lose its answer
(`Answered`), fail before (`Throws`), or be cut off by the end of the process
(`Restart`). `crossed` is a history variable: whether two calls were ever under way at once.

**`DeploymentConfig`** keeps the four places a configuration lives in: `column`,
`target`, `vault` and Coolify's `app`. A request is the list of its remaining steps
(`Steps`), one for each read or write the endpoint makes; `Become` moves a request on,
`Throws` lets a call fail and applies what the endpoint does then. Values remember for
which environment and by which request they were typed, so a value that ends up in the
wrong place shows.

| Request | Code |
|---|---|
| `patch`, `save`, `provision` | `PATCH services/:id`, `DeploymentWizardService.updateDeployment`, `ProvisionBundleService.provision` |
| `setVars`, `pushVars` | `deployments.setServiceEnvVars`, `syncServiceEnvironment` |
| `mirror`, `jwt` | `mirrorKeyFromProduction`, `ensureJwtSigningSecret` |
| `boxes` | the settings dialog of a card: both boxes loaded, typed over, stored one after the other without a merge, each then pushed |
| `deploy` | what `triggerDeploy` does to the configuration, and the outcome it ends in |

**`Wizard`** is one mounted wizard in a browser: `page` (key, step, phase, form, valid
servers), the autosave `timer`, `draft` (localStorage, per key), the requests under way
(`calls`), what the API has `stored`. The form is reduced to hosting, access, name and
the two servers; answers arrive in any order and after the operator has gone on; one that
reaches a closed wizard is dropped. A request that reads the form in a closure carries the
form as it was at the click (`Load`, `Registration`). The step the wizard may be opened at
(`initialStep`) is not a choice: its one caller opens it with the service alone.

**`Servers`** is the registration and validation of servers: `key` and `server` are
Coolify's, a request is where it is in `register`, `validateAndWait` or
`ensureReadyForDeploy` and what it has found. A pasted key has a form and line endings,
because three checks along its way disagree on them. A call may take effect and lose its answer.

**`Reconcile`** is one server being taken over: `box` the kind of each container
(absent, foreign, managed by Coolify), `route` nginx's configuration and `serving` what
nginx has loaded, `front` and `proxy` what is at the door, `card` what an operator sees and
has ticked, `work` a scan or reconciliation on the host, step by step over SSH. Any part of
the listeners may be missing from the list a scan reads; `work[j].dead` holds the ports a
reconciliation is to rewrite, `work[j].unheard` the containers behind those of them that the
list left out, and what has changed since.

**`Capabilities`** has the whole catalogue with each capability's risk, role, credits and
the number of changes its handler makes; `call` is a dispatch or a call of an endpoint that
reaches the same service (`Endpoint`: the wizard's, the two requests for an approval, the
deploy), `approval` the checkpoint it opened,
`ledger` its audit row, `post` the fan-out of a publication to the platforms. **`Assistant`** extends it with turns:
the case and the prompts, rounds of the model's answers and tool calls, errors, and the
panel that waits. **`Prompts`** has two operators on the admin pages and every await
between reading and writing a prompt or the case; a model is one of its provider's list or
`Typed`.


## The runs

`expect` is *pass* for all but the last one. Deadlock is checked in `prompts_editors`,
where somebody can always load the page; elsewhere the system may stop (all runs
closed, nobody clicks).

| Run | Question | Properties beside the types |
|---|---|---|
| `deploy_pipelines` | Does a run close, once and rightly, whatever crosses it? | `SuccessIsEarned`: a success was finished and vouched for. `OpenIsTended`: no catch block or return leaves an open run to nobody, unless a late `deployment_started` opened it. `ImplementsLifecycle`: every step is one of `DeployLifecycle`. `RunsClose`: open leads to closed |
| `release_deploys` | Does a deploy run what it says it runs? | `VerifiedRunsCommit`: after a gated success the container runs the image that was compared, which names the commit if any, and contains it if its builder reached the branch alone. `SuccessServesData`: the mongo left is the one with the data. `ReadyHadItsImage`: what CI let through had an image, and of the commit if it was built cleanly |
| `stream_card` | Does the card hear of the end? | `DoneEndsTheStream`; `CardHearsOfTheEnd`: through the stream or the polls, once the row has closed for good |
| `checkpoint_replies` | What may two replies do? | `OneActionPerYes`: one action per reply, of its sender, on a yes. `ApprovedIsDoneOrUnpublished`: approved was carried out, or sent and refused by every platform. `ToldIsFinal`: no reply touches a checkpoint whose outcome its sender had been told |
| `provision_retries` | What do failures and retries leave? | `ReadyHasItsApp`, `ReprovisionFindsPlaces`, `ProvisioningIsTended` |
| `config_requests` | Do the four places of a configuration agree? | `PushedWasStored`: no application holds a value its own vault never held. `DeployCarriesVault`: a clean deploy runs with the vault, whatever was left half done before. `SavedBranchesAgree`: card and target name one branch |
| `server_registrations` | Does a retry find its server, with its key? | `KeyIsAsAsked`, `TakenByOthers`: no tenant is told that its own host is in use; `RequestsEnd` |
| `reconcile_server` | What may be removed from a host? | `ManagedSurvive`: no tick outlives the report it was made in. `ServedRoutesStay`: routes to live ports are left alone, unless the reconciliation's own list of listeners left the port out or the port begins with the digits of a dead one |
| `wizard_drafts` | What does the autosave timer leave? | `MadeLeavesNoDraft` |
| `assistant_turns` | Can a tool call slip past a gate? | `GatedButForTheWizard` over pages, tools, endpoints and approvals; `ChargedWasCarriedThrough`: no half-done command is charged; `TurnsEnd` |
| `prompts_editors` | What may two operators overwrite? | `CaseHoldsTogether`: prompts that are found, provider and model that belong together or a model typed by hand. `TextsAreSaved`: a text changes by a save of its own only |
| `wizard_shared` (*violation*) | Is the shared host never reconciled, as the step says? | `ReconcileSkipsSharedHost` |

Every property of a passing run has a mutant in `PROJECT.json`: a plausible wrong
version of one definition, on which TLC finds the property violated.

### Bounds

The interesting cases need few actors; each bound is named in the `.cfg`. The instances have
from 0.4 million states (`server_registrations`) to 4 million (`reconcile_server`) and
are explored completely, in about two and a half minutes each or less.

* `deploy_pipelines`: one run of each of the four drivers in turn, one webhook handler,
  one restart. `MaxMisses` is 2 where the code has 8: the first miss and the last one are
  what differs. More runs and handlers are covered by the theorems, which hold for any.
* `release_deploys`: two jobs, because every hazard is a pair; two commits, an older and
  a newer; seven set-ups (`MCConfigs`), each of which takes another path through
  readiness, release or gate.
* `stream_card`: the first row is written twice (its events may cross, and the second may
  open what the first has closed), the second once;
  one poll and one request for approval.
* `checkpoint_replies`: two of everything. `provision_retries`: three calls, so that one
  may retry beside two that cross.
* `config_requests`: two requests of the nine kinds; one text with one shared key and
  one address; a box in which one key is typed over.
* `server_registrations`: two tenants, two requests, the platform's own host, one that
  may be registered already and a new one; four pastes, on which the three checks of a
  key disagree.
* `reconcile_server`: two containers on ports 3 and 30, of which one begins with the
  other; two requests on the host, two clicks, one change by others.
* `wizard_drafts`: one edit, one visit, one call under way of each kind that may be
  repeated, and an earlier draft that is half filled, so that the last steps are reached.
* `assistant_turns`: one turn of one round, two calls of four capabilities that differ in
  risk, role and number of changes, of which the wizard has one; one platform, since what
  is claimed is claimed of each.
* `prompts_editors`: two operators, two keys a duplicate may take, two versions, two
  providers and one model typed by hand.

### Fairness

`DeployRun`: pipelines, pollers and the deadline are weakly fair, since timers fire and
awaited calls settle one way or the other (each has a timeout); Coolify, the host and the
network promise nothing, so a build may never end and a notification never come.
`DeployStream`: the poll's timer is weakly fair; that a request reaches the API and an
answer the browser is strongly fair, since both may fail but not for ever. `Assistant`:
the generator and the handlers are weakly fair, since everything they wait for has a limit
(60 s for the model, 20 s for a post). `Servers`: each request is weakly fair, and its
deadline (180 s and 90 s) passes; what Coolify says of a server is free. The other
specifications state no fairness and no liveness.

## The proofs

TLAPS proves, for every value of the constants:

| Module | Theorem | Result |
|---|---|---|
| `DeployRunProofs` | `TypeCorrect` | the types of `DeployRun` |
| | `SuccessEarned`, `ActiveEarned` | a success, and an active environment, were earned, for any number of runs and handlers |
| | `ClosedStays`, `EnvironmentShowsClosed` | closed runs of the drivers without webhooks stay closed, and the environment hears of them after that |
| | `OpenTended`, `ReopenedTended` | open runs are tended, those that webhooks write included, unless a late `deployment_started` opened them; a poller that reopens a run goes on polling it |
| | `LifecycleImplemented` | `DeployRun` implements `DeployLifecycle` |
| `ReleaseProofs` | `TypeCorrect`, `CommitVerified`, `DataServed`, `ImageReady` | the properties of releases, for any number of deploys and builds that share a branch, a registry, a directory and a host |
| `CheckpointProofs` | `TypeCorrect`, `ActionPerYes`, `ApprovalAnswered`, `ToldFinal` | the properties of checkpoints |
| `ProvisioningProofs` | `TypeCorrect`, `ReadyApp`, `Reprovision`, `ProvisioningTended` | the properties of provisioning |
| `CardProofs` | `TypeCorrect`, `DoneEnds` | `done` is the last frame |
| | `ConfigTypes`, `PushedAreStored`, `DeploysCarryVault`, `SavedAgree` | the properties of configuration, for any number of requests, branches and texts |
| `WizardProofs` | `TypeCorrect`, `MadeNoDraft` | a deployment that was made leaves no draft, for any number of visits and requests |
| `ServersProofs` | `TypeCorrect`, `KeyAsAsked`, `TakenMeansOthers` | the safety properties of servers, for any number of tenants, requests and hosts |
| | `ReconcileTypes`, `ManagedStay`, `ServedStay` | the properties of reconciliation, for any number of cards, requests, containers and routes, and any list of dead ports |
| `AssistantProofs` | `TypeCorrect`, `GatedElsewhere`, `ChargedCarriedThrough` | the safety properties of capabilities, in turns of the assistant, from pages and by endpoints, for any catalogue |
| | `PromptsTypes`, `CaseHolds`, `TextsSaved` | the safety properties of prompts, for any number of operators, prompts and saves |

*From what.* The assumptions are those the modules name: a name that means "none" is not
one of the things; bounds are natural numbers; deployments are numbered in the order they
are clicked; a draft left by an earlier visit is one the wizard could have written; the
branch has room for the commit that pins the image (`MaxCommit` is at least 2); some key
that may be pasted is one OpenSSH accepts; nginx has finitely many locations, so that the
dead ports can be listed.

*The arguments.* `SuccessIsEarned` is not inductive: a success is written minutes after it
was read. `EarnedInv` adds what every suspended reader holds (`PollReadings`,
`HookReadings`: a success in somebody's hands is one Coolify has finished and, past the
gate, one that is vouched for), and the lemma `Onward` that what is earned stays so.
`OpenIsTended` needs two invariants for each run (`Closing`, `Kept`): the pipeline lets go
of a run only when a poller holds it, each state of a poller implies what its row may be,
and a poller stops only after the row has closed. `EnvironmentShowsClosed` follows from
them. For the runs that webhooks write as well, `CoolifyRun` says the same of the poller as
long as no late notification has opened the row (`Watched`): a poller that stops because the
row it has read already says so has to know that the row still does. The refinement rests on `Kinds`: every step leaves rows and environment alone, or
writes one row, or finalizes the environment; `RowsInv` says that whoever writes a row
has one, and `LifecycleStep` takes each kind to a step of the lifecycle or a stutter.
In `CheckpointProofs` the invariant ties each handler's state to what it has found, done
or sent in vain, and told. In `ProvisioningProofs` it says which of Coolify's things a call's locals name
(`JobInv`) and that calls that never crossed have made at most one of each. In
`CardProofs`, which is about what the card of a service shows and what is set from it, the
stream's state and its frames determine each other, `OfRows` keeps events to rows that
exist, and a listener is off the bus once it has sent `done`. For the configuration,
`ConfigInv` follows each request through the list of steps it has still to take. The list
is a `Plan`: before each step that sends variables comes the one that fetches them from the
vault or stores them there, a text is stored before it is pushed, and an environment that
is being provisioned still has its branch to be compared. Each list of the code is built from parts (`Part`), and the lemma
`PartsJoin` puts them together. So what is about to be sent is known to the vault, which gives
`PushedWasStored` whoever else is at work. The other two claims are about a request that is
alone: `Carries` says at each step of a clean deploy what the application has and what it is
about to get, and `Saves` says that what a clean save has not still to do it has done.
`Solitary`, that nobody is busy beside a request that is alone, makes both last.
In `ReleaseProofs` the images carry the argument: an image whose builder reached the branch
and had the directory to itself (`clean`) contains the commit it says it is (`Honest`) and the commit it is
tagged with (`ByCommit`). That holds because of `BuilderIsLast`: while a builder has the
directory to itself, the tree there is no older than the commit of any release that has
not tagged its image, so that even an image tagged by another release than its own is new
enough. `Shown`, `Right` and `Serves` say what each section of the gate has established, as long as no
other deploy has disturbed it (`Undisturbed`); the lemma `Bystander` gives what a step must leave
alone for that to last. `ServersInv` adds that the keys and servers Coolify has
never change (`Onward`), that a key by the name a request would give it is the one that was
pasted, and that a host in use stays in use. `AssistantInv` follows each call through
`dispatch`, or from its endpoint: only the gate leads to the act, and what ran without asking
was not of high risk, was the caller's to do, or came by an endpoint of the wizard; a row that
charges belongs to a dispatch whose handler had come to its end. The case holds together
because every draft of it, in its row, on a page or in a request, names only prompts there
are and a model that is its provider's or typed, and no prompt is ever deleted.
In `WizardProofs` what has to be added is `TimerIsHarmless`: the timer runs only before the
form is sent, and a wizard that made a deployment is in its last phase, so that the timer
can only save under another key.

`ReconcileInv` relates what cards and requests hold to the host as it is now: what is ticked
or listed is not Coolify's unless it has changed since the host was read (`Knows`), and a
port about to be rewritten has no listener unless its owner was missing from the list or has
changed since (`WorkGood`). What the
list of sed expressions does to a port takes an induction over that list. The induction
theorems cannot be used, so `Smallest` takes the least number from the library's theorem on
well-founded relations, and `AfterExists`, `RewrittenAfter` and `Rewrites` argue from the
first expression at which the claim would fail.

Only model-checked: liveness (`RunsClose`, `CardHearsOfTheEnd`, `TurnsEnd`,
`RequestsEnd`), which the prover cannot do under fairness. Every other property of a passing
run is also proved.

## Where the code disagrees with its words, and what it lets happen

One disagreement is a run of its own, `wizard_shared`: the Reconcile step says that it is
skipped for the shared platform host, and it is not (see `findings` in `PROJECT.json`).
The rest was met while modelling. The models contain each of these, and the properties
are stated so as to hold beside them.

*Deploy runs*
* A `deployment_started` delivered late writes `building` over an outcome: the UPDATE has
  no guard, and the poller that closed the run has returned. Only drivers without
  webhooks are claimed to stay closed; of the others it is proved that nothing else
  leaves a run open for good (`OpenTended`, `ReopenedTended`).
* After the last miss, and after a finalize that threw, the row is closed and the
  environment still shows what it showed before.
* The commit the gate verifies is the one the row has by then: a reading of `building`
  puts the commit Coolify names over the one CI or the release named.
* A source deploy whose container is named `app-` or `work-` is compared with the
  registry's image, which it was not built from, and fails.

*Release*
* A local build labels whatever working copy is mounted with the release's commit.
* "git fetch && git checkout && git pull" under `set -e` (`ecr-release.service.ts:225`) ends
  the script over the last command only: when the fetch or the checkout fails, the tree that
  is there is built, labelled with the release's commit, pushed under both tags and accepted.
  `VerifiedRunsCommit` and `ReadyHadItsImage` claim the code only of images whose builder
  reached the branch.
* A release builds in the staging application's directory on the server, so a staging
  deploy that checks out meanwhile ends up in its image (`clean` in `VerifiedRunsCommit`).

*Live status*
* The answer of a poll that was under way when another deploy was clicked is applied to
  the new one.
* Asking for approval while a deploy is followed turns the deploy buttons on again. The
  environment of a second deploy is lost when the first ends first, and the card then
  stays busy and follows it for ever.
* A late `deployment_started` opens the row again after the card was told of its end. An
  answer of a poll sent for an earlier deploy can end the following of a later one with a
  status that is neither success nor failed: the card then stays busy and follows nothing.
* The gate the card shows for CI is up to 30 s old.

*Checkpoints*
* Two replies of YES, or one that arrives twice, act twice while the first handler has not
  marked its checkpoint: one action for each reply is what holds.
* Publishing catches every platform's failure and returns (`unified-to.adapter.ts:70-80`), so
  "✅ Approved — publishing now." is told, and `approved` recorded, with nothing published.

*Configuration*
* The key of a repository is stored before GitHub has it; a retry takes it for granted.
* The wizard's save writes the branch to the target before the synchronisation compares
  it, so the new branch never reaches Coolify.
* In the settings dialog an environment whose variables failed to load is an empty box,
  and what is typed in it replaces the whole vault (no merge). Clearing a box, on the
  other hand, leaves the vault as it was.
* The board shows a configuration as saved before the request is answered and ignores a
  failure; it passes no `onServiceUpdate`, so the card shows the outcome of the page load.

*Wizard*
* Discarding the draft of an existing deployment leaves an empty form, and saving that
  form stores it.
* The answer of a verification marks whatever repository is in the form by then.
* A restored draft may be submitted without the gates of the earlier steps.

*Servers and pre-flight*
* Registering a server again never attaches the new key, though the pre-flight says
  "re-register the server with its private key".
* The first poll of a validation may read flags that are older than the validation, and a
  verdict after the deadline refuses even if its last reading said ready.
* "Safe sed" has no end to the port in its expression (`nginx-routes.util.ts:73`): with
  3 dead, a route to 30 is rewritten as well. `ServedRoutesStay` has this as its exception.
* When `nginx -t` fails the changed files stay, unloaded; routes are moved before the
  containers they pointed to are removed, and a failed removal leaves them moved.
* Nothing checks that the list of listeners was read (`nginx-routes.util.ts:20`): where `ss`
  fails or prints less, live routes count as dead, and are rewritten if the operator left
  that tick on, which is set whenever the card's own scan found a dead route.
* A reconciliation goes on in the API after the console's BFF has given it up (120 s); the
  result is wiped by the scan that follows it.

*Capabilities*
* `docs/08-assistant-and-capabilities.md` says that every action is a single capability
  dispatched through one service. The wizard's endpoints (`cicd.controller.ts:169-176`,
  `201-208`, `270-277`) register servers, provision and set variables without role, approval
  or ledger. `GatedButForTheWizard` names them (`WizardsOwn`).
* A publication that every platform refused is `ok` and charged.
* `capability.types.ts:6` says that high risk goes to a checkpoint; owner-only ones refuse
  instead.
* `docs/04-marketing-os-adapters.md:74` says that an idempotency key makes retries safe; the
  action it is made from is new for every call.

*Prompts*
* Saves of a prompt or of the case are not compared with what is there: the last one wins,
  over what its operator has not seen.
* A model typed by hand is stored whatever the provider; the API takes any string.

## Not modelled, and what is left out of what is

*Not modelled.* Workspace settings (single rows, written whole). Deployment diagnosis, which
reads logs and classifies texts. The console's pages and its routes to the API, except the
card, the hook, the wizard, the pre-flight card, the settings dialog, the assistant's panel and
the two admin pages. Authentication, DTOs, the database schema, n8n flows and compose
files. The in-memory repositories for running without a database.

*Simplified.* In all modules texts, logs, wording and layout are left out, and an HTTP call is
one step that works, throws, or (where a retry matters) works and loses its answer.

* `DeployRun`: one environment row for all runs, the case in which runs meet.
* `DeployStream`: one request for approval; a row whose request lost its answer is nobody's.
* `Release`: image contents are commits; the fall-through of the application's resolution
  ends in a throw.
* `DeploymentConfig`: values are known by environment, name and origin; ports, build packs
  and domains are not kept.
* `Wizard`: repository, token and its verification are one field (`access`); branches,
  variables, build pack, port and type are filled in with the name; a server is validated by
  one request at a time. Updates of several settings may save some of them.
* `Servers`: a server is known by its host, since Coolify refuses duplicates; reachable and
  usable are one flag; servers and keys are not deleted; `resolveServerUuid` and its cache are left
  out.
* `Reconcile`: infrastructure containers are not in the list; the application's port is
  given and valid; apache counts as caddy, and traefik and others as none.
* `Capabilities`: which of the platforms a post reached is in no property.
* `Prompts`: the guardrail stands for all slots of a case; a model of a list is known by its
  provider, and the lists do not change; the other columns are left out.

## The plan

Done, in the order it was planned: deploy runs; live status; checkpoints; provisioning;
configuration (services, branches and variables in one module, because they share requests);
release, source builds and gate (one module, because they share a directory and a host);
pre-flight and servers; capabilities, publication and the assistant; prompts; the
wizard; the lifecycle and its refinement.

Left: a property of what a publication that reached some of the platforms leaves; two
visits of the wizard in two tabs.
