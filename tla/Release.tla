------------------------------- MODULE Release -------------------------------
(***************************************************************************)
(* From a commit to a container: how a deploy finds out which commit it is  *)
(* about, gets an image of it into the registry, has Coolify run it, and    *)
(* checks over SSH what runs.  Two deploys of one service side by side      *)
(* share the branch, the registry, the directory on the build server, which *)
(* is the staging application's own, and the containers.                    *)
(*                                                                         *)
(* GitHub, its Actions, Coolify and Docker are the environment.             *)
(***************************************************************************)
EXTENDS Naturals

CONSTANTS
    Jobs,        \* deploys and manual builds, each run once
    MaxCommit,   \* commits of the production branch
    Configs,     \* how the service may be set up: records of Config
    Rolling, Before, \* the tags that are not commits
    NoCommit, NoImage

Commits == 1..MaxCommit

\* What may be checked out: the staging branch, or a commit of the production branch.
StagingTree == 0
Trees == Commits \cup {StagingTree}

\* The rolling tag (ecrImageTag), the one the compose file named before, and one for each commit.
Tags == {Rolling, Before} \cup Commits

\* token: there is a GitHub token.  workflow: the repository builds its images in GitHub
\* Actions.  ecr, skipBuild, mongo: the target's profile options ecrRepository,
\* ecrSkipBuild and mongoDataVolume.  named: the application's container is named app-
\* or work-.  labelled: the images of GitHub Actions carry BUILD_COMMIT.  remote: a
\* release is built on ecrBuildServerUuid; without it, in the API's own container.
Config == [token : BOOLEAN, workflow : BOOLEAN, ecr : BOOLEAN, skipBuild : BOOLEAN,
           mongo : BOOLEAN, named : BOOLEAN, labelled : BOOLEAN, remote : BOOLEAN]

\* What an image was built from, the commit it says it is (BUILD_COMMIT), by whom, and
\* whether its builder had pulled the branch, and had the directory to itself since.
Image == [source : Trees, label : Commits \cup {NoCommit},
          by : Jobs \cup {"actions", "before"}, clean : BOOLEAN]

ASSUME ReleaseAssumption ==
    /\ MaxCommit \in Nat \ {0, 1}   \* the pin is a commit of its own
    /\ Configs \subseteq Config
    /\ NoCommit \notin Trees /\ Rolling # Before /\ {Rolling, Before} \cap Commits = {}
    /\ NoImage \notin Image

VARIABLES
    config,    \* the set-up
    git,       \* head of the branch; whether its compose file names the rolling tag
    ci,        \* each commit: whether its latest workflow run is under way or has succeeded
    registry,  \* ECR
    server,    \* the build server: checked-out tree, images under their local names
    host,      \* production: compose file on disk, images, application and mongo containers
    staging,   \* the staging application's image
    job        \* the jobs

vars == <<config, git, ci, registry, server, host, staging, job>>
world == <<config, git, ci, registry, server, host, staging>>

Idle == [kind |-> "none", at |-> "idle", ready |-> NoCommit, release |-> NoCommit,
         cloned |-> NoCommit, want |-> NoCommit, running |-> NoImage,
         outcome |-> "none", apart |-> TRUE]

OldImage == [source |-> 1, label |-> NoCommit, by |-> "before", clean |-> TRUE]

Init ==
    /\ config \in Configs
    /\ git \in [head : {1}, pinned : BOOLEAN]
    /\ ci = [c \in Commits |-> "none"]
    /\ registry = [t \in Tags |-> IF t \in {Rolling, Before} THEN OldImage ELSE NoImage]
    /\ server = [tree |-> StagingTree, built |-> NoImage, app |-> NoImage,
                 tags |-> [t \in Tags |-> NoImage]]
    /\ host = [rolling |-> git.pinned, volume |-> FALSE,
               tags |-> [t \in Tags |-> IF t = Before THEN OldImage ELSE NoImage],
               app |-> OldImage, mongo |-> IF config.mongo THEN "empty" ELSE "none", copy |-> "none"]
    /\ staging = NoImage
    /\ job = [j \in Jobs |-> Idle]

-----------------------------------------------------------------------------
(***************************************************************************)
(* Phases.  A run's row is written at the end of the guards.               *)
(***************************************************************************)

Checking  == {"workflow", "ciRuns", "guards"}
Releasing == {"relHead", "exists", "pull", "local", "build", "tag", "pushRolling", "pushCommit",
              "pinRead", "pinWrite"}
Gating    == {"verify", "compare", "commitTag", "label", "copies", "stop", "up", "count", "seed"}
Script    == {"checkout", "compose", "recreate", "health"}
Phases    == {"idle", "coolify", "deploying", "late", "deployed", "start", "done", "dead", "ended"}
                 \cup Checking \cup Releasing \cup Gating \cup Script

\* Job j goes on with r; the others among disturbed no longer have what they share to
\* themselves.
Goes(j, r, disturbed) ==
    job' = [k \in Jobs |-> IF k = j THEN r
                           ELSE IF k \in disturbed THEN [job[k] EXCEPT !.apart = FALSE] ELSE job[k]]

Moves(j, phase) == Goes(j, [job[j] EXCEPT !.at = phase], {})

\* What the handler had read goes with it; of a success, what the gate saw is remembered.
Ended(j, outcome) ==
    LET last == IF outcome = "success" THEN job[j] ELSE Idle IN
    [Idle EXCEPT !.kind = job[j].kind, !.at = "ended", !.outcome = outcome,
                 !.want = last.want, !.running = last.running, !.apart = last.apart]

Ends(j, outcome) == Goes(j, Ended(j, outcome), {})

Sharing(phases) == {k \in Jobs : job[k].at \in phases}
Production(phases) == {k \in Sharing(phases) : job[k].kind = "deploy"}

At(j, phase) == job[j].at = phase

-----------------------------------------------------------------------------
(***************************************************************************)
(* The environment.                                                        *)
(***************************************************************************)

\* A developer pushes; until it is made, a commit is left for the pin.
Push ==
    /\ git.head < IF git.pinned THEN MaxCommit ELSE MaxCommit - 1
    /\ git' = [git EXCEPT !.head = @ + 1]
    /\ UNCHANGED <<config, ci, registry, server, host, staging, job>>

\* GitHub Actions builds a commit, and pushes both tags when it succeeds; a run that
\* failed may be followed by another.
Actions(c) ==
    /\ config.workflow /\ c <= git.head
    /\ \/ ci[c] = "none" /\ ci' = [ci EXCEPT ![c] = "running"] /\ UNCHANGED registry
       \/ ci[c] = "running" /\ ci' = [ci EXCEPT ![c] = "none"] /\ UNCHANGED registry
       \/ /\ ci[c] = "running"
          /\ ci' = [ci EXCEPT ![c] = "success"]
          /\ LET image == [source |-> c, label |-> IF config.labelled THEN c ELSE NoCommit,
                           by |-> "actions", clean |-> TRUE]
             IN  registry' = [registry EXCEPT ![Rolling] = image, ![c] = image]
    /\ UNCHANGED <<config, git, server, host, staging, job>>

-----------------------------------------------------------------------------
(***************************************************************************)
(* triggerDeploy for production, up to the row of the run.                 *)
(***************************************************************************)

Begin(j) ==
    /\ At(j, "idle")
    /\ \E kind \in {"deploy", "source", "manual"} :
         Goes(j, [Idle EXCEPT !.kind = kind,
                              !.at = IF kind = "deploy" THEN "workflow" ELSE "start"], {})
    /\ UNCHANGED world

\* check, up to the commit it resolves: without a token, or when the workflow is not
\* found, CI is not asked; a lookup that GitHub refuses counts as not found.
CiHead(j) ==
    /\ At(j, "workflow")
    /\ \/ /\ config.token /\ config.workflow
          /\ Goes(j, [job[j] EXCEPT !.at = "ciRuns", !.ready = git.head], {})
       \/ Moves(j, "guards")
    /\ UNCHANGED world

\* Mutant: a build that is still under way will do.
FetchRunsUnfinished(j) ==
    /\ At(j, "ciRuns")
    /\ IF ci[job[j].ready] \in {"running", "success"} THEN Moves(j, "guards") ELSE Ends(j, "refused")
    /\ UNCHANGED world

\* fetchRunsForCommit: anything but a latest run that succeeded blocks the deploy.
FetchRuns(j) ==
    /\ At(j, "ciRuns")
    /\ IF ci[job[j].ready] = "success" THEN Moves(j, "guards") ELSE Ends(j, "refused")
    /\ UNCHANGED world

\* ensureCoolifyNetwork, ensureReadyForDeploy, ensureEcrLogin and ensureProdMongoVolumePin:
\* only the second may throw, a failure of the others is logged.
PinVolume(j) ==
    /\ At(j, "guards")
    /\ host' \in {host} \cup (IF config.mongo THEN {[host EXCEPT !.volume = TRUE]} ELSE {})
    /\ Moves(j, IF config.ecr THEN "relHead" ELSE "coolify")
    /\ UNCHANGED <<config, git, ci, registry, server, staging>>

-----------------------------------------------------------------------------
(***************************************************************************)
(* prepareProductionRelease.                                               *)
(***************************************************************************)

\* getBranchCommitSha
ReleaseHead(j) ==
    /\ At(j, "relHead")
    /\ IF config.token
       THEN Goes(j, [job[j] EXCEPT !.release = git.head,
                                   !.at = IF config.skipBuild THEN "pinRead" ELSE "exists"], {})
       ELSE Ends(j, "failed")
    /\ UNCHANGED world

\* ecrImageExists: a lookup that throws counts as no.
ImageExists(j) ==
    /\ At(j, "exists")
    /\ \/ registry[job[j].release] # NoImage /\ Moves(j, "pinRead")
       \/ Moves(j, IF config.remote THEN "pull" ELSE "local")
    /\ UNCHANGED world

\* buildAndPushLocal: whatever the mounted working copy holds, under the commit of the
\* release.  Its docker is the API's, one like the build server's.
BuildLocal(j) ==
    /\ At(j, "local")
    /\ \E tree \in Trees :
         server' = [server EXCEPT !.built = [source |-> tree, label |-> job[j].release,
                                             by |-> j, clean |-> FALSE]]
    /\ Goes(j, [job[j] EXCEPT !.at = "tag"], Sharing({"tag"}))
    /\ UNCHANGED <<config, git, ci, registry, host, staging>>

\* buildAndPushRemote, in the directory of the staging application: the branch's head by
\* now, whatever commit the release is about.  "set -e" ends the script over the pull only,
\* the last of the three commands: when the fetch or the checkout before it fails, what is
\* there is built; when the pull does, the branch as it was is left there.
Pull(j) ==
    /\ At(j, "pull")
    /\ LET goesOn(pulled) == [job[j] EXCEPT !.at = "build", !.apart = pulled]
           others == Sharing({"build", "compose"}) IN
       \/ server' = [server EXCEPT !.tree = git.head] /\ Goes(j, goesOn(TRUE), others)
       \/ UNCHANGED server /\ Goes(j, goesOn(FALSE), others)
       \/ /\ \E tree \in 1 .. git.head : server' = [server EXCEPT !.tree = tree]
          /\ Goes(j, Ended(j, "failed"), others)
    /\ UNCHANGED <<config, git, ci, registry, host, staging>>

\* docker build, under a local name that every release shares.
Build(j) ==
    /\ At(j, "build")
    /\ server' = [server EXCEPT !.built = [source |-> server.tree, label |-> job[j].release,
                                           by |-> j, clean |-> job[j].apart]]
    /\ Goes(j, [job[j] EXCEPT !.at = "tag"], Sharing({"tag"}))
    /\ UNCHANGED <<config, git, ci, registry, host, staging>>

\* docker tag, twice
Tag(j) ==
    /\ At(j, "tag")
    /\ server' = [server EXCEPT !.tags[Rolling] = server.built, !.tags[job[j].release] = server.built]
    /\ Goes(j, [job[j] EXCEPT !.at = "pushRolling"],
            {k \in Sharing({"pushRolling", "pushCommit"}) : job[k].release = job[j].release})
    /\ UNCHANGED <<config, git, ci, registry, host, staging>>

PushRolling(j) ==
    /\ At(j, "pushRolling")
    /\ registry' = [registry EXCEPT ![Rolling] = server.tags[Rolling]]
    /\ Moves(j, "pushCommit")
    /\ UNCHANGED <<config, git, ci, server, host, staging>>

PushCommit(j) ==
    /\ At(j, "pushCommit")
    /\ registry' = [registry EXCEPT ![job[j].release] = server.tags[job[j].release]]
    /\ Moves(j, "pinRead")
    /\ UNCHANGED <<config, git, ci, server, host, staging>>

\* updateComposeImagePin: GitHub refuses a write over another version of the file.
PinRead(j) ==
    /\ At(j, "pinRead")
    /\ Moves(j, IF git.pinned THEN "coolify" ELSE "pinWrite")
    /\ UNCHANGED world

\* Mutant: the file is written whatever version GitHub has.
PinWriteAnyway(j) ==
    /\ At(j, "pinWrite")
    /\ git' = [head |-> git.head + 1, pinned |-> TRUE] /\ Moves(j, "coolify")
    /\ UNCHANGED <<config, ci, registry, server, host, staging>>

PinWrite(j) ==
    /\ At(j, "pinWrite")
    /\ IF git.pinned THEN Ends(j, "failed") /\ UNCHANGED git
       ELSE git' = [head |-> git.head + 1, pinned |-> TRUE] /\ Moves(j, "coolify")
    /\ UNCHANGED <<config, ci, registry, server, host, staging>>

\* Any call before Coolify has the deploy throws: without a row yet the request is
\* refused, with one the run fails.
Throws(j) ==
    /\ job[j].at \in Checking \cup Releasing \cup {"coolify"}
    /\ Ends(j, IF job[j].at \in Checking THEN "refused" ELSE "failed")
    /\ UNCHANGED world

-----------------------------------------------------------------------------
(***************************************************************************)
(* Coolify, and the poller of the run.                                     *)
(***************************************************************************)

CallCoolify(j) ==
    /\ At(j, "coolify")
    /\ Goes(j, [job[j] EXCEPT !.at = "deploying",
                              !.want = IF config.ecr THEN job[j].release ELSE job[j].ready], {})
    /\ UNCHANGED world

\* Coolify clones the branch, which may undo the pin of the volume, and brings the
\* compose file up.  An image the host has under that name need not be pulled again.
CoolifyDeploys(j) ==
    /\ job[j].at \in {"deploying", "late"}
    /\ LET tag == IF git.pinned THEN Rolling ELSE Before IN
       \E image \in {host.tags[tag], registry[tag]} \ {NoImage}, volume \in {host.volume, FALSE} :
         host' = [host EXCEPT !.rolling = git.pinned, !.volume = volume, !.tags[tag] = image,
                              !.app = image,
                              !.copy = IF ~config.mongo THEN "none"
                                       ELSE IF volume THEN "data" ELSE "empty"]
    /\ Goes(j, [job[j] EXCEPT !.cloned = git.head, !.apart = TRUE,
                              !.at = IF @ = "late" THEN "ended" ELSE "deployed"],
            Production(Gating \cup {"ended"}))
    /\ UNCHANGED <<config, git, ci, registry, server, staging>>

CoolifyFails(j) ==
    /\ job[j].at \in {"deploying", "late"}
    /\ Ends(j, "failed")
    /\ UNCHANGED world

\* The poller gives up; Coolify does not.
Deadline(j) ==
    /\ At(j, "deploying")
    /\ Goes(j, [job[j] EXCEPT !.at = "late", !.outcome = "failed"], {})
    /\ UNCHANGED world

\* The gate is given the row's commit, over which a poll may have stored Coolify's.
StartGate(j) ==
    /\ At(j, "deployed")
    /\ \E want \in {job[j].want, job[j].cloned} :
         Goes(j, [job[j] EXCEPT !.want = want, !.apart = TRUE,
                                !.at = IF want = NoCommit THEN "copies" ELSE "verify"], {})
    /\ UNCHANGED world

-----------------------------------------------------------------------------
(***************************************************************************)
(* afterCoolifySuccess: one script over SSH.  Whatever it says, a script    *)
(* that exits with an error rejects the call, and the run fails.           *)
(***************************************************************************)

\* Where job j runs its containers, and what its compose file names.
Running(j) == IF job[j].kind = "deploy" THEN host.app ELSE staging
Composed(j) == IF job[j].kind = "deploy" /\ ~host.rolling THEN Before ELSE Rolling

Verify(j) ==
    /\ At(j, "verify")
    /\ IF config.named
       THEN Goes(j, [job[j] EXCEPT !.running = Running(j), !.at = "compare"], {})
       ELSE Moves(j, "copies")
    /\ UNCHANGED world

\* The compose file's image is pulled, and must be the one that runs.
Compare(j) ==
    /\ At(j, "compare")
    /\ LET tag == Composed(j) IN
       /\ host' = IF job[j].kind = "deploy" THEN [host EXCEPT !.tags[tag] = registry[tag]] ELSE host
       /\ IF registry[tag] # job[j].running THEN Ends(j, "failed")
          ELSE Moves(j, IF config.ecr /\ job[j].kind = "deploy" THEN "commitTag" ELSE "label")
    /\ UNCHANGED <<config, git, ci, registry, server, staging>>

\* So must the one under the commit's tag.
CommitTag(j) ==
    /\ At(j, "commitTag")
    /\ IF registry[job[j].want] # NoImage /\ registry[job[j].want] = job[j].running
       THEN Moves(j, "label") ELSE Ends(j, "failed")
    /\ UNCHANGED world

\* Mutant: the container's own commit is not asked for.
LabelUnread(j) ==
    /\ At(j, "label")
    /\ Moves(j, "copies")
    /\ UNCHANGED world

\* BUILD_COMMIT of the container, asked for by the name it had; none is as good as the
\* right one.
Label(j) ==
    /\ At(j, "label")
    /\ LET built == IF Running(j) = job[j].running THEN job[j].running.label ELSE NoCommit IN
       IF built \in {job[j].want, NoCommit} THEN Moves(j, "copies") ELSE Ends(j, "failed")
    /\ UNCHANGED world

\* Mutant: the copies are looked for under another name.
KeepCopies(j) ==
    /\ At(j, "copies")
    /\ Moves(j, IF config.mongo /\ job[j].kind = "deploy" THEN "stop" ELSE "seed")
    /\ UNCHANGED world

\* With a data volume: Coolify's own mongo is removed,
DropCopies(j) ==
    /\ At(j, "copies")
    /\ IF config.mongo /\ job[j].kind = "deploy"
       THEN host' = [host EXCEPT !.copy = "none"] /\ Moves(j, "stop")
       ELSE Moves(j, "seed") /\ UNCHANGED host
    /\ UNCHANGED <<config, git, ci, registry, server, staging>>

\* mongo-latest is stopped and removed, even when it runs: the name in the test before
\* it is not substituted, which ends that subshell, and MONGO is always empty;
StopMongo(j) ==
    /\ At(j, "stop")
    /\ host' = [host EXCEPT !.mongo = "none"]
    /\ Goes(j, [job[j] EXCEPT !.at = "up"], Production({"up", "count", "seed", "ended"}))
    /\ UNCHANGED <<config, git, ci, registry, server, staging>>

\* and brought up on the data volume.
StartMongo(j) ==
    /\ At(j, "up")
    /\ host' = [host EXCEPT !.mongo = "data"]
    /\ Moves(j, "count")
    /\ UNCHANGED <<config, git, ci, registry, server, staging>>

\* It must be running, and have users.
CountUsers(j) ==
    /\ At(j, "count")
    /\ IF host.mongo = "data" THEN Moves(j, "seed") ELSE Ends(j, "failed")
    /\ UNCHANGED world

\* The region seed, the last section.
Seed(j) ==
    /\ At(j, "seed")
    /\ Ends(j, "success")
    /\ UNCHANGED world

\* A command of the script fails, SSH does, or the time is up.
GateThrows(j) ==
    /\ job[j].at \in Gating
    /\ Ends(j, "failed")
    /\ UNCHANGED world

-----------------------------------------------------------------------------
(***************************************************************************)
(* Builds from source on the staging host: a script that runs on its own,   *)
(* and a poller that reads its log.  A manual build has no row, and nobody *)
(* polls it unless its caller waits.                                       *)
(***************************************************************************)

\* startSourceDeploy
Launch(j) ==
    /\ At(j, "start")
    /\ \/ Goes(j, [job[j] EXCEPT !.at = "checkout"], {})
       \/ job[j].kind = "manual" /\ Goes(j, [job[j] EXCEPT !.at = "checkout", !.outcome = "queued"], {})
       \/ Ends(j, "failed")
    /\ UNCHANGED world

Checkout(j) ==
    /\ At(j, "checkout")
    /\ server' = [server EXCEPT !.tree = StagingTree]
    /\ Goes(j, [job[j] EXCEPT !.at = "compose", !.want = StagingTree, !.apart = TRUE],
            Sharing({"build", "compose"}))
    /\ UNCHANGED <<config, git, ci, registry, host, staging>>

\* docker compose build, of whatever is checked out by now.
Compose(j) ==
    /\ At(j, "compose")
    /\ server' = [server EXCEPT !.app = [source |-> server.tree, label |-> NoCommit,
                                         by |-> j, clean |-> job[j].apart]]
    /\ Goes(j, [job[j] EXCEPT !.at = "recreate"], Sharing({"recreate"}))
    /\ UNCHANGED <<config, git, ci, registry, host, staging>>

Recreate(j) ==
    /\ At(j, "recreate")
    /\ staging' = server.app
    /\ Goes(j, [job[j] EXCEPT !.at = "health"], Sharing({"health", "done"}))
    /\ UNCHANGED <<config, git, ci, registry, server, host>>

Healthy(j) ==
    /\ At(j, "health")
    /\ Moves(j, "done")
    /\ UNCHANGED world

\* No room on the disk, a git conflict, a build that fails, no answer on the port.
Dies(j) ==
    /\ job[j].at \in Script
    /\ Moves(j, "dead")
    /\ UNCHANGED world

Polled(j) == job[j].kind \in {"source", "manual"} /\ job[j].outcome = "none"

\* The done file decides; the gate is asked about the commit in it, but not for a manual
\* build.
PollDone(j) ==
    /\ Polled(j) /\ At(j, "done")
    /\ IF job[j].kind = "manual" THEN Goes(j, [job[j] EXCEPT !.outcome = "success"], {})
       ELSE Moves(j, "verify")
    /\ UNCHANGED world

\* Without it, an error in the last lines of the log; a build may go on after one.
PollError(j) ==
    /\ Polled(j) /\ job[j].at \in Script \cup {"dead"}
    /\ Goes(j, [job[j] EXCEPT !.outcome = "failed"], {})
    /\ UNCHANGED world

\* Neither, until the time is up.
SourceDeadline(j) ==
    /\ Polled(j) /\ job[j].at \in Script \cup {"dead", "done"}
    /\ Goes(j, [job[j] EXCEPT !.outcome = "failed"], {})
    /\ UNCHANGED world

-----------------------------------------------------------------------------

Step(j) ==
    \/ CiHead(j) \/ FetchRuns(j) \/ PinVolume(j)
    \/ ReleaseHead(j) \/ ImageExists(j) \/ BuildLocal(j) \/ Pull(j) \/ Build(j) \/ Tag(j)
    \/ PushRolling(j) \/ PushCommit(j) \/ PinRead(j) \/ PinWrite(j)
    \/ CallCoolify(j) \/ StartGate(j)
    \/ Verify(j) \/ Compare(j) \/ CommitTag(j) \/ Label(j) \/ DropCopies(j) \/ StopMongo(j)
    \/ StartMongo(j) \/ CountUsers(j) \/ Seed(j)
    \/ Launch(j) \/ PollDone(j)

\* What happens on the hosts, or not at all.
Outside(j) ==
    \/ CoolifyDeploys(j) \/ CoolifyFails(j)
    \/ Checkout(j) \/ Compose(j) \/ Recreate(j) \/ Healthy(j) \/ Dies(j)
    \/ Throws(j) \/ GateThrows(j) \/ PollError(j)

Timer(j) == Deadline(j) \/ SourceDeadline(j)

Next ==
    \/ Push
    \/ \E c \in Commits : Actions(c)
    \/ \E j \in Jobs : Begin(j) \/ Step(j) \/ Outside(j) \/ Timer(j)

Spec == Init /\ [][Next]_vars

-----------------------------------------------------------------------------
(***************************************************************************)
(* What must hold.                                                         *)
(***************************************************************************)

MaybeImage == Image \cup {NoImage}

TypeOK ==
    /\ config \in Configs
    /\ git \in [head : Commits, pinned : BOOLEAN]
    /\ ci \in [Commits -> {"none", "running", "success"}]
    /\ registry \in [Tags -> MaybeImage]
    /\ server \in [tree : Trees, built : MaybeImage, app : MaybeImage, tags : [Tags -> MaybeImage]]
    /\ host \in [rolling : BOOLEAN, volume : BOOLEAN, tags : [Tags -> MaybeImage], app : MaybeImage,
                  mongo : {"none", "data", "empty"}, copy : {"none", "data", "empty"}]
    /\ staging \in MaybeImage
    /\ job \in [Jobs -> [kind : {"none", "deploy", "source", "manual"}, at : Phases,
                         ready : Commits \cup {NoCommit}, release : Commits \cup {NoCommit},
                         cloned : Commits \cup {NoCommit}, want : Trees \cup {NoCommit},
                         running : MaybeImage, apart : BOOLEAN,
                         outcome : {"none", "queued", "refused", "failed", "success"}]]

\* "the app container is still running a stale image (does not match the built commit)"
\* is what the gate is for: when a production deploy succeeds with a commit, and no other
\* deploy has touched the host since its gate began, the application runs the image the
\* gate compared, which names that commit if it names one.  It is code that contains the
\* commit only if the script that built it reached the branch and had the directory to
\* itself (and did not take a mounted working copy), and if it names a commit or there is
\* a repository to compare it with.
VerifiedRunsCommit ==
    \A j \in Jobs :
        LET image == job[j].running IN
        (job[j].kind = "deploy" /\ job[j].outcome = "success" /\ job[j].apart /\ image # NoImage)
            => /\ host.app = image
               /\ image.label \in {job[j].want, NoCommit}
               /\ image.clean /\ (image.label # NoCommit \/ config.ecr)
                    => image.source # StagingTree /\ image.source >= job[j].want

\* A production deploy with a data volume that succeeds, and is not followed by another
\* deploy or gate, leaves the one mongo that has the data, whatever Coolify brought up.
SuccessServesData ==
    \A j \in Jobs :
        (job[j].kind = "deploy" /\ job[j].outcome = "success" /\ job[j].apart /\ config.mongo)
            => host.mongo = "data" /\ host.copy = "none"

\* "otherwise you'll redeploy the previous image": what CI let through had its image in
\* the registry when Coolify was called: an image of that commit, or of a later one, unless
\* a release has replaced it by one whose builder did not reach the branch, or shared the
\* directory.
ReadyHadItsImage ==
    \A j \in Jobs :
        (At(j, "deploying") /\ job[j].ready # NoCommit)
            => LET image == registry[job[j].ready] IN
               image # NoImage /\ (image.clean => image.source \in job[j].ready .. MaxCommit)

=============================================================================
