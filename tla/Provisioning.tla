---------------------------- MODULE Provisioning ----------------------------
(***************************************************************************)
(* CoolifyProvisioningService.provision: how an environment of a service    *)
(* gets its application in Coolify.  The steps (project, environment, key,  *)
(* deploy key on GitHub, application) are awaited one after the other; what *)
(* they made is remembered in the row of public.deploy_targets, so that a   *)
(* call made again after a failure goes on where the last one stopped.      *)
(*                                                                         *)
(* Calls for one tenant's service run side by side, for the same            *)
(* environment or another.  Each makes at most one object of a kind, so an  *)
(* object is identified by the call that made it.  A request to Coolify or  *)
(* GitHub may take effect and its answer be lost; the process may end       *)
(* between any two steps.                                                  *)
(***************************************************************************)
EXTENDS Naturals, FiniteSets

CONSTANTS
    Calls,          \* calls of provision, first ones and retries
    Environments,   \* environments of the service
    None

ASSUME NoneAssumption == None \notin Calls

VARIABLES
    target,    \* rows of deploy_targets: one for each environment
    projects,  \* projects in Coolify with the tenant's name
    places,    \* environments in Coolify
    github,    \* keys the repository accepts
    apps,      \* applications in Coolify
    job,       \* the calls
    crossed    \* two calls have been under way at once

vars == <<target, projects, places, github, apps, job, crossed>>

Optional == Calls \cup {None}

Target == [status : {"absent", "provisioning", "ready", "error"}, app : Optional, key : Optional]

Place == [by : Calls, project : Calls, name : Environments]

App == [by : Calls, env : Environments, project : Calls, place : Calls, key : Optional]

Trying == {"server", "project", "places", "place", "key", "storeKey", "github", "reuse", "app", "store"}
Underway == {"upsert", "secret", "catch"} \cup Trying

Job == [pc : {"idle", "done", "failed", "abandoned"} \cup Underway, env : Environments \cup {None},
        private : BOOLEAN, key : Optional, app : Optional, project : Optional, place : Optional]

TypeOK ==
    /\ target \in [Environments -> Target]
    /\ projects \subseteq Calls
    /\ places \subseteq Place
    /\ github \subseteq Calls
    /\ apps \subseteq App
    /\ job \in [Calls -> Job]
    /\ \A h \in Calls : job[h].pc # "idle" => job[h].env \in Environments
    /\ crossed \in BOOLEAN

Idle == [pc |-> "idle", env |-> None, private |-> FALSE, key |-> None, app |-> None,
         project |-> None, place |-> None]

Init ==
    /\ target = [e \in Environments |-> [status |-> "absent", app |-> None, key |-> None]]
    /\ projects = {}
    /\ places = {}
    /\ github = {}
    /\ apps = {}
    /\ job = [h \in Calls |-> Idle]
    /\ crossed = FALSE

-----------------------------------------------------------------------------

SetJob(h, j) == job' = [job EXCEPT ![h] = j]
Goto(h, pc) == job' = [job EXCEPT ![h].pc = pc]

Row(h) == target[job[h].env]
SetRow(h, row) == target' = [target EXCEPT ![job[h].env] = row]

\* The request is made; its answer arrives, or is lost.
Answered(h, next) == \E answer \in {next, [job[h] EXCEPT !.pc = "catch"]} : SetJob(h, answer)

\* get: a target that is ready already is returned as it is.
Call(h) ==
    /\ job[h].pc = "idle"
    /\ \E e \in Environments, private \in BOOLEAN :
         SetJob(h, [Idle EXCEPT !.env = e, !.private = private,
                                !.pc = IF target[e].status = "ready" /\ target[e].app # None
                                       THEN "done" ELSE "upsert"])
    /\ crossed' = (crossed \/ \E g \in Calls : job[g].pc \in Underway)
    /\ UNCHANGED <<target, projects, places, github, apps>>

\* upsert: what was made before is kept, and comes back with the row.
Upsert(h) ==
    /\ job[h].pc = "upsert"
    /\ SetRow(h, [Row(h) EXCEPT !.status = "provisioning"])
    /\ SetJob(h, [job[h] EXCEPT !.pc = IF job[h].private THEN "secret" ELSE "server",
                                !.key = Row(h).key, !.app = Row(h).app])
    /\ UNCHANGED <<projects, places, github, apps, crossed>>

\* A request with a token is for a private repository, and its token is kept.
SecretStored(h) ==
    /\ job[h].pc = "secret"
    /\ Goto(h, "server")
    /\ UNCHANGED <<target, projects, places, github, apps, crossed>>

\* These two are outside the try: what they throw leaves the row as it is.
ThrowsEarly(h) ==
    /\ job[h].pc \in {"upsert", "secret"}
    /\ Goto(h, "abandoned")
    /\ UNCHANGED <<target, projects, places, github, apps, crossed>>

\* Mutant: the project is made without looking for it.
FindProjectNever(h) ==
    /\ job[h].pc = "server"
    /\ Goto(h, "project")
    /\ UNCHANGED <<target, projects, places, github, apps, crossed>>

\* ensureProject: the server is checked, the projects are listed ...
FindProject(h) ==
    /\ job[h].pc = "server"
    /\ \/ projects = {} /\ Goto(h, "project")
       \/ \E p \in projects : SetJob(h, [job[h] EXCEPT !.pc = "places", !.project = p])
    /\ UNCHANGED <<target, projects, places, github, apps, crossed>>

\* Mutant: the uuid of the new project is not read from the answer.
CreateProjectUnread(h) ==
    /\ job[h].pc = "project"
    /\ projects' = projects \cup {h}
    /\ Answered(h, [job[h] EXCEPT !.pc = "places"])
    /\ UNCHANGED <<target, places, github, apps, crossed>>

\* ... and one is made when none has the tenant's name.
CreateProject(h) ==
    /\ job[h].pc = "project"
    /\ projects' = projects \cup {h}
    /\ Answered(h, [job[h] EXCEPT !.pc = "places", !.project = h])
    /\ UNCHANGED <<target, places, github, apps, crossed>>

\* What follows the key: an application that is known already is taken as it is.
AfterKey(j) == [j EXCEPT !.pc = IF j.app # None THEN "reuse" ELSE "app"]

\* What follows the environment: a private repository without a key gets one.
AfterPlace(j) == IF j.private /\ j.key = None THEN [j EXCEPT !.pc = "key"] ELSE AfterKey(j)

\* Mutant: any environment of the project will do.
FindPlaceOfAnyName(h) ==
    /\ job[h].pc = "places"
    /\ LET found == {p \in places : p.project = job[h].project} IN
       \/ found = {} /\ Goto(h, "place")
       \/ \E p \in found : SetJob(h, AfterPlace([job[h] EXCEPT !.place = p.by]))
    /\ UNCHANGED <<target, projects, places, github, apps, crossed>>

\* ensureEnvironment
FindPlace(h) ==
    /\ job[h].pc = "places"
    /\ LET found == {p \in places : p.project = job[h].project /\ p.name = job[h].env} IN
       \/ found = {} /\ Goto(h, "place")
       \/ \E p \in found : SetJob(h, AfterPlace([job[h] EXCEPT !.place = p.by]))
    /\ UNCHANGED <<target, projects, places, github, apps, crossed>>

CreatePlace(h) ==
    /\ job[h].pc = "place"
    /\ places' = places \cup {[by |-> h, project |-> job[h].project, name |-> job[h].env]}
    /\ Answered(h, AfterPlace([job[h] EXCEPT !.place = h]))
    /\ UNCHANGED <<target, projects, github, apps, crossed>>

\* A key pair is generated and its private half given to Coolify ...
CreateKey(h) ==
    /\ job[h].pc = "key"
    /\ Answered(h, [job[h] EXCEPT !.pc = "storeKey", !.key = h])
    /\ UNCHANGED <<target, projects, places, github, apps, crossed>>

\* ... its uuid is stored; the row that comes back is what the call goes on with ...
StoreKey(h) ==
    /\ job[h].pc = "storeKey"
    /\ SetRow(h, [Row(h) EXCEPT !.key = job[h].key])
    /\ SetJob(h, [job[h] EXCEPT !.pc = "github", !.app = Row(h).app])
    /\ UNCHANGED <<projects, places, github, apps, crossed>>

\* ... and the public half is given to GitHub.
AddDeployKey(h) ==
    /\ job[h].pc = "github"
    /\ github' = github \cup {job[h].key}
    /\ Answered(h, AfterKey(job[h]))
    /\ UNCHANGED <<target, projects, places, apps, crossed>>

\* Mutant: the status is left as the upsert made it.
ReuseSilently(h) ==
    /\ job[h].pc = "reuse"
    /\ Goto(h, "done")
    /\ UNCHANGED <<target, projects, places, github, apps, crossed>>

Reuse(h) ==
    /\ job[h].pc = "reuse"
    /\ SetRow(h, [Row(h) EXCEPT !.status = "ready"])
    /\ Goto(h, "done")
    /\ UNCHANGED <<projects, places, github, apps, crossed>>

CreateApp(h) ==
    /\ job[h].pc = "app"
    /\ apps' = apps \cup {[by |-> h, env |-> job[h].env, project |-> job[h].project,
                           place |-> job[h].place,
                           key |-> IF job[h].private THEN job[h].key ELSE None]}
    /\ Answered(h, [job[h] EXCEPT !.pc = "store"])
    /\ UNCHANGED <<target, projects, places, github, crossed>>

\* setCoolifyIds: COALESCE keeps the key when the call has none.
Store(h) ==
    /\ job[h].pc = "store"
    /\ SetRow(h, [status |-> "ready", app |-> h,
                  key |-> IF job[h].key # None THEN job[h].key ELSE Row(h).key])
    /\ Goto(h, "done")
    /\ UNCHANGED <<projects, places, github, apps, crossed>>

\* A request fails before it takes effect: refused, unreachable, or the database is.
Throws(h) ==
    /\ job[h].pc \in Trying
    /\ Goto(h, "catch")
    /\ UNCHANGED <<target, projects, places, github, apps, crossed>>

\* The catch block writes the status, or throws in turn.
Catch(h) ==
    /\ job[h].pc = "catch"
    /\ SetRow(h, [Row(h) EXCEPT !.status = "error"])
    /\ Goto(h, "failed")
    /\ UNCHANGED <<projects, places, github, apps, crossed>>

CatchThrows(h) ==
    /\ job[h].pc = "catch"
    /\ Goto(h, "abandoned")
    /\ UNCHANGED <<target, projects, places, github, apps, crossed>>

\* The API process ends: every call under way stops where it is.
Restart ==
    /\ \E h \in Calls : job[h].pc \in Underway
    /\ job' = [h \in Calls |-> IF job[h].pc \in Underway THEN [job[h] EXCEPT !.pc = "abandoned"]
                               ELSE job[h]]
    /\ UNCHANGED <<target, projects, places, github, apps, crossed>>

Step(h) ==
    \/ Call(h) \/ Upsert(h) \/ SecretStored(h) \/ ThrowsEarly(h)
    \/ FindProject(h) \/ CreateProject(h) \/ FindPlace(h) \/ CreatePlace(h)
    \/ CreateKey(h) \/ StoreKey(h) \/ AddDeployKey(h)
    \/ Reuse(h) \/ CreateApp(h) \/ Store(h)
    \/ Throws(h) \/ Catch(h) \/ CatchThrows(h)

Next == (\E h \in Calls : Step(h)) \/ Restart

Spec == Init /\ [][Next]_vars

-----------------------------------------------------------------------------
(***************************************************************************)
(* What must hold.                                                         *)
(***************************************************************************)

\* A target deploys may use has an application, made for that very environment in an
\* environment of that name of a project of the tenant: whatever failed before, however
\* often it was tried again, and whoever else was at it.
ReadyHasItsApp ==
    \A e \in Environments : target[e].status = "ready" =>
        \E a \in apps :
            /\ a.by = target[e].app /\ a.env = e /\ a.project \in projects
            /\ [by |-> a.place, project |-> a.project, name |-> e] \in places

\* "Re-provision is safe (look up existing project/app by name before create)": as long
\* as no two calls crossed, retries after lost answers, exceptions and restarts have
\* made one project and one environment of a name.
ReprovisionFindsPlaces ==
    ~crossed => /\ Cardinality(projects) <= 1
                /\ \A p, q \in places : p.name = q.name => p = q

\* A target says "provisioning", which refuses deploys, only while a call is at it,
\* unless a call ended where the catch block does not reach.
ProvisioningIsTended ==
    \A e \in Environments : target[e].status = "provisioning" =>
        \E h \in Calls : job[h].env = e /\ job[h].pc \in Underway \cup {"abandoned"}

=============================================================================
