--------------------------- MODULE DeploymentConfig ---------------------------
(***************************************************************************)
(* The configuration of one service, which lives in four places:           *)
(*   column  the JSON column deploy_services.environments (the cards);      *)
(*   target  the rows of deploy_targets (what a deploy reads);              *)
(*   vault   the environment variables, encrypted, one entry per            *)
(*           environment;                                                  *)
(*   app     Coolify's applications, with their branch and variables.       *)
(* The requests that change them read one place and write others, an await  *)
(* at a time, and run side by side.  A request is the list of its remaining *)
(* steps; one step is one action.                                          *)
(***************************************************************************)
EXTENDS Naturals, Sequences

CONSTANTS
    Requests,      \* API requests, each served once
    Branches,      \* git branches
    BranchInputs,  \* what the requests say of branches: records of BranchInput
    Texts,         \* env texts as parsed: sets of keys, each with the request's own value
    TextInputs,    \* which texts come with a wizard's request
    BoxKeys,       \* the keys an operator edits in the env boxes
    Commits,
    NoBranch, NoValue, NoText, NoApp, NoCommit,
    First,         \* the application, and the author, of what was provisioned before
    CallsFail      \* whether a call to Coolify or to the database may throw

Env == {"staging", "production"}

\* Names that stand for their kind: the signing secret, a key it may be copied
\* from, the address the application is served at and the one derived from it.
Keys == {"secret", "ADMIN_SECRET", "baseURL", "BUBBLBOOK_SPA_URL"}

\* CROSS_ENV_SECRET_KEYS
SharedKeys == {"secret", "ADMIN_SECRET"}

BranchInput == [branch : Branches \cup {NoBranch}, staging : Branches \cup {NoBranch},
                production : Branches \cup {NoBranch}]

ASSUME ConfigAssumption ==
    /\ {"staging", "master"} \subseteq Branches
    /\ BranchInputs \subseteq BranchInput
    /\ Texts \subseteq SUBSET Keys /\ NoText \notin Texts
    /\ TextInputs \subseteq [Env -> Texts \cup {NoText}]
    /\ BoxKeys \subseteq Keys
    /\ CallsFail \in BOOLEAN
    /\ NoBranch \notin Branches
    /\ First \notin Requests /\ NoApp \notin Requests \cup {First}

\* Applications are named by the request that created them.
AppIds == Requests \cup {First}

\* A value remembers for which environment it was typed, by which request (First: before
\* all of them), and whether it is as typed or made from an address (withDerivedSpaUrl
\* cuts a trailing slash or /app off).
Value == Env \X AppIds \X {"typed", "derived"}
Vars  == [Keys -> Value \cup {NoValue}]
NoVars == [k \in Keys |-> NoValue]

VARIABLES
    column,    \* the environments column, and whether the service exists
    target,    \* deploy_targets
    app,       \* Coolify's applications
    vault,     \* tenant_secrets
    stored,    \* every value the vault has held, with its key (history)
    deployed,  \* the variables the last deploy of an environment ran with (history)
    job        \* the requests

configVars == <<column, target, app, vault, stored, deployed, job>>

-----------------------------------------------------------------------------

\* recomputeAheadOfProd; a commit that is not known says nothing.
AheadOfProd(envs) ==
    \/ envs["production"].status = "error"
    \/ /\ envs["staging"].commit # NoCommit /\ envs["production"].commit # NoCommit
       /\ envs["staging"].commit # envs["production"].commit

EnvRow == [branch : Branches, commit : Commits \cup {NoCommit}, status : {"idle", "active", "error"}]
Column == [exists : BOOLEAN, envs : [Env -> EnvRow], ahead : BOOLEAN]

\* resolveEnvironmentBranches
DefaultBranch(e) == IF e = "staging" THEN "staging" ELSE "master"

Named(b, e) == IF b[e] # NoBranch THEN b[e] ELSE b.branch

ResolveBranch(b, e) == IF Named(b, e) # NoBranch THEN Named(b, e) ELSE DefaultBranch(e)

\* freshEnvironments
FreshColumn(b) ==
    [exists |-> TRUE, ahead |-> FALSE,
     envs |-> [e \in Env |-> [branch |-> ResolveBranch(b, e), commit |-> NoCommit, status |-> "idle"]]]

\* toRecord
ToRecord(c) == [c EXCEPT !.ahead = AheadOfProd(c.envs)]

\* updateConfig's environments: a branch that is not given is kept.
WithBranches(envs, b) ==
    [e \in Env |-> [envs[e] EXCEPT !.branch = IF b[e] # NoBranch THEN b[e] ELSE @]]

\* parseEnvText, of a text that request q brings for environment e.
ParseEnvText(q, t, e) ==
    [k \in Keys |-> IF t # NoText /\ k \in t THEN <<e, q, "typed">> ELSE NoValue]

\* { ...envs, ...incoming }
Merged(envs, incoming) == [k \in Keys |-> IF incoming[k] # NoValue THEN incoming[k] ELSE envs[k]]

WithDerivedSpaUrl(envs) ==
    IF envs["BUBBLBOOK_SPA_URL"] = NoValue /\ envs["baseURL"] # NoValue
    THEN [envs EXCEPT !["BUBBLBOOK_SPA_URL"] = <<envs["baseURL"][1], envs["baseURL"][2], "derived">>]
    ELSE envs

-----------------------------------------------------------------------------
(***************************************************************************)
(* The requests, as lists of steps.                                        *)
(***************************************************************************)

When(condition, steps) == IF condition THEN steps ELSE <<>>

\* What a request says; a field its endpoint does not have is as in Blank.
Blank == [kind |-> "patch", env |-> "staging", key |-> "secret",
          branches |-> [branch |-> NoBranch, staging |-> NoBranch, production |-> NoBranch],
          texts |-> [e \in Env |-> NoText], production |-> FALSE, merge |-> FALSE, push |-> FALSE]

\* The wizard's form, when it saves or provisions; a text set for one environment; and
\* what is asked of an environment.
WizardInput(k, b, t, p) == [Blank EXCEPT !.kind = k, !.branches = b, !.texts = t, !.production = p]
VarsInput(e, t, m, p)   == [Blank EXCEPT !.kind = "setVars", !.env = e, !.texts[e] = t, !.merge = m, !.push = p]
EnvInput(k, e)          == [Blank EXCEPT !.kind = k, !.env = e]

Inputs ==
    {[Blank EXCEPT !.branches = b] : b \in BranchInputs}
    \cup {WizardInput(k, b, t, p) :
            k \in {"save", "provision"}, b \in BranchInputs, t \in TextInputs, p \in BOOLEAN}
    \cup {VarsInput(e, t, m, p) : e \in Env, t \in Texts, m \in BOOLEAN, p \in BOOLEAN}
    \cup {[Blank EXCEPT !.kind = "mirror", !.key = k] : k \in SharedKeys}
    \cup {EnvInput(k, e) : k \in {"pushVars", "jwt", "deploy", "boxes"}, e \in Env}

\* PATCH services/:id
UpdateService == << <<"readColumn", "staging">>, <<"writeConfig", "staging">>,
                    <<"compareBranch", "staging">>, <<"compareBranch", "production">> >>

\* Mutant: Coolify is told before the vault.
ProvisionPushesFirst(i) ==
       << <<"create", "staging">>, <<"findTarget", "staging">>, <<"pushText", "staging">> >>
    \o When(i.production, << <<"findTarget", "production">> >>)
    \o << <<"storeText", "staging">> >>
    \o When(i.texts["production"] # NoText, << <<"storeText", "production">> >>)
    \o When(i.production, << <<"pushText", "production">> >>)
    \o << <<"compareBranch", "staging">> >>
    \o When(i.production, << <<"compareBranch", "production">> >>)

\* ProvisionBundleService.provision: the staging text is stored even when there is none.
ProvisionBundle(i) ==
       << <<"create", "staging">>, <<"findTarget", "staging">> >>
    \o When(i.production, << <<"findTarget", "production">> >>)
    \o << <<"storeText", "staging">> >>
    \o When(i.texts["production"] # NoText, << <<"storeText", "production">> >>)
    \o << <<"pushText", "staging">> >>
    \o When(i.production, << <<"pushText", "production">> >>)
    \o << <<"compareBranch", "staging">> >>
    \o When(i.production, << <<"compareBranch", "production">> >>)

\* DeploymentWizardService.updateDeployment
UpdateDeployment(i) ==
       << <<"readColumn", "staging">>, <<"writeConfig", "staging">>,
          <<"patchTarget", "staging">>, <<"findTarget", "staging">> >>
    \o When(i.production, << <<"patchTarget", "production">>, <<"findTarget", "production">> >>)
    \o When(i.texts["staging"] # NoText, << <<"storeText", "staging">>, <<"pushText", "staging">> >>)
    \o When(i.production /\ i.texts["production"] # NoText,
            << <<"storeText", "production">>, <<"pushText", "production">> >>)
    \o << <<"compareBranch", "staging">> >>
    \o When(i.production, << <<"compareBranch", "production">> >>)

\* syncServiceEnvironment
SyncServiceEnvironment(e) == << <<"locate", e>>, <<"loadVault", e>>, <<"pushKeys", e>> >>

\* deployments.setServiceEnvVars
SetServiceEnvVars(i) ==
       When(i.merge, << <<"readVault", i.env>> >>) \o << <<"storeMerged", i.env>> >>
    \o When(i.push, SyncServiceEnvironment(i.env))

Other(e) == IF e = "staging" THEN "production" ELSE "staging"

SaveEnvVars(e) == << <<"storeBox", e>> >> \o SyncServiceEnvironment(e)

TypeAndSave == << <<"typeBox", "staging">> >> \o SaveEnvVars("staging") \o SaveEnvVars("production")

\* The env boxes of ConfigureServiceModal: both are loaded, in either order, the operator
\* types, and "Save env vars" saves one after the other, without a merge.
ConfigureService(i) ==
    << <<"showBox", i.env>>, <<"showBox", Other(i.env)>> >> \o TypeAndSave

\* mirrorKeyFromProduction
MirrorKey == << <<"readProduction", "staging">>, <<"readVault", "staging">>, <<"storeCopied", "staging">>,
                <<"locate", "staging">>, <<"pushKeys", "staging">> >>

\* ensureJwtSigningSecret
EnsureJwtSigningSecret(e) ==
    << <<"readVault", e>>, <<"readProduction", e>>, <<"storeCopied", e>>,
       <<"locate", e>>, <<"onlySecret", e>>, <<"pushKeys", e>> >>

\* What triggerDeploy does to the configuration, and the outcome it ends in.
BuildAndRecord(e) == << <<"build", e>>, <<"readColumn", e>>, <<"writeOutcome", e>> >>

Deploy(e) == << <<"resolveApp", e>> >> \o SyncServiceEnvironment(e) \o BuildAndRecord(e)

Steps(i) ==
    CASE i.kind = "patch"     -> UpdateService
      [] i.kind = "save"      -> UpdateDeployment(i)
      [] i.kind = "provision" -> ProvisionBundle(i)
      [] i.kind = "setVars"   -> SetServiceEnvVars(i)
      [] i.kind = "pushVars"  -> SyncServiceEnvironment(i.env)
      [] i.kind = "mirror"    -> MirrorKey
      [] i.kind = "jwt"       -> EnsureJwtSigningSecret(i.env)
      [] i.kind = "boxes"     -> ConfigureService(i)
      [] OTHER                -> Deploy(i.env)

-----------------------------------------------------------------------------

Target == [status : {"absent", "provisioning", "ready", "error"}, branch : Branches \cup {NoBranch},
           app : AppIds \cup {NoApp}]
Application == [branch : Branches \cup {NoBranch}, vars : Vars]

NoTarget == [status |-> "absent", branch |-> NoBranch, app |-> NoApp]
NoApplication == [branch |-> NoBranch, vars |-> NoVars]
EmptyBoxes == [e \in Env |-> NoVars]
NoDeploy == [clean |-> FALSE, vars |-> NoVars, vault |-> NoVars]
EmptyColumn == [FreshColumn([branch |-> NoBranch, staging |-> NoBranch, production |-> NoBranch])
                    EXCEPT !.exists = FALSE]

\* The locals of a request: what it still has to do, what it was asked, the rows and
\* variables it has read, the applications it was told of.  "alone": nobody else was
\* under way when it began, nor has begun since; "failed": a call threw, whether or not the code went on.
Idle == [started |-> FALSE, todo |-> <<>>, kind |-> "patch", key |-> "secret",
         branches |-> [e \in Env |-> NoBranch], texts |-> [e \in Env |-> NoText],
         copy |-> EmptyColumn, row |-> NoTarget, vars |-> NoVars, value |-> NoValue,
         boxes |-> EmptyBoxes,
         apps |-> [e \in Env |-> NoApp], alone |-> TRUE, failed |-> FALSE]

\* What a vault holds, as its history records it.
Entries(e, envs) == {<<e, k, envs[k]>> : k \in {k \in Keys : envs[k] # NoValue}}

\* A service that was provisioned before from its default branches and with a text, or
\* none at all.
FirstVars(e) == ParseEnvText(First, {"ADMIN_SECRET", "baseURL"}, e)

ConfigInit ==
    /\ deployed = [e \in Env |-> NoDeploy]
    /\ job = [q \in Requests |-> Idle]
    /\ \E provisioned \in SUBSET Env :
         /\ provisioned \in {{}, Env}
         /\ column = [EmptyColumn EXCEPT !.exists = provisioned # {}]
         /\ target = [e \in Env |->
                        IF e \in provisioned
                        THEN [status |-> "ready", branch |-> DefaultBranch(e), app |-> First]
                        ELSE NoTarget]
         /\ app = [e \in Env |-> [a \in AppIds |->
                        IF e \in provisioned /\ a = First
                        THEN [branch |-> DefaultBranch(e), vars |-> FirstVars(e)]
                        ELSE NoApplication]]
         /\ vault = [e \in Env |-> IF e \in provisioned THEN FirstVars(e) ELSE NoVars]
         /\ stored = UNION {Entries(e, vault[e]) : e \in Env}

-----------------------------------------------------------------------------

Busy(q) == job[q].todo # <<>>
At(q, step, e) == Busy(q) /\ Head(job[q].todo) = <<step, e>>

\* What is kept of a request that has ended, for the properties.
Ended(j) == [Idle EXCEPT !.started = TRUE, !.kind = j.kind, !.branches = j.branches,
                         !.apps = j.apps, !.alone = j.alone, !.failed = j.failed]

Become(q, j) == job' = [job EXCEPT ![q] = IF j.todo = <<>> THEN Ended(j) ELSE j]

Done(j) == [j EXCEPT !.todo = Tail(@)]
Then(j, step, e) == [j EXCEPT !.todo = << <<step, e>> >> \o Tail(@)]
Stopped(j) == [j EXCEPT !.todo = <<>>, !.failed = TRUE]

Begin(q, i) ==
    /\ ~job[q].started
    /\ LET others == {p \in Requests : Busy(p)} IN
       job' = [p \in Requests |->
                 IF p = q
                 THEN [Idle EXCEPT !.started = TRUE, !.kind = i.kind, !.todo = Steps(i),
                                   !.key = IF i.kind = "mirror" THEN i.key ELSE "secret",
                                   !.branches = [e \in Env |-> IF i.kind = "patch"
                                                               THEN Named(i.branches, e)
                                                               ELSE ResolveBranch(i.branches, e)],
                                   !.texts = i.texts, !.alone = others = {}]
                 ELSE [job[p] EXCEPT !.alone = FALSE]]
    /\ UNCHANGED <<column, target, app, vault, stored, deployed>>

\* services.create: an existing service is left as it is.
Create(q, e) ==
    /\ At(q, "create", e)
    /\ column' = IF column.exists THEN column
                 ELSE FreshColumn([branch |-> NoBranch, staging |-> job[q].branches["staging"],
                                   production |-> job[q].branches["production"]])
    /\ Become(q, Done(job[q]))
    /\ UNCHANGED <<target, app, vault, stored, deployed>>

\* The SELECT of updateConfig, and of applyDeployOutcome.  Rows are never deleted.
ReadColumn(q, e) ==
    /\ At(q, "readColumn", e)
    /\ Become(q, IF column.exists THEN [Done(job[q]) EXCEPT !.copy = ToRecord(column)]
                 ELSE Stopped(job[q]))
    /\ UNCHANGED <<column, target, app, vault, stored, deployed>>

\* updateConfig's UPDATE: the whole column, from the copy.
WriteConfig(q, e) ==
    /\ At(q, "writeConfig", e)
    /\ column' = [job[q].copy EXCEPT !.envs = WithBranches(@, job[q].branches)]
    /\ Become(q, [Done(job[q]) EXCEPT !.copy = EmptyColumn])
    /\ UNCHANGED <<target, app, vault, stored, deployed>>

\* applyDeployOutcome.  The flag it sets by hand is overruled by the recomputation.
WriteOutcome(q, e) ==
    /\ At(q, "writeOutcome", e)
    /\ \E status \in {"active", "error"}, commit \in Commits \cup {NoCommit} :
         column' = ToRecord([job[q].copy EXCEPT !.envs[e].status = status,
                                                !.envs[e].commit = commit])
    /\ Become(q, [Done(job[q]) EXCEPT !.copy = EmptyColumn])
    /\ UNCHANGED <<target, app, vault, stored, deployed>>

-----------------------------------------------------------------------------

\* patchWizardFields: the branch among them; no row, no change.
PatchTarget(q, e) ==
    /\ At(q, "patchTarget", e)
    /\ target' = IF target[e].status = "absent" THEN target
                 ELSE [target EXCEPT ![e].branch = job[q].branches[e]]
    /\ Become(q, Done(job[q]))
    /\ UNCHANGED <<column, app, vault, stored, deployed>>

\* provision, whose inside is module Provisioning: a ready target is returned as it is;
\* any other is written anew, then gets its application or an error.
FindTarget(q, e) ==
    /\ At(q, "findTarget", e)
    /\ Become(q, IF target[e].status = "ready" /\ target[e].app # NoApp
                 THEN [Done(job[q]) EXCEPT !.apps[e] = target[e].app]
                 ELSE Then(job[q], "upsert", e))
    /\ UNCHANGED <<column, target, app, vault, stored, deployed>>

Upsert(q, e) ==
    /\ At(q, "upsert", e)
    /\ target' = [target EXCEPT ![e].status = "provisioning", ![e].branch = job[q].branches[e]]
    /\ Become(q, [Then(job[q], "createApplication", e) EXCEPT !.apps[e] = target[e].app])
    /\ UNCHANGED <<column, app, vault, stored, deployed>>

CreateApplication(q, e) ==
    /\ At(q, "createApplication", e)
    /\ \/ /\ job[q].apps[e] # NoApp
          /\ target' = [target EXCEPT ![e].status = "ready"]
          /\ Become(q, Done(job[q]))
          /\ UNCHANGED app
       \/ /\ job[q].apps[e] = NoApp
          /\ app' = [app EXCEPT ![e][q].branch = job[q].branches[e]]
          /\ target' = [target EXCEPT ![e].status = "ready", ![e].app = q]
          /\ Become(q, [Done(job[q]) EXCEPT !.apps[e] = q])
       \/ /\ CallsFail
          /\ target' = [target EXCEPT ![e].status = "error"]
          /\ Become(q, Stopped(job[q]))
          /\ UNCHANGED app
    /\ UNCHANGED <<column, vault, stored, deployed>>

\* Mutant: an environment the request says nothing of is written all the same.
CompareUnnamed(q, e) ==
    /\ At(q, "compareBranch", e)
    /\ Become(q, IF target[e].status = "absent" \/ target[e].branch = job[q].branches[e]
                 THEN Done(job[q])
                 ELSE [Then(job[q], "updateBranch", e) EXCEPT !.row = target[e]])
    /\ UNCHANGED <<column, target, app, vault, stored, deployed>>

\* Mutant: the branch is compared with the card's, which the request has just written.
CompareCard(q, e) ==
    /\ At(q, "compareBranch", e)
    /\ LET branch == job[q].branches[e] IN
       Become(q, IF branch = NoBranch \/ target[e].status = "absent" \/ column.envs[e].branch = branch
                 THEN Done(job[q])
                 ELSE [Then(job[q], "updateBranch", e) EXCEPT !.row = target[e]])
    /\ UNCHANGED <<column, target, app, vault, stored, deployed>>

\* syncBranches: the stored branch decides whether Coolify is told.
CompareBranch(q, e) ==
    /\ At(q, "compareBranch", e)
    /\ LET branch == job[q].branches[e] IN
       Become(q, IF branch = NoBranch \/ target[e].status = "absent" \/ target[e].branch = branch
                 THEN Done(job[q])
                 ELSE [Then(job[q], "updateBranch", e) EXCEPT !.row = target[e]])
    /\ UNCHANGED <<column, target, app, vault, stored, deployed>>

UpdateBranch(q, e) ==
    /\ At(q, "updateBranch", e)
    /\ target' = [target EXCEPT ![e].branch = job[q].branches[e]]
    /\ Become(q, IF job[q].row.app = NoApp THEN [Done(job[q]) EXCEPT !.row = NoTarget]
                 ELSE Then(job[q], "pushBranch", e))
    /\ UNCHANGED <<column, app, vault, stored, deployed>>

PushBranch(q, e) ==
    /\ At(q, "pushBranch", e)
    /\ \/ /\ app' = [app EXCEPT ![e][job[q].row.app].branch = job[q].branches[e]]
          /\ Become(q, [Done(job[q]) EXCEPT !.row = NoTarget])
       \/ /\ CallsFail
          /\ Become(q, [Done(job[q]) EXCEPT !.row = NoTarget, !.failed = TRUE])
          /\ UNCHANGED app
    /\ UNCHANGED <<column, target, vault, stored, deployed>>

-----------------------------------------------------------------------------

\* storeVault: the entry is replaced as a whole.
StoreVault(e, envs) ==
    /\ vault' = [vault EXCEPT ![e] = envs]
    /\ stored' = stored \cup Entries(e, envs)

StoreText(q, e) ==
    /\ At(q, "storeText", e)
    /\ StoreVault(e, ParseEnvText(q, job[q].texts[e], e))
    /\ Become(q, Done(job[q]))
    /\ UNCHANGED <<column, target, app, deployed>>

\* syncToApplication of the text, to the application provision returned.
PushText(q, e) ==
    /\ At(q, "pushText", e)
    /\ Become(q, [Then(job[q], "pushKeys", e) EXCEPT
                    !.row = [NoTarget EXCEPT !.app = job[q].apps[e]],
                    !.vars = ParseEnvText(q, job[q].texts[e], e)])
    /\ UNCHANGED <<column, target, app, vault, stored, deployed>>

\* getVault.  ensureJwtSigningSecret returns when the secret is there.
ReadVault(q, e) ==
    /\ At(q, "readVault", e)
    /\ Become(q, IF job[q].kind = "jwt" /\ vault[e]["secret"] # NoValue
                 THEN [job[q] EXCEPT !.todo = <<>>]
                 ELSE [Done(job[q]) EXCEPT !.vars = vault[e]])
    /\ UNCHANGED <<column, target, app, vault, stored, deployed>>

\* setFromText: replaced, or merged over what was read.
StoreMerged(q, e) ==
    /\ At(q, "storeMerged", e)
    /\ StoreVault(e, Merged(job[q].vars, ParseEnvText(q, job[q].texts[e], e)))
    /\ Become(q, [Done(job[q]) EXCEPT !.vars = NoVars])
    /\ UNCHANGED <<column, target, app, deployed>>

ShowBox(q, e) ==
    /\ At(q, "showBox", e)
    /\ Become(q, [Done(job[q]) EXCEPT !.boxes[e] = vault[e]])
    /\ UNCHANGED <<column, target, app, vault, stored, deployed>>

\* The boxes may be typed in even when nothing could be shown.
TypeBox(q, e) ==
    /\ At(q, "typeBox", e)
    /\ \E f \in Env, k \in BoxKeys :
         \E v \in {job[q].boxes[f][k], NoValue, <<f, q, "typed">>} :
            Become(q, [Done(job[q]) EXCEPT !.boxes[f][k] = v])
    /\ UNCHANGED <<column, target, app, vault, stored, deployed>>

\* saveEnvVars: an empty box is passed over, any other replaces the vault.
StoreBox(q, e) ==
    /\ At(q, "storeBox", e)
    /\ IF job[q].boxes[e] = NoVars
       THEN /\ Become(q, [job[q] EXCEPT !.todo = SubSeq(@, 5, Len(@))])
            /\ UNCHANGED <<vault, stored>>
       ELSE /\ StoreVault(e, job[q].boxes[e])
            /\ Become(q, [Done(job[q]) EXCEPT !.boxes[e] = NoVars])
    /\ UNCHANGED <<column, target, app, deployed>>

\* The value to copy: the one asked for, or the first signing key there is, those of
\* the same environment first.
FirstOf(candidates) ==
    IF \E i \in 1..Len(candidates) : candidates[i] # NoValue
    THEN candidates[CHOOSE i \in 1..Len(candidates) :
                        /\ candidates[i] # NoValue
                        /\ \A j \in 1..(i - 1) : candidates[j] = NoValue]
    ELSE NoValue

CopiedValue(q) ==
    IF job[q].kind = "mirror" THEN vault["production"][job[q].key]
    ELSE FirstOf(<<job[q].vars["ADMIN_SECRET"], vault["production"]["secret"],
                   vault["production"]["ADMIN_SECRET"]>>)

ReadProduction(q, e) ==
    /\ At(q, "readProduction", e)
    /\ Become(q, IF CopiedValue(q) = NoValue THEN Stopped(job[q])
                 ELSE [Done(job[q]) EXCEPT !.value = CopiedValue(q)])
    /\ UNCHANGED <<column, target, app, vault, stored, deployed>>

StoreCopied(q, e) ==
    /\ At(q, "storeCopied", e)
    /\ LET envs == [job[q].vars EXCEPT ![job[q].key] = job[q].value] IN
       /\ StoreVault(e, envs)
       /\ Become(q, [Done(job[q]) EXCEPT !.vars = envs, !.value = NoValue])
    /\ UNCHANGED <<column, target, app, deployed>>

OnlySecret(q, e) ==
    /\ At(q, "onlySecret", e)
    /\ Become(q, [Done(job[q]) EXCEPT !.vars = [NoVars EXCEPT !["secret"] = job[q].vars["secret"]]])
    /\ UNCHANGED <<column, target, app, vault, stored, deployed>>

\* The target must have an application; a deploy goes on without the variables, and the
\* operator types although nothing is shown.
AfterThrow(j) ==
    IF j.kind = "boxes" /\ Head(j.todo)[1] = "showBox"
    THEN [j EXCEPT !.todo = TypeAndSave, !.boxes = EmptyBoxes, !.failed = TRUE]
    ELSE IF j.kind = "deploy" /\ Head(j.todo)[1] \in {"locate", "loadVault", "pushKeys"}
    THEN [j EXCEPT !.todo = BuildAndRecord(Head(j.todo)[2]),
                   !.vars = NoVars, !.row = NoTarget, !.failed = TRUE]
    ELSE Stopped(j)

Locate(q, e) ==
    /\ At(q, "locate", e)
    /\ Become(q, IF target[e].app = NoApp THEN AfterThrow(job[q])
                 ELSE [Done(job[q]) EXCEPT !.row = target[e]])
    /\ UNCHANGED <<column, target, app, vault, stored, deployed>>

LoadVault(q, e) ==
    /\ At(q, "loadVault", e)
    /\ Become(q, [Done(job[q]) EXCEPT !.vars = WithDerivedSpaUrl(vault[e])])
    /\ UNCHANGED <<column, target, app, vault, stored, deployed>>

\* Mutant: only what Coolify lacks is sent.
PushMissing(q, e) ==
    /\ At(q, "pushKeys", e)
    /\ LET a == job[q].row.app IN
       \/ /\ job[q].vars = NoVars
          /\ Become(q, [Done(job[q]) EXCEPT !.row = NoTarget])
          /\ UNCHANGED app
       \/ \E k \in Keys :
            /\ job[q].vars[k] # NoValue
            /\ app' = IF app[e][a].vars[k] = NoValue
                      THEN [app EXCEPT ![e][a].vars[k] = job[q].vars[k]] ELSE app
            /\ Become(q, [job[q] EXCEPT !.vars[k] = NoValue])
    /\ UNCHANGED <<column, target, vault, stored, deployed>>

\* syncToApplication, a variable at a time: whether it updates or creates depends on a
\* list that may be old or empty, and either leaves the variable with its value.
\* Variables that are not in the text stay.
PushKeys(q, e) ==
    /\ At(q, "pushKeys", e)
    /\ \/ /\ job[q].vars = NoVars
          /\ Become(q, [Done(job[q]) EXCEPT !.row = NoTarget])
          /\ UNCHANGED app
       \/ \E k \in Keys :
            /\ job[q].vars[k] # NoValue
            /\ app' = [app EXCEPT ![e][job[q].row.app].vars[k] = job[q].vars[k]]
            /\ Become(q, [job[q] EXCEPT !.vars[k] = NoValue])
    /\ UNCHANGED <<column, target, vault, stored, deployed>>

\* resolveCoolifyAppUuid
ResolveApp(q, e) ==
    /\ At(q, "resolveApp", e)
    /\ Become(q, IF target[e].status # "ready" \/ target[e].app = NoApp THEN Stopped(job[q])
                 ELSE [Done(job[q]) EXCEPT !.apps[e] = target[e].app])
    /\ UNCHANGED <<column, target, app, vault, stored, deployed>>

\* Coolify builds its application as it is now.
Build(q, e) ==
    /\ At(q, "build", e)
    /\ LET a == app[e][job[q].apps[e]] IN
       deployed' = [deployed EXCEPT ![e] =
            [clean |-> job[q].alone /\ ~job[q].failed, vars |-> a.vars, vault |-> vault[e]]]
    /\ Become(q, Done(job[q]))
    /\ UNCHANGED <<column, target, app, vault, stored>>

\* Any other await throws.  (What provision does then is in CreateApplication.)
Throws(q) ==
    /\ CallsFail /\ Busy(q)
    /\ Head(job[q].todo)[1] \notin {"createApplication", "pushBranch", "typeBox"}
    /\ Become(q, AfterThrow(job[q]))
    /\ UNCHANGED <<column, target, app, vault, stored, deployed>>

Step(q, e) ==
    \/ Create(q, e) \/ ReadColumn(q, e) \/ WriteConfig(q, e) \/ WriteOutcome(q, e)
    \/ PatchTarget(q, e) \/ FindTarget(q, e) \/ Upsert(q, e) \/ CreateApplication(q, e)
    \/ CompareBranch(q, e) \/ UpdateBranch(q, e) \/ PushBranch(q, e)
    \/ StoreText(q, e) \/ PushText(q, e) \/ ReadVault(q, e) \/ StoreMerged(q, e)
    \/ ShowBox(q, e) \/ TypeBox(q, e) \/ StoreBox(q, e)
    \/ ReadProduction(q, e) \/ StoreCopied(q, e) \/ OnlySecret(q, e)
    \/ Locate(q, e) \/ LoadVault(q, e) \/ PushKeys(q, e) \/ ResolveApp(q, e) \/ Build(q, e)

ConfigNext ==
    \E q \in Requests :
        \/ \E i \in Inputs : Begin(q, i)
        \/ \E e \in Env : Step(q, e)
        \/ Throws(q)

ConfigSpec == ConfigInit /\ [][ConfigNext]_configVars

-----------------------------------------------------------------------------
(***************************************************************************)
(* What must hold.                                                         *)
(***************************************************************************)

StepNames == {"create", "readColumn", "writeConfig", "writeOutcome", "patchTarget", "findTarget",
              "upsert", "createApplication", "compareBranch", "updateBranch", "pushBranch",
              "storeText", "pushText", "readVault", "storeMerged", "readProduction", "storeCopied",
              "showBox", "typeBox", "storeBox", "onlySecret", "locate", "loadVault", "pushKeys", "resolveApp", "build"}

Job == [started : BOOLEAN, todo : Seq(StepNames \X Env),
        kind : {"patch", "save", "provision", "setVars", "pushVars", "mirror", "jwt", "deploy", "boxes"},
        key : SharedKeys, branches : [Env -> Branches \cup {NoBranch}],
        texts : [Env -> Texts \cup {NoText}], copy : Column, row : Target, vars : Vars,
        value : Value \cup {NoValue}, boxes : [Env -> Vars], apps : [Env -> AppIds \cup {NoApp}],
        alone : BOOLEAN, failed : BOOLEAN]

ConfigTypeOK ==
    /\ column \in Column
    /\ target \in [Env -> Target]
    /\ \A e \in Env : target[e].status # "absent" => target[e].branch \in Branches
    /\ app \in [Env -> [AppIds -> Application]]
    /\ vault \in [Env -> Vars]
    /\ stored \subseteq Env \X Keys \X Value
    /\ deployed \in [Env -> [clean : BOOLEAN, vars : Vars, vault : Vars]]
    /\ job \in [Requests -> Job]

\* "source of truth for re-sync": an application runs with no value that its vault has
\* not held under that name, so that what is lost at Coolify was known here.  (The
\* derived address is the one exception: it is made again at each sync.)
PushedWasStored ==
    \A e \in Env, a \in AppIds, k \in Keys :
        app[e][a].vars[k] # NoValue =>
            \/ <<e, k, app[e][a].vars[k]>> \in stored
            \/ app[e][a].vars[k][3] = "derived"

\* A deploy that ran alone, and none of whose calls failed, runs with everything the
\* vault holds for its environment, whatever earlier requests left half done.
DeployCarriesVault ==
    \A e \in Env : deployed[e].clean =>
        \A k \in Keys : deployed[e].vault[k] # NoValue =>
            deployed[e].vars[k] = deployed[e].vault[k]

\* Saving the configuration alone, and without a failure, leaves the card and the
\* target of every environment it named on the same branch.  (A wizard save names
\* production by giving it a server; without one it changes the card alone.)
SavedBranchesAgree ==
    \A q \in Requests, e \in Env :
        (/\ job[q].started /\ ~Busy(q) /\ job[q].alone /\ ~job[q].failed
         /\ \/ job[q].kind = "patch"
            \/ job[q].kind = "save" /\ job[q].apps[e] # NoApp
         /\ job[q].branches[e] # NoBranch /\ target[e].status # "absent")
            => column.envs[e].branch = target[e].branch

=============================================================================
