------------------------------- MODULE Wizard -------------------------------
(***************************************************************************)
(* The deployment wizard in an operator's browser: the form and its steps,  *)
(* the draft kept in localStorage, and the answers that arrive while the    *)
(* operator goes on.                                                       *)
(*                                                                         *)
(* One action is one event handler, or the continuation of one after an     *)
(* await, with the effects React runs once the new state is rendered.  An   *)
(* answer that reaches a wizard that was closed is dropped.                 *)
(***************************************************************************)
EXTENDS Naturals, FiniteSets

CONSTANTS
    Remote,    \* the tenant's servers
    Local,     \* the platform's own host, shared by all tenants
    NoServer,
    Services,  \* services that exist and may be managed
    New,       \* the draft key of a deployment that does not exist yet
    Closed, NoDraft,
    Earlier,   \* the drafts an earlier visit may have left
    MaxEdits,  \* bound on what the operator types and picks
    MaxOpens,  \* bound on how often a wizard is opened
    MaxCalls   \* bound on the requests under way at once

Server == Remote \cup {Local}
Key    == Services \cup {New}

ASSUME NamesAssumption ==
    Local \notin Remote /\ NoServer \notin Server /\ New \notin Services /\ Closed \notin Key

VARIABLES
    page,   \* the mounted wizard: key, step, phase, form, valid servers, was a draft restored
    timer,  \* the autosave timer is running
    draft,  \* localStorage
    calls,  \* requests of the mounted wizard that are not answered
    stored, \* the wizard's view of each service, as the API has it
    made,   \* the key of the last wizard that succeeded, until it is opened again
    edits, opens

vars == <<page, timer, draft, calls, stored, made, edits, opens>>

Hosting == {"local", "cloud-single", "cloud-split"}

\* Repository and token: nothing usable, a repository alone, with a token, and with
\* a token GitHub accepted.
Access == {"none", "public", "token", "verified"}

Form == [hosting : Hosting, access : Access, named : BOOLEAN,
         staging : Server \cup {NoServer}, production : Server \cup {NoServer}]

EmptyForm == [hosting |-> "cloud-split", access |-> "none", named |-> FALSE,
              staging |-> NoServer, production |-> NoServer]

Page == [key : Key \cup {Closed}, step : 0..8, phase : {"idle", "provisioning", "done", "error"},
         form : Form, valid : SUBSET Server, restored : BOOLEAN]

Off == [key |-> Closed, step |-> 0, phase |-> "idle", form |-> EmptyForm,
        valid |-> {}, restored |-> FALSE]

\* What loadServers closes over.
Load == [hosting : Hosting, staging : Server \cup {NoServer},
         production : Server \cup {NoServer}, chosen : Server \cup {NoServer}]

\* A registration under way: the list it reads with the new server chosen.
Registration == {l \in Load : l.chosen \in Remote}

Calls == [loads : SUBSET Load, validating : SUBSET Server, verify : BOOLEAN, config : BOOLEAN,
          register : SUBSET Registration, sent : Form]
Quiet == [loads |-> {}, validating |-> {}, verify |-> FALSE, config |-> FALSE,
          register |-> {}, sent |-> EmptyForm]

Draft == [step : 1..8, form : Form]

ASSUME EarlierAssumption == Earlier \subseteq Draft
ASSUME BoundsAssumption == MaxEdits \in Nat /\ MaxOpens \in Nat

TypeOK ==
    /\ page \in Page
    /\ page.key = Closed <=> page.step = 0
    /\ timer \in BOOLEAN
    /\ draft \in [Key -> {NoDraft} \cup Draft]
    /\ calls \in Calls
    /\ stored \in [Services -> Form]
    /\ made \in Key \cup {Closed}
    /\ edits \in 0..MaxEdits /\ opens \in 0..MaxOpens

\* A service as deploymentWizard reads it back: its servers are where it runs.
Init ==
    /\ page = Off /\ timer = FALSE /\ calls = Quiet
    /\ draft \in [Key -> {NoDraft} \cup Earlier]
    /\ stored \in [Services -> {f \in Form : /\ f.hosting = "cloud-split" /\ f.named /\ f.access = "public"
                                             /\ f.staging \in Remote /\ f.production = NoServer}]
    /\ made = Closed /\ edits = 0 /\ opens = 0

-----------------------------------------------------------------------------
(***************************************************************************)
(* Gates.                                                                  *)
(***************************************************************************)

Valid(p, s) == s # NoServer /\ s \in p.valid

TargetsGateMet(p) ==
    /\ Valid(p, p.form.staging)
    /\ p.form.hosting = "cloud-split" =>
          \/ p.form.production = NoServer
          \/ Valid(p, p.form.production) /\ p.form.production # p.form.staging

\* In edit mode a repository already verified needs no token: the first clause too.
StepGateMet(n, p) ==
    CASE n = 3 -> p.form.access \in {"public", "verified"}
      [] n = 4 -> p.form.named
      [] n = 5 -> TargetsGateMet(p)
      [] OTHER -> TRUE

CanNavigateToStep(target, p) ==
    target <= p.step \/ \A n \in 1..(target - 1) : StepGateMet(n, p)

HasWizardProgress(p) ==
    \/ p.step > 1 \/ p.form.named \/ p.form.access # "none"
    \/ p.form.staging # NoServer \/ p.form.production # NoServer

-----------------------------------------------------------------------------
(***************************************************************************)
(* What React does with a new state p: the autosave effect, and the effect  *)
(* that loads the servers.                                                 *)
(***************************************************************************)

\* Mutant: the autosave does not look at the phase.
AutosaveAlways(p) == HasWizardProgress(p)

\* The autosave effect: not while or after the wizard submits.
AutosaveDue(p) == p.phase = "idle" /\ HasWizardProgress(p)

Saved(p) == <<p.step, p.form, p.phase>>

\* Every change of what is saved clears the timer and starts it anew.
Autosave(p) == timer' = IF Saved(p) = Saved(page) THEN timer ELSE AutosaveDue(p)

LoadOf(p, chosen) == [hosting |-> p.form.hosting, staging |-> p.form.staging,
                      production |-> p.form.production, chosen |-> chosen]

ServersDue(p) ==
    p.step \in {5, 6} /\ (p.step # page.step \/ p.form.hosting # page.form.hosting)

\* The requests under way, the validations of one list counted once.
InFlight(c) ==
    Cardinality(c.loads) + (IF c.validating = {} THEN 0 ELSE 1) + (IF c.verify THEN 1 ELSE 0)
        + (IF c.register = {} THEN 0 ELSE 1)

Render(p, c) ==
    /\ page' = p
    /\ Autosave(p)
    /\ calls' = IF ServersDue(p) THEN [c EXCEPT !.loads = @ \cup {LoadOf(p, NoServer)}] ELSE c
    /\ InFlight(calls') <= MaxCalls

\* An answer arrives, or a request leaves: nothing outside the page changes.
Answered(p, c) == Render(p, c) /\ UNCHANGED <<draft, stored, made, edits, opens>>
Ask(c) == Answered(page, c)

ReconcileTargets(p) ==
    ({p.form.staging} \cup (IF p.form.hosting = "cloud-split" THEN {p.form.production} ELSE {}))
        \ {NoServer}

\* The servers the Reconcile step shows a card for: each card scans its server and
\* offers to remove what it finds there.
Reconciled(p) ==
    IF p.step = 6 /\ p.phase = "idle" /\ p.form.hosting # "local" THEN ReconcileTargets(p) ELSE {}

-----------------------------------------------------------------------------
(***************************************************************************)
(* Opening, closing and the draft.                                         *)
(***************************************************************************)

\* initialWizardState: a draft comes back at its step, whatever the gates say, and
\* without the validations.  No caller gives an initialStep: openManageWizard, which would
\* pass one on, is called with the service alone.
InitialWizardState(k) ==
    IF draft[k] = NoDraft THEN [Off EXCEPT !.key = k, !.step = 1]
    ELSE [Off EXCEPT !.key = k, !.step = draft[k].step, !.form = draft[k].form, !.restored = TRUE]

OpenWizard(k) ==
    /\ page.key = Closed /\ opens < MaxOpens
    /\ opens' = opens + 1
    /\ made' = IF made = k THEN Closed ELSE made
    /\ Render(InitialWizardState(k), [Quiet EXCEPT !.config = k \in Services])
    /\ UNCHANGED <<draft, stored, edits>>

CloseWizard ==
    /\ page.key # Closed /\ page.phase # "provisioning"
    /\ page' = Off /\ timer' = FALSE /\ calls' = Quiet
    /\ UNCHANGED <<draft, stored, made, edits, opens>>

AutosaveFires ==
    /\ timer
    /\ timer' = FALSE
    /\ draft' = [draft EXCEPT ![page.key] = [step |-> page.step, form |-> page.form]]
    /\ UNCHANGED <<page, calls, stored, made, edits, opens>>

\* The service as the API has it, unless a draft was restored; its servers count
\* as validated where the environment is ready.
ConfigAnswers ==
    /\ calls.config
    /\ \E ready \in SUBSET {stored[page.key].staging, stored[page.key].production} :
          Answered([page EXCEPT
                       !.form = IF page.restored THEN @ ELSE stored[page.key],
                       !.valid = @ \cup (ready \ {NoServer})],
                   [calls EXCEPT !.config = FALSE])

ConfigFails ==
    /\ calls.config
    /\ Ask([calls EXCEPT !.config = FALSE])

\* The operator can act: the wizard is shown, and its configuration is there.
Idle == page.key # Closed /\ page.phase = "idle" /\ ~calls.config

\* Mutant: the steps counted from nought.
DiscardToZero ==
    /\ Idle /\ page.restored
    /\ draft' = [draft EXCEPT ![page.key] = NoDraft]
    /\ Render([Off EXCEPT !.key = page.key, !.step = 0], calls)
    /\ UNCHANGED <<stored, made, edits, opens>>

\* The form is emptied; in edit mode too, and the service is not read again.
DiscardDraft ==
    /\ Idle /\ page.restored
    /\ draft' = [draft EXCEPT ![page.key] = NoDraft]
    /\ Render([Off EXCEPT !.key = page.key, !.step = 1], calls)
    /\ UNCHANGED <<stored, made, edits, opens>>

-----------------------------------------------------------------------------
(***************************************************************************)
(* The steps.                                                              *)
(***************************************************************************)

Fill(p, c) ==
    /\ edits < MaxEdits /\ edits' = edits + 1
    /\ Render(p, c)
    /\ UNCHANGED <<draft, stored, made, opens>>

SelectHosting(h) ==
    /\ Idle /\ page.step = 1
    /\ Fill([page EXCEPT !.form.hosting = h, !.form.staging = NoServer,
                         !.form.production = NoServer, !.valid = {}], calls)

\* Typing in either field of the Access step forgets a verification.
EditAccess(a) ==
    /\ Idle /\ page.step = 3 /\ a \notin {"verified", page.form.access}
    /\ Fill([page EXCEPT !.form.access = a], calls)

EditName ==
    /\ Idle /\ page.step = 4
    /\ Fill([page EXCEPT !.form.named = ~@], calls)

VerifyAccess ==
    /\ Idle /\ page.step = 3 /\ ~calls.verify /\ page.form.access \in {"token", "verified"}
    /\ Ask([calls EXCEPT !.verify = TRUE])

\* The answer marks whatever the form holds by then.
VerifyAnswers ==
    /\ calls.verify
    /\ \E ok \in BOOLEAN :
          Answered([page EXCEPT !.form.access =
                       IF @ \in {"token", "verified"} THEN (IF ok THEN "verified" ELSE "token") ELSE @],
                   [calls EXCEPT !.verify = FALSE])

\* The footer and the row of steps offer what the gates allow.
Offered(n) == Idle /\ n # page.step /\ CanNavigateToStep(n, page)

GoToStep(n) ==
    /\ Offered(n)
    /\ Answered([page EXCEPT !.step = n], calls)

-----------------------------------------------------------------------------
(***************************************************************************)
(* Targets: servers are listed, picked, registered and validated.          *)
(***************************************************************************)

\* The Targets step of a deployment to the cloud.
OnTargets == Idle /\ page.step = 5 /\ page.form.hosting # "local"

\* validateServerUuid, up to its await, for each server of S.
Validate(p, S, c) ==
    Answered([p EXCEPT !.valid = @ \ S],
             [c EXCEPT !.validating = @ \cup S])

Revalidate(s) ==
    /\ Idle /\ page.step = 5
    /\ s \in {page.form.staging, page.form.production} /\ s \notin calls.validating
    /\ Validate(page, {s}, calls)

\* validateAndWait: Coolify is asked to check the server, and watched until it says
\* reachable and usable or the three minutes are up.
Outcomes(s) == {page.valid \ {s}, page.valid \cup {s}}

\* An answer, a refusal and an exception all settle the validation.
ValidateAnswers(s) ==
    /\ s \in calls.validating
    /\ \E valid \in Outcomes(s) :
          Answered([page EXCEPT !.valid = valid], [calls EXCEPT !.validating = @ \ {s}])

\* The two ServerSelects offer the tenant's servers but not the platform's; picking
\* one validates it, clearing forgets its validation.
ChooseStaging(s) ==
    /\ OnTargets
    /\ Fill([page EXCEPT !.form.staging = s,
                         !.form.production = IF page.form.hosting = "cloud-single" THEN s ELSE @,
                         !.valid = @ \ {s}],
            [calls EXCEPT !.validating = @ \cup {s}])

ChooseProduction(s) ==
    /\ Idle /\ page.step = 5 /\ page.form.hosting = "cloud-split"
    /\ Fill([page EXCEPT !.form.production = s, !.valid = @ \ {s}],
            [calls EXCEPT !.validating = @ \cup {s}])

ClearStaging ==
    /\ OnTargets /\ page.form.staging # NoServer
    /\ Fill([page EXCEPT !.form.staging = NoServer, !.valid = @ \ {page.form.staging}], calls)

ClearProduction ==
    /\ Idle /\ page.step = 5 /\ page.form.hosting = "cloud-split" /\ page.form.production # NoServer
    /\ Fill([page EXCEPT !.form.production = NoServer, !.valid = @ \ {page.form.production}], calls)

RefreshServers ==
    /\ OnTargets /\ calls.loads = {}
    /\ Ask([calls EXCEPT !.loads = {LoadOf(page, NoServer)}])

\* listForTenant: the tenant's servers and the platform's, each usable or not.
Listings == SUBSET Server

\* The first usable server that is not the platform's, else any usable, else any;
\* the second is any other usable one.
First(usable) ==
    IF usable \ {Local} # {} THEN usable \ {Local} ELSE IF usable # {} THEN usable ELSE Server

Second(first, usable) ==
    IF usable \ {first} # {} THEN usable \ {first} ELSE {NoServer}

\* What an answered list makes of the form f: it goes by the form the request was
\* made with, and patches the form there is now.
Chosen(l, usable, f) ==
    LET at(s, t) == [f EXCEPT !.staging = s, !.production = t] IN
    IF l.hosting = "local" THEN {at(Local, Local)}
    ELSE IF l.chosen # NoServer
    THEN {IF l.hosting = "cloud-single" THEN at(l.chosen, l.chosen) ELSE [f EXCEPT !.staging = l.chosen]}
    ELSE IF l.staging # NoServer THEN {f}
    ELSE IF l.hosting = "cloud-single" THEN {at(s, s) : s \in First(usable)}
    ELSE UNION {{at(s, t) : t \in Second(s, usable)} : s \in First(usable)}

\* The servers an answered list has validated.
ToValidate(l) ==
    (IF l.hosting = "local" THEN {Local} ELSE {l.chosen})
        \cup (IF l.chosen = NoServer THEN {l.staging, l.production} ELSE {})

LoadAnswers(l) ==
    /\ l \in calls.loads
    /\ \E usable \in Listings : \E f \in Chosen(l, usable, page.form) :
          Validate([page EXCEPT !.form = f], ToValidate(l) \ {NoServer},
                   [calls EXCEPT !.loads = @ \ {l}])

LoadFails(l) ==
    /\ l \in calls.loads
    /\ Ask([calls EXCEPT !.loads = @ \ {l}])

\* The panel for another server: the API registers it, or finds it registered, and
\* says whether it is usable.  The list is then read with it chosen, by the form there
\* was at the click.
RegisterServer(s) ==
    /\ OnTargets /\ calls.register = {}
    /\ Ask([calls EXCEPT !.register = {LoadOf(page, s)}])

RegisterAnswers ==
    \E l \in calls.register : \E valid \in Outcomes(l.chosen) :
        Answered([page EXCEPT !.valid = valid],
                 [calls EXCEPT !.register = {}, !.loads = @ \cup {l}])

RegisterFails ==
    /\ calls.register # {}
    /\ Ask([calls EXCEPT !.register = {}])

-----------------------------------------------------------------------------
(***************************************************************************)
(* Review: the form is sent, once.                                         *)
(***************************************************************************)

Submit ==
    /\ Idle /\ page.step = 8
    /\ Answered([page EXCEPT !.phase = "provisioning"], [calls EXCEPT !.sent = page.form])

\* Once the board's call has come back: the draft goes, and the wizard closes soon.
Succeed ==
    /\ draft' = [draft EXCEPT ![page.key] = NoDraft]
    /\ made' = page.key
    /\ Render([page EXCEPT !.phase = "done"], [calls EXCEPT !.sent = EmptyForm])
    /\ UNCHANGED <<edits, opens>>

\* Coolify knows no server without a name.
Accepted(f) == f.staging # NoServer

ProvisionDeployment ==
    /\ page.phase = "provisioning" /\ page.key = New /\ Accepted(calls.sent)
    /\ Succeed
    /\ UNCHANGED stored

\* What getConfig makes of the two targets.
InferHosting(staging, production) ==
    CASE staging = Local      -> "local"
      [] staging = production -> "cloud-single"
      [] OTHER                -> "cloud-split"

\* How a service that was f reads back once g is saved up to a point: its name and
\* repository first, then the staging target, then the production target.  A form
\* without a production server leaves the one there is; the token is not kept.
Renamed(f, g) ==
    [f EXCEPT !.named = g.named, !.access = IF g.access = "none" THEN "none" ELSE "public"]
Retargeted(f, staging, production) ==
    [f EXCEPT !.staging = staging, !.production = production,
              !.hosting = InferHosting(staging, production)]
HalfSaved(f, g) == {f, Renamed(f, g), Retargeted(Renamed(f, g), g.staging, f.production)}
ReadBack(f, g) ==
    Retargeted(Renamed(f, g), g.staging, IF g.production = NoServer THEN f.production ELSE g.production)

UpdateDeployment ==
    /\ page.phase = "provisioning" /\ page.key \in Services /\ Accepted(calls.sent)
    /\ stored' = [stored EXCEPT ![page.key] = ReadBack(@, calls.sent)]
    /\ Succeed

\* A save that fails has done a part of its work, and leaves it.
ProvisionFails ==
    /\ page.phase = "provisioning"
    /\ IF page.key = New THEN UNCHANGED stored
       ELSE \E f \in HalfSaved(stored[page.key], calls.sent) \cup {ReadBack(stored[page.key], calls.sent)} :
               stored' = [stored EXCEPT ![page.key] = f]
    /\ Render([page EXCEPT !.phase = "error"], [calls EXCEPT !.sent = EmptyForm])
    /\ UNCHANGED <<draft, made, edits, opens>>

-----------------------------------------------------------------------------

Typing ==
    \/ \E h \in Hosting : SelectHosting(h)
    \/ \E a \in Access : EditAccess(a)
    \/ EditName
    \/ \E s \in Remote : ChooseStaging(s) \/ ChooseProduction(s)
    \/ ClearStaging \/ ClearProduction

Clicking ==
    \/ VerifyAccess \/ RefreshServers \/ DiscardDraft \/ Submit
    \/ \E n \in 1..8 : GoToStep(n)
    \/ \E s \in Remote : RegisterServer(s)
    \/ \E s \in Server : Revalidate(s)

Answers ==
    \/ ConfigAnswers \/ ConfigFails \/ VerifyAnswers \/ RegisterAnswers \/ RegisterFails
    \/ \E l \in calls.loads : LoadAnswers(l) \/ LoadFails(l)
    \/ \E s \in Server : ValidateAnswers(s)
    \/ ProvisionDeployment \/ UpdateDeployment \/ ProvisionFails

Next ==
    \/ \E k \in Key : OpenWizard(k)
    \/ CloseWizard \/ AutosaveFires \/ Typing \/ Clicking \/ Answers

Spec == Init /\ [][Next]_vars

-----------------------------------------------------------------------------
(***************************************************************************)
(* What must hold.                                                         *)
(***************************************************************************)

\* A deployment that was made is not offered again as a draft: whatever was typed
\* just before, and whatever answers still come in, nothing is saved once the
\* wizard has submitted, under the key that was cleared.
MadeLeavesNoDraft == made # Closed => draft[made] = NoDraft

\* "Reconcile is skipped for the shared platform localhost - Praxarch never
\* modifies the shared host on your behalf": no card is shown for it.
ReconcileSkipsSharedHost == Local \notin Reconciled(page)

=============================================================================
