---------------------------- MODULE WizardProofs ----------------------------
(***************************************************************************)
(* Proofs about Wizard: what localStorage keeps once a deployment is made,  *)
(* for any servers, services, drafts and bounds.                           *)
(***************************************************************************)
EXTENDS Wizard, TLAPS

-----------------------------------------------------------------------------
(***************************************************************************)
(* The inductive invariant.                                                *)
(***************************************************************************)

\* Only the wizard of a service waits for a configuration.
ConfigOfService == calls.config => page.key \in Services

\* The timer runs only before the form is sent, and the wizard that made a deployment
\* has sent it: the timer of another may fire, but saves under another key.
TimerIsHarmless ==
    /\ timer => page.phase = "idle"
    /\ (made # Closed /\ page.key = made) => page.phase = "done"

IInv == TypeOK /\ ConfigOfService /\ TimerIsHarmless /\ MadeLeavesNoDraft

-----------------------------------------------------------------------------
(***************************************************************************)
(* Lemmas about the parts of a step.                                       *)
(***************************************************************************)

\* What the types say of a page and of the requests under way.
LEMMA Shapes ==
    ASSUME TypeOK
    PROVE  /\ page.key \in Key \cup {Closed} /\ page.step \in 0..8
           /\ page.phase \in {"idle", "provisioning", "done", "error"}
           /\ page.form \in Form /\ page.valid \subseteq Server /\ page.restored \in BOOLEAN
           /\ calls.loads \subseteq Load /\ calls.validating \subseteq Server
           /\ calls.verify \in BOOLEAN /\ calls.config \in BOOLEAN
           /\ calls.register \subseteq Registration /\ calls.sent \in Form
BY DEF TypeOK, Page, Calls

LEMMA FormShapes ==
    ASSUME NEW f \in Form
    PROVE  /\ f.hosting \in Hosting /\ f.access \in Access /\ f.named \in BOOLEAN
           /\ f.staging \in Server \cup {NoServer} /\ f.production \in Server \cup {NoServer}
BY DEF Form

\* What a rendering does to the timer and to the requests.
LEMMA Rendered ==
    ASSUME TypeOK, NEW p \in Page, NEW c \in Calls, Render(p, c)
    PROVE  /\ page' = p
           /\ timer' \in BOOLEAN
           /\ timer' => p.phase = "idle" \/ (timer /\ p.phase = page.phase)
           /\ calls' \in Calls /\ calls'.config = c.config
<1>1. page' = p
  BY DEF Render
<1>2. timer' \in BOOLEAN /\ (timer' => p.phase = "idle" \/ (timer /\ p.phase = page.phase))
  <2>1. CASE Saved(p) = Saved(page)
    BY <2>1 DEF Render, Autosave, Saved, TypeOK
  <2>2. CASE Saved(p) # Saved(page)
    <3>1. timer' = AutosaveDue(p)
      BY <2>2 DEF Render, Autosave
    <3> QED
      BY <3>1 DEF AutosaveDue
  <2> QED
    BY <2>1, <2>2
<1>3. calls' \in Calls /\ calls'.config = c.config
  <2>1. LoadOf(p, NoServer) \in Load
    BY DEF LoadOf, Load, Page, Form
  <2>2. CASE ServersDue(p)
    BY <2>1, <2>2 DEF Render, Calls
  <2>3. CASE ~ServersDue(p)
    BY <2>3 DEF Render
  <2> QED
    BY <2>2, <2>3
<1> QED
  BY <1>1, <1>2, <1>3

\* A wizard that goes on, and does not leave its last phase, keeps the invariant.
LEMMA GoesOn ==
    ASSUME IInv, NEW p \in Page, NEW c \in Calls, Render(p, c),
           p.key = page.key, (p.step = 0 <=> page.step = 0),
           (page.phase = "done" => p.phase = "done"),
           (c.config => calls.config),
           UNCHANGED <<draft, made, opens>>, stored' \in [Services -> Form], edits' \in 0..MaxEdits
    PROVE  IInv'
<1>1. /\ page' = p /\ timer' \in BOOLEAN /\ calls' \in Calls /\ calls'.config = c.config
      /\ timer' => p.phase = "idle" \/ (timer /\ p.phase = page.phase)
  BY Rendered DEF IInv
<1>2. TypeOK'
  BY <1>1 DEF IInv, TypeOK
<1>3. ConfigOfService'
  BY <1>1 DEF IInv, ConfigOfService
<1>4. TimerIsHarmless'
  BY <1>1 DEF IInv, TimerIsHarmless
<1>5. MadeLeavesNoDraft'
  BY DEF IInv, MadeLeavesNoDraft
<1> QED
  BY <1>2, <1>3, <1>4, <1>5 DEF IInv

\* No wizard is mounted.
LEMMA OffPage == Off \in Page /\ Off.key = Closed /\ Off.step = 0 /\ Off.phase = "idle"
<1>1. EmptyForm \in Form
  BY DEF EmptyForm, Form, Hosting, Access
<1>2. Off \in Page
  BY <1>1 DEF Off, Page
<1> QED
  BY <1>2 DEF Off

\* The page with which a wizard opens.
LEMMA Opened ==
    ASSUME TypeOK, NEW k \in Key
    PROVE  /\ InitialWizardState(k) \in Page /\ InitialWizardState(k).key = k
           /\ InitialWizardState(k).step \in 1..8 /\ InitialWizardState(k).phase = "idle"
<1>1. EmptyForm \in Form
  BY DEF EmptyForm, Form, Hosting, Access
<1>2. CASE draft[k] = NoDraft
  <2>1. InitialWizardState(k) =
          [key |-> k, step |-> 1, phase |-> "idle", form |-> EmptyForm, valid |-> {}, restored |-> FALSE]
    BY <1>2 DEF InitialWizardState, Off
  <2> QED
    BY <1>1, <2>1 DEF Page
<1>3. CASE draft[k] # NoDraft
  <2>1. draft[k] \in Draft
    BY <1>3 DEF TypeOK
  <2>2. draft[k].step \in 1..8 /\ draft[k].form \in Form
    BY <2>1 DEF Draft
  <2>3. InitialWizardState(k) =
          [key |-> k, step |-> draft[k].step, phase |-> "idle", form |-> draft[k].form, valid |-> {},
           restored |-> TRUE]
    BY <1>3 DEF InitialWizardState, Off
  <2> QED
    BY <2>2, <2>3 DEF Page
<1> QED
  BY <1>2, <1>3

\* What an answered list makes of a form is a form.
LEMMA ChosenForms ==
    ASSUME NEW l \in Load, NEW usable \in Listings, NEW f \in Form, NEW g \in Chosen(l, usable, f)
    PROVE  g \in Form
<1> DEFINE at(s, t) == [f EXCEPT !.staging = s, !.production = t]
           Spot == Server \cup {NoServer}
<1>1. \A s, t \in Spot : at(s, t) \in Form
  BY DEF Form
<1>2. Local \in Spot /\ l.chosen \in Spot
  BY DEF Server, Load
<1>3. First(usable) \subseteq Spot
  BY DEF First, Listings, Server
<1>4. \A s \in Spot : Second(s, usable) \subseteq Spot
  BY DEF Second, Listings
<1>5. CASE l.hosting = "local"
  <2>1. g = at(Local, Local)
    BY <1>5 DEF Chosen
  <2> QED
    BY <1>1, <1>2, <2>1
<1>6. CASE l.hosting # "local" /\ l.chosen # NoServer
  <2>1. g = at(l.chosen, l.chosen) \/ g = [f EXCEPT !.staging = l.chosen]
    BY <1>6 DEF Chosen
  <2>2. [f EXCEPT !.staging = l.chosen] \in Form
    BY <1>2 DEF Form
  <2> QED
    BY <1>1, <1>2, <2>1, <2>2
<1>7. CASE l.hosting # "local" /\ l.chosen = NoServer /\ l.staging # NoServer
  BY <1>7 DEF Chosen
<1>8. CASE /\ l.hosting # "local" /\ l.chosen = NoServer /\ l.staging = NoServer
           /\ l.hosting = "cloud-single"
  <2>1. PICK s \in First(usable) : g = at(s, s)
    BY <1>8 DEF Chosen
  <2> QED
    BY <1>1, <1>3, <2>1
<1>9. CASE /\ l.hosting # "local" /\ l.chosen = NoServer /\ l.staging = NoServer
           /\ l.hosting # "cloud-single"
  <2>1. PICK s \in First(usable) : g \in {at(s, t) : t \in Second(s, usable)}
    BY <1>9 DEF Chosen
  <2>2. PICK t \in Second(s, usable) : g = at(s, t)
    BY <2>1
  <2> QED
    BY <1>1, <1>3, <1>4, <2>1, <2>2
<1> QED
  BY <1>5, <1>6, <1>7, <1>8, <1>9

\* What is left of a service by a save, whole or half, is a form.
LEMMA SavedForms ==
    ASSUME NEW f \in Form, NEW g \in Form
    PROVE  HalfSaved(f, g) \cup {ReadBack(f, g)} \subseteq Form
<1>1. \A s, t : InferHosting(s, t) \in Hosting
  BY DEF InferHosting, Hosting
<1>2. Renamed(f, g) \in Form
  BY FormShapes DEF Renamed, Form, Access
<1>3. \A s, t \in Server \cup {NoServer} : Retargeted(Renamed(f, g), s, t) \in Form
  BY <1>1, <1>2 DEF Retargeted, Form
<1>4. /\ g.staging \in Server \cup {NoServer} /\ g.production \in Server \cup {NoServer}
      /\ f.production \in Server \cup {NoServer}
  BY FormShapes
<1> QED
  BY <1>2, <1>3, <1>4 DEF HalfSaved, ReadBack

-----------------------------------------------------------------------------
(***************************************************************************)
(* The steps of the wizard.                                                *)
(***************************************************************************)

LEMMA IInvInitially == Init => IInv
<1> SUFFICES ASSUME Init PROVE IInv
  OBVIOUS
<1>1. EmptyForm \in Form
  BY DEF EmptyForm, Form, Hosting, Access
<1>2. page \in Page /\ page.key = Closed /\ page.step = 0 /\ page.phase = "idle"
  BY OffPage DEF Init
<1>3. calls \in Calls /\ ~calls.config
  BY <1>1 DEF Init, Quiet, Calls
<1>4. draft \in [Key -> {NoDraft} \cup Draft]
  BY EarlierAssumption DEF Init
<1>5. stored \in [Services -> Form]
  BY DEF Init
<1>6. timer \in BOOLEAN
  BY DEF Init
<1>7. made \in Key \cup {Closed} /\ edits \in 0..MaxEdits /\ opens \in 0..MaxOpens
  BY BoundsAssumption DEF Init
<1>8. TypeOK
  BY <1>2, <1>3, <1>4, <1>5, <1>6, <1>7, NamesAssumption DEF TypeOK
<1> QED
  BY <1>2, <1>3, <1>8 DEF Init, IInv, ConfigOfService, TimerIsHarmless, MadeLeavesNoDraft

\* Opening takes another key than the one made, or forgets that it was made.
LEMMA OpenStep == ASSUME IInv, NEW k \in Key, OpenWizard(k) PROVE IInv'
<1> DEFINE p == InitialWizardState(k)
           c == [Quiet EXCEPT !.config = k \in Services]
<1>1. p \in Page /\ p.key = k /\ p.step \in 1..8 /\ p.phase = "idle"
  BY Opened DEF IInv
<1>2. c \in Calls /\ (c.config <=> k \in Services)
  <2>1. EmptyForm \in Form
    BY DEF EmptyForm, Form, Hosting, Access
  <2>2. (k \in Services) \in BOOLEAN
    OBVIOUS
  <2> QED
    BY <2>1, <2>2 DEF Quiet, Calls
<1>3. Render(p, c)
  BY DEF OpenWizard
<1> HIDE DEF p, c
<1>4. /\ page' = p /\ timer' \in BOOLEAN /\ calls' \in Calls /\ calls'.config = c.config
  BY <1>1, <1>2, <1>3, Rendered DEF IInv
<1>5. k # Closed
  BY NamesAssumption
<1>6. TypeOK'
  BY <1>1, <1>4, <1>5, BoundsAssumption DEF IInv, TypeOK, OpenWizard
<1>7. made' = Closed \/ (made' = made /\ made # k)
  BY DEF OpenWizard
<1>8. ConfigOfService' /\ TimerIsHarmless'
  BY <1>1, <1>2, <1>4, <1>7 DEF ConfigOfService, TimerIsHarmless
<1>9. MadeLeavesNoDraft'
  BY <1>7 DEF OpenWizard, IInv, MadeLeavesNoDraft
<1> QED
  BY <1>6, <1>8, <1>9 DEF IInv

LEMMA CloseStep == ASSUME IInv, CloseWizard PROVE IInv'
<1>1. EmptyForm \in Form
  BY DEF EmptyForm, Form, Hosting, Access
<1>2. page' \in Page /\ page'.key = Closed /\ page'.step = 0 /\ page'.phase = "idle"
  BY OffPage DEF CloseWizard
<1>3. calls' \in Calls /\ ~calls'.config
  BY <1>1 DEF CloseWizard, Quiet, Calls
<1> QED
  BY <1>2, <1>3 DEF CloseWizard, IInv, TypeOK, ConfigOfService, TimerIsHarmless, MadeLeavesNoDraft

\* The timer saves under the key of a page that has not been sent, so not the one made.
LEMMA AutosaveStep == ASSUME IInv, AutosaveFires PROVE IInv'
<1>1. made # Closed => page.key # made
  BY DEF AutosaveFires, IInv, TimerIsHarmless
<1>2. /\ page' = page /\ calls' = calls /\ made' = made /\ ~timer'
      /\ draft' = [draft EXCEPT ![page.key] = [step |-> page.step, form |-> page.form]]
  BY DEF AutosaveFires
<1>3. draft' \in [Key -> {NoDraft} \cup Draft]
  <2>1. CASE page.key = Closed
    BY <1>2, <2>1, NamesAssumption DEF IInv, TypeOK
  <2>2. CASE page.key # Closed
    <3>1. page.step \in 1..8 /\ page.form \in Form
      BY <2>2, Shapes DEF IInv, TypeOK
    <3> QED
      BY <1>2, <3>1 DEF IInv, TypeOK, Draft
  <2> QED
    BY <2>1, <2>2
<1>4. TypeOK'
  BY <1>2, <1>3 DEF IInv, TypeOK, AutosaveFires
<1>5. MadeLeavesNoDraft'
  BY <1>1, <1>2 DEF IInv, TypeOK, MadeLeavesNoDraft
<1> QED
  BY <1>2, <1>4, <1>5 DEF IInv, ConfigOfService, TimerIsHarmless

\* Only a draft of a wizard that was not sent can be discarded.
LEMMA DiscardStep == ASSUME IInv, DiscardDraft PROVE IInv'
<1> DEFINE p == [Off EXCEPT !.key = page.key, !.step = 1]
<1>1. p \in Page /\ p.key = page.key /\ p.step = 1 /\ p.phase = "idle"
  <2>1. Off \in Page /\ Off.phase = "idle"
    BY OffPage
  <2>2. page.key \in Key \cup {Closed}
    BY Shapes DEF IInv
  <2>3. \A q \in Page, k \in Key \cup {Closed} :
          /\ [q EXCEPT !.key = k] \in Page /\ [q EXCEPT !.key = k].key = k
          /\ [q EXCEPT !.key = k].phase = q.phase
          /\ [q EXCEPT !.step = 1] \in Page /\ [q EXCEPT !.step = 1].key = q.key
          /\ [q EXCEPT !.step = 1].step = 1 /\ [q EXCEPT !.step = 1].phase = q.phase
    BY DEF Page
  <2> QED
    BY <2>1, <2>2, <2>3
<1>2. Render(p, calls) /\ draft' = [draft EXCEPT ![page.key] = NoDraft] /\ made' = made
  BY DEF DiscardDraft
<1>3. page.key # Closed /\ page.phase = "idle" /\ ~calls.config
  BY DEF DiscardDraft, Idle
<1> HIDE DEF p
<1>4. /\ page' = p /\ timer' \in BOOLEAN /\ calls' \in Calls /\ calls'.config = calls.config
  BY <1>1, <1>2, Rendered DEF IInv, TypeOK
<1>5. draft' \in [Key -> {NoDraft} \cup Draft]
  BY <1>2 DEF IInv, TypeOK
<1>6. TypeOK'
  BY <1>1, <1>2, <1>3, <1>4, <1>5 DEF IInv, TypeOK, DiscardDraft
<1>7. ConfigOfService' /\ TimerIsHarmless'
  BY <1>1, <1>2, <1>3, <1>4 DEF IInv, ConfigOfService, TimerIsHarmless
<1>8. MadeLeavesNoDraft'
  BY <1>2 DEF IInv, TypeOK, MadeLeavesNoDraft
<1> QED
  BY <1>6, <1>7, <1>8 DEF IInv

\* The wizard that succeeds clears its own draft, and is in its last phase.
LEMMA SucceedStep ==
    ASSUME IInv, page.phase = "provisioning", page.key \in Key, Succeed, stored' \in [Services -> Form]
    PROVE  IInv'
<1> DEFINE p == [page EXCEPT !.phase = "done"]
           c == [calls EXCEPT !.sent = EmptyForm]
<1>1. p \in Page /\ p.key = page.key /\ p.step = page.step /\ p.phase = "done"
  BY DEF IInv, TypeOK, Page
<1>2. c \in Calls /\ c.config = calls.config
  <2>1. EmptyForm \in Form
    BY DEF EmptyForm, Form, Hosting, Access
  <2> QED
    BY <2>1 DEF IInv, TypeOK, Calls
<1>3. Render(p, c) /\ draft' = [draft EXCEPT ![page.key] = NoDraft] /\ made' = page.key
  BY DEF Succeed
<1> HIDE DEF p, c
<1>4. /\ page' = p /\ timer' \in BOOLEAN /\ calls' \in Calls /\ calls'.config = calls.config
      /\ timer' => timer /\ p.phase = page.phase
  BY <1>1, <1>2, <1>3, Rendered DEF IInv
<1>5. TypeOK'
  BY <1>1, <1>3, <1>4 DEF IInv, TypeOK, Succeed
<1>6. ConfigOfService' /\ TimerIsHarmless'
  BY <1>1, <1>3, <1>4 DEF IInv, ConfigOfService, TimerIsHarmless
<1>7. MadeLeavesNoDraft'
  BY <1>3 DEF IInv, TypeOK, MadeLeavesNoDraft
<1> QED
  BY <1>5, <1>6, <1>7 DEF IInv

\* What stays when a step leaves the draft and what was made alone.
LEMMA Same ==
    ASSUME IInv, NEW p \in Page, NEW c \in Calls, Answered(p, c),
           p.key = page.key, (p.step = 0 <=> page.step = 0),
           (page.phase = "done" => p.phase = "done"), (c.config => calls.config)
    PROVE  IInv'
<1>1. /\ Render(p, c) /\ UNCHANGED <<draft, made, opens>>
      /\ stored' \in [Services -> Form] /\ edits' \in 0..MaxEdits
  BY DEF Answered, IInv, TypeOK
<1> QED
  BY <1>1, GoesOn

LEMMA Filled ==
    ASSUME IInv, NEW p \in Page, NEW c \in Calls, Fill(p, c), p.key = page.key,
           p.step = page.step, p.phase = page.phase, c.config = calls.config
    PROVE  IInv'
<1>1. /\ Render(p, c) /\ UNCHANGED <<draft, made, opens>>
      /\ stored' \in [Services -> Form]
  BY DEF Fill, IInv, TypeOK
<1>2. edits' \in 0..MaxEdits
  BY BoundsAssumption DEF Fill, IInv, TypeOK
<1> QED
  BY <1>1, <1>2, GoesOn

\* What the operator types and picks.
LEMMA TypingStep == ASSUME IInv, Typing PROVE IInv'
<1>1. page \in Page /\ calls \in Calls
  BY DEF IInv, TypeOK
<1>2. ASSUME NEW h \in Hosting, SelectHosting(h) PROVE IInv'
  <2> DEFINE p == [page EXCEPT !.form.hosting = h, !.form.staging = NoServer,
                               !.form.production = NoServer, !.valid = {}]
  <2>1. p \in Page /\ p.key = page.key /\ p.step = page.step /\ p.phase = page.phase
    BY <1>1 DEF Page, Form
  <2> QED
    BY <1>1, <1>2, <2>1, Filled DEF SelectHosting
<1>3. ASSUME NEW a \in Access, EditAccess(a) PROVE IInv'
  <2> DEFINE p == [page EXCEPT !.form.access = a]
  <2>1. p \in Page /\ p.key = page.key /\ p.step = page.step /\ p.phase = page.phase
    BY <1>1 DEF Page, Form
  <2> QED
    BY <1>1, <1>3, <2>1, Filled DEF EditAccess
<1>4. ASSUME EditName PROVE IInv'
  <2> DEFINE p == [page EXCEPT !.form.named = ~@]
  <2>1. p \in Page /\ p.key = page.key /\ p.step = page.step /\ p.phase = page.phase
    BY <1>1 DEF Page, Form
  <2> QED
    BY <1>1, <1>4, <2>1, Filled DEF EditName
<1>5. ASSUME NEW s \in Remote PROVE /\ [calls EXCEPT !.validating = @ \cup {s}] \in Calls
                                    /\ [calls EXCEPT !.validating = @ \cup {s}].config = calls.config
  BY <1>1 DEF Calls, Server
<1>6. ASSUME NEW s \in Remote, ChooseStaging(s) PROVE IInv'
  <2> DEFINE p == [page EXCEPT !.form.staging = s,
                               !.form.production = IF page.form.hosting = "cloud-single" THEN s ELSE @,
                               !.valid = @ \ {s}]
  <2>1. p \in Page /\ p.key = page.key /\ p.step = page.step /\ p.phase = page.phase
    BY <1>1 DEF Page, Form, Server
  <2> QED
    BY <1>5, <1>6, <2>1, Filled DEF ChooseStaging
<1>7. ASSUME NEW s \in Remote, ChooseProduction(s) PROVE IInv'
  <2> DEFINE p == [page EXCEPT !.form.production = s, !.valid = @ \ {s}]
  <2>1. p \in Page /\ p.key = page.key /\ p.step = page.step /\ p.phase = page.phase
    BY <1>1 DEF Page, Form, Server
  <2> QED
    BY <1>5, <1>7, <2>1, Filled DEF ChooseProduction
<1>8. ASSUME ClearStaging PROVE IInv'
  <2> DEFINE p == [page EXCEPT !.form.staging = NoServer, !.valid = @ \ {page.form.staging}]
  <2>1. p \in Page /\ p.key = page.key /\ p.step = page.step /\ p.phase = page.phase
    BY <1>1 DEF Page, Form
  <2> QED
    BY <1>1, <1>8, <2>1, Filled DEF ClearStaging
<1>9. ASSUME ClearProduction PROVE IInv'
  <2> DEFINE p == [page EXCEPT !.form.production = NoServer, !.valid = @ \ {page.form.production}]
  <2>1. p \in Page /\ p.key = page.key /\ p.step = page.step /\ p.phase = page.phase
    BY <1>1 DEF Page, Form
  <2> QED
    BY <1>1, <1>9, <2>1, Filled DEF ClearProduction
<1> QED
  BY <1>2, <1>3, <1>4, <1>6, <1>7, <1>8, <1>9 DEF Typing

\* A request that leaves, or an answer that changes only what the page knows of servers.
LEMMA Asked ==
    ASSUME IInv, NEW c \in Calls, Ask(c), c.config => calls.config
    PROVE  IInv'
BY Same DEF Ask, IInv, TypeOK

LEMMA ServersKnown ==
    ASSUME IInv, NEW valid \in SUBSET Server, NEW c \in Calls, c.config = calls.config,
           Answered([page EXCEPT !.valid = valid], c)
    PROVE  IInv'
<1>1. /\ [page EXCEPT !.valid = valid] \in Page
      /\ [page EXCEPT !.valid = valid].key = page.key /\ [page EXCEPT !.valid = valid].step = page.step
      /\ [page EXCEPT !.valid = valid].phase = page.phase
  BY DEF IInv, TypeOK, Page
<1> QED
  BY <1>1, Same

LEMMA ListAsked ==
    ASSUME TypeOK, NEW chosen \in Server \cup {NoServer}
    PROVE  LoadOf(page, chosen) \in Load
BY Shapes, FormShapes DEF LoadOf, Load

\* What the operator clicks.
LEMMA ClickingStep == ASSUME IInv, Clicking PROVE IInv'
<1>1. page \in Page /\ calls \in Calls /\ page.form \in Form
  BY Shapes DEF IInv, TypeOK
<1>2. ASSUME VerifyAccess PROVE IInv'
  <2>1. [calls EXCEPT !.verify = TRUE] \in Calls /\ [calls EXCEPT !.verify = TRUE].config = calls.config
    BY <1>1 DEF Calls
  <2> QED
    BY <1>2, <2>1, Asked DEF VerifyAccess
<1>3. ASSUME RefreshServers PROVE IInv'
  <2>1. LoadOf(page, NoServer) \in Load
    BY ListAsked DEF IInv
  <2>2. /\ [calls EXCEPT !.loads = {LoadOf(page, NoServer)}] \in Calls
        /\ [calls EXCEPT !.loads = {LoadOf(page, NoServer)}].config = calls.config
    BY <1>1, <2>1 DEF Calls
  <2> QED
    BY <1>3, <2>2, Asked DEF RefreshServers
<1>4. ASSUME Submit PROVE IInv'
  <2> DEFINE p == [page EXCEPT !.phase = "provisioning"]
             c == [calls EXCEPT !.sent = page.form]
  <2>1. p \in Page /\ p.key = page.key /\ p.step = page.step
    BY <1>1 DEF Page
  <2>2. c \in Calls /\ c.config = calls.config
    BY <1>1 DEF Calls
  <2>3. page.phase # "done" /\ Answered(p, c)
    BY <1>4 DEF Submit, Idle
  <2> HIDE DEF p, c
  <2> QED
    BY <2>1, <2>2, <2>3, Same
<1>5. ASSUME NEW n \in 1..8, GoToStep(n) PROVE IInv'
  <2> DEFINE p == [page EXCEPT !.step = n]
  <2>1. p \in Page /\ p.key = page.key /\ p.step = n /\ p.phase = page.phase
    BY <1>1 DEF Page
  <2>2. page.step # 0
    BY <1>5 DEF GoToStep, Offered, Idle, IInv, TypeOK
  <2>3. Answered(p, calls)
    BY <1>5 DEF GoToStep
  <2> HIDE DEF p
  <2> QED
    BY <1>1, <2>1, <2>2, <2>3, Same
<1>6. ASSUME NEW s \in Remote, RegisterServer(s) PROVE IInv'
  <2>1. LoadOf(page, s) \in Registration
    <3>1. LoadOf(page, s) \in Load /\ LoadOf(page, s).chosen = s
      BY ListAsked DEF IInv, Server, LoadOf
    <3> QED
      BY <3>1 DEF Registration
  <2>2. /\ [calls EXCEPT !.register = {LoadOf(page, s)}] \in Calls
        /\ [calls EXCEPT !.register = {LoadOf(page, s)}].config = calls.config
    BY <1>1, <2>1 DEF Calls
  <2> QED
    BY <1>6, <2>2, Asked DEF RegisterServer
<1>7. ASSUME NEW s \in Server, Revalidate(s) PROVE IInv'
  <2>1. /\ [calls EXCEPT !.validating = @ \cup {s}] \in Calls
        /\ [calls EXCEPT !.validating = @ \cup {s}].config = calls.config
    BY <1>1 DEF Calls
  <2>2. page.valid \ {s} \in SUBSET Server
    BY Shapes DEF IInv
  <2>3. Answered([page EXCEPT !.valid = page.valid \ {s}], [calls EXCEPT !.validating = @ \cup {s}])
    BY <1>7 DEF Revalidate, Validate
  <2> QED
    BY <2>1, <2>2, <2>3, ServersKnown
<1> QED
  BY <1>2, <1>3, <1>4, <1>5, <1>6, <1>7, DiscardStep DEF Clicking

\* The answers about configuration and repository.
LEMMA FormAnswersStep == ASSUME IInv, ConfigAnswers \/ ConfigFails \/ VerifyAnswers PROVE IInv'
<1>1. page \in Page /\ calls \in Calls
  BY DEF IInv, TypeOK
<1> DEFINE off == [calls EXCEPT !.config = FALSE]
<1>2. off \in Calls /\ ~off.config
  BY <1>1 DEF Calls
<1>3. CASE ConfigAnswers
  <2>1. PICK ready \in SUBSET {stored[page.key].staging, stored[page.key].production} :
          Answered([page EXCEPT !.form = IF page.restored THEN @ ELSE stored[page.key],
                                !.valid = @ \cup (ready \ {NoServer})], off)
    BY <1>3 DEF ConfigAnswers
  <2> DEFINE p == [page EXCEPT !.form = IF page.restored THEN @ ELSE stored[page.key],
                               !.valid = @ \cup (ready \ {NoServer})]
  <2>2. stored[page.key] \in Form
    BY <1>3 DEF ConfigAnswers, IInv, ConfigOfService, TypeOK
  <2>3. ready \ {NoServer} \subseteq Server
    BY <2>2, FormShapes
  <2>4. p \in Page /\ p.key = page.key /\ p.step = page.step /\ p.phase = page.phase
    BY <1>1, <2>2, <2>3 DEF Page
  <2>5. Answered(p, off)
    BY <2>1
  <2> HIDE DEF p, off
  <2> QED
    BY <1>2, <2>4, <2>5, Same
<1>4. CASE ConfigFails
  BY <1>2, <1>4, Asked DEF ConfigFails
<1>5. CASE VerifyAnswers
  <2>1. PICK ok \in BOOLEAN :
          Answered([page EXCEPT !.form.access =
                       IF @ \in {"token", "verified"} THEN (IF ok THEN "verified" ELSE "token") ELSE @],
                   [calls EXCEPT !.verify = FALSE])
    BY <1>5 DEF VerifyAnswers
  <2> DEFINE p == [page EXCEPT !.form.access =
                       IF @ \in {"token", "verified"} THEN (IF ok THEN "verified" ELSE "token") ELSE @]
             c == [calls EXCEPT !.verify = FALSE]
  <2>2. p \in Page /\ p.key = page.key /\ p.step = page.step /\ p.phase = page.phase
    BY <1>1 DEF Page, Form, Access
  <2>3. c \in Calls /\ c.config = calls.config
    BY <1>1 DEF Calls
  <2>4. Answered(p, c)
    BY <2>1
  <2> HIDE DEF p, c
  <2> QED
    BY <2>2, <2>3, <2>4, Same
<1> QED
  BY <1>3, <1>4, <1>5

\* The answers about servers.
LEMMA ServerAnswersStep ==
    ASSUME IInv,
           \/ \E l \in calls.loads : LoadAnswers(l) \/ LoadFails(l)
           \/ \E s \in Server : ValidateAnswers(s)
           \/ RegisterAnswers \/ RegisterFails
    PROVE  IInv'
<1>1. page \in Page /\ calls \in Calls /\ page.form \in Form /\ calls.loads \subseteq Load
  BY Shapes DEF IInv, TypeOK
<1>2. ASSUME NEW l \in calls.loads, LoadAnswers(l) PROVE IInv'
  <2> DEFINE S == ToValidate(l) \ {NoServer}
             c0 == [calls EXCEPT !.loads = @ \ {l}]
             c == [c0 EXCEPT !.validating = @ \cup S]
  <2>1. PICK usable \in Listings : \E f \in Chosen(l, usable, page.form) :
          Validate([page EXCEPT !.form = f], S, c0)
    BY <1>2 DEF LoadAnswers
  <2>2. PICK f \in Chosen(l, usable, page.form) : Validate([page EXCEPT !.form = f], S, c0)
    BY <2>1
  <2>3. f \in Form
    BY <1>1, <1>2, <2>2, ChosenForms
  <2>4. S \subseteq Server
    BY <1>1, <1>2 DEF ToValidate, Load, Server
  <2>5. c0 \in Calls /\ c0.config = calls.config
    BY <1>1 DEF Calls
  <2> HIDE DEF c0
  <2>6. c \in Calls /\ c.config = calls.config
    BY <2>4, <2>5 DEF Calls
  <2> DEFINE p0 == [page EXCEPT !.form = f]
             p == [p0 EXCEPT !.valid = @ \ S]
  <2>7. p0 \in Page /\ p0.key = page.key /\ p0.step = page.step /\ p0.phase = page.phase
    BY <1>1, <2>3 DEF Page
  <2>8. Answered(p, c)
    BY <2>2 DEF Validate
  <2> HIDE DEF p0, S
  <2>9. p \in Page /\ p.key = page.key /\ p.step = page.step /\ p.phase = page.phase
    BY <2>7 DEF Page
  <2> HIDE DEF p, c
  <2> QED
    BY <2>6, <2>8, <2>9, Same
<1>3. ASSUME NEW l \in calls.loads, LoadFails(l) PROVE IInv'
  <2>1. /\ [calls EXCEPT !.loads = @ \ {l}] \in Calls
        /\ [calls EXCEPT !.loads = @ \ {l}].config = calls.config
    BY <1>1 DEF Calls
  <2> QED
    BY <1>3, <2>1, Asked DEF LoadFails
<1>4. ASSUME NEW s \in Server, ValidateAnswers(s) PROVE IInv'
  <2>1. PICK valid \in Outcomes(s) :
          Answered([page EXCEPT !.valid = valid], [calls EXCEPT !.validating = @ \ {s}])
    BY <1>4 DEF ValidateAnswers
  <2>2. valid \in SUBSET Server
    BY <1>4, <2>1, Shapes DEF Outcomes, IInv
  <2>3. /\ [calls EXCEPT !.validating = @ \ {s}] \in Calls
        /\ [calls EXCEPT !.validating = @ \ {s}].config = calls.config
    BY <1>1 DEF Calls
  <2> QED
    BY <2>1, <2>2, <2>3, ServersKnown
<1>5. ASSUME RegisterAnswers PROVE IInv'
  <2>1. PICK l \in calls.register : \E valid \in Outcomes(l.chosen) :
           Answered([page EXCEPT !.valid = valid], [calls EXCEPT !.register = {}, !.loads = @ \cup {l}])
    BY <1>5 DEF RegisterAnswers
  <2> DEFINE c == [calls EXCEPT !.register = {}, !.loads = @ \cup {l}]
  <2>2. PICK valid \in Outcomes(l.chosen) : Answered([page EXCEPT !.valid = valid], c)
    BY <2>1
  <2>3. l \in Load /\ l.chosen \in Server
    BY <2>1, Shapes DEF IInv, Registration, Server
  <2>4. valid \in SUBSET Server
    BY <2>2, <2>3, Shapes DEF Outcomes, IInv
  <2>5. c \in Calls /\ c.config = calls.config
    BY <1>1, <2>3 DEF Calls
  <2> QED
    BY <2>2, <2>4, <2>5, ServersKnown
<1>6. ASSUME RegisterFails PROVE IInv'
  <2>1. /\ [calls EXCEPT !.register = {}] \in Calls
        /\ [calls EXCEPT !.register = {}].config = calls.config
    BY <1>1 DEF Calls
  <2> QED
    BY <1>6, <2>1, Asked DEF RegisterFails
<1> QED
  BY <1>2, <1>3, <1>4, <1>5, <1>6

\* The answer to the form that was sent.
LEMMA SentAnswersStep == ASSUME IInv, ProvisionDeployment \/ UpdateDeployment \/ ProvisionFails PROVE IInv'
<1>1. page \in Page /\ calls \in Calls /\ calls.sent \in Form /\ stored \in [Services -> Form]
  BY Shapes DEF IInv, TypeOK
<1>2. CASE ProvisionDeployment
  BY <1>1, <1>2, SucceedStep DEF ProvisionDeployment, Key
<1>3. CASE UpdateDeployment
  <2>1. page.key \in Services /\ ReadBack(stored[page.key], calls.sent) \in Form
    BY <1>1, <1>3, SavedForms DEF UpdateDeployment
  <2>2. stored' \in [Services -> Form]
    BY <1>1, <1>3, <2>1 DEF UpdateDeployment
  <2> QED
    BY <1>3, <2>1, <2>2, SucceedStep DEF UpdateDeployment, Key
<1>4. CASE ProvisionFails
  <2> DEFINE p == [page EXCEPT !.phase = "error"]
             c == [calls EXCEPT !.sent = EmptyForm]
  <2>1. p \in Page /\ p.key = page.key /\ p.step = page.step /\ page.phase # "done"
    BY <1>1, <1>4 DEF Page, ProvisionFails
  <2>2. EmptyForm \in Form
    BY DEF EmptyForm, Form, Hosting, Access
  <2>3. c \in Calls /\ c.config = calls.config
    BY <1>1, <2>2 DEF Calls
  <2>4. stored' \in [Services -> Form]
    <3>1. CASE page.key = New
      BY <1>1, <1>4, <3>1 DEF ProvisionFails
    <3>2. CASE page.key # New
      <4>1. PICK f \in HalfSaved(stored[page.key], calls.sent) \cup {ReadBack(stored[page.key], calls.sent)} :
              stored' = [stored EXCEPT ![page.key] = f]
        BY <1>4, <3>2 DEF ProvisionFails
      <4>2. CASE page.key \in Services
        BY <1>1, <4>1, <4>2, SavedForms
      <4>3. CASE page.key \notin Services
        BY <1>1, <4>1, <4>3
      <4> QED
        BY <4>2, <4>3
    <3> QED
      BY <3>1, <3>2
  <2>5. Render(p, c) /\ UNCHANGED <<draft, made, opens>> /\ edits' \in 0..MaxEdits
    BY <1>4 DEF ProvisionFails, IInv, TypeOK
  <2> HIDE DEF p, c
  <2> QED
    BY <2>1, <2>3, <2>4, <2>5, GoesOn
<1> QED
  BY <1>2, <1>3, <1>4

LEMMA IInvStep == IInv /\ [Next]_vars => IInv'
<1> SUFFICES ASSUME IInv, [Next]_vars PROVE IInv'
  OBVIOUS
<1>1. CASE UNCHANGED vars
  BY <1>1 DEF vars, IInv, TypeOK, ConfigOfService, TimerIsHarmless, MadeLeavesNoDraft
<1>2. ASSUME Answers PROVE IInv'
  BY <1>2, FormAnswersStep, ServerAnswersStep, SentAnswersStep DEF Answers
<1> QED
  BY <1>1, <1>2, OpenStep, CloseStep, AutosaveStep, TypingStep, ClickingStep DEF Next

LEMMA IInvAlways == Spec => []IInv
  BY IInvInitially, IInvStep, PTL DEF Spec

-----------------------------------------------------------------------------
(***************************************************************************)
(* The theorems.                                                           *)
(***************************************************************************)

\* TypeOK: page, draft, requests under way and stored services keep their types,
\* whatever answers arrive in whatever order.
THEOREM TypeCorrect == Spec => []TypeOK
<1>1. IInv => TypeOK
  BY DEF IInv
<1> QED
  BY <1>1, IInvAlways, PTL

\* MadeLeavesNoDraft: neither the autosave timer nor a late answer brings back the
\* draft of a deployment that was made, for any servers, services and earlier drafts.
THEOREM MadeNoDraft == Spec => []MadeLeavesNoDraft
<1>1. IInv => MadeLeavesNoDraft
  BY DEF IInv
<1> QED
  BY <1>1, IInvAlways, PTL

=============================================================================
