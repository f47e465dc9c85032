---------------------------- MODULE Capabilities ----------------------------
(***************************************************************************)
(* The two ways to act.  A capability is dispatched by a page or by the     *)
(* assistant: it validates, runs at once or asks a human, and writes a row  *)
(* of the ledger.  A controller's own endpoint calls the same service with  *)
(* no row of the ledger, and mostly with no look at who asks.              *)
(***************************************************************************)
EXTENDS Naturals

CONSTANTS
    Calls,      \* dispatches, each made once
    Offered,    \* the capabilities that are called
    Platforms   \* where content is published

\* What a handler does with a caller who lacks the role, or asks for approval.
Query(id, risk, credits) ==
    [id |-> id, risk |-> risk, role |-> "none", otherwise |-> "run", changes |-> {0}, credits |-> credits]

Command(id, risk, credits, changes) ==
    [id |-> id, risk |-> risk, role |-> "none", otherwise |-> "run", changes |-> changes, credits |-> credits]

OwnerOnly(id, credits, changes) ==
    [id |-> id, risk |-> "high", role |-> "owner", otherwise |-> "refuse", changes |-> changes, credits |-> credits]

OrApproved(id, role, credits) ==
    [id |-> id, risk |-> "high", role |-> role, otherwise |-> "ask", changes |-> {1}, credits |-> credits]

\* The catalogue: title, description and schema left out.  changes: how many the handler may
\* have to make one after the other, several counted as 2.
ReadAndConfigure ==
    {Query("listServices", "low", 1), Command("createService", "medium", 10, {1}),
     Command("updateServiceConfig", "medium", 5, {1})}

Infrastructure ==
    {Query("listServers", "low", 1), OwnerOnly("registerServer", 25, {1, 2}),
     Command("validateServer", "low", 5, {1}), Query("verifyGitHubAccess", "low", 2)}

\* Setting may leave the push to Coolify out; a push of nothing changes nothing.
EnvSecrets ==
    {Query("getServiceEnvVars", "medium", 2), OwnerOnly("setServiceEnvVars", 10, {1, 2}),
     Command("syncServiceEnvVars", "medium", 5, {0, 1, 2}), Query("compareServiceEnvKeys", "low", 2)}

\* A signing secret that is set is left as it is.
Troubleshooting ==
    {Query("diagnoseEnvironment", "medium", 15), OwnerOnly("mirrorEnvKeyFromProduction", 10, {2}),
     OwnerOnly("ensureJwtSigningSecret", 10, {0, 2}), OwnerOnly("buildFromSource", 50, {1}),
     Command("ensureMcpOverlay", "medium", 15, {1})}

Provision ==
    {OwnerOnly("provisionDeployment", 100, {2}), OwnerOnly("provisionService", 75, {2})}

Ship ==
    {Command("deployStaging", "medium", 25, {1}), OrApproved("promoteProduction", "platform:release", 50)}

Publish == {OrApproved("content.publish", "owner", 25)}

Catalogue ==
    ReadAndConfigure \cup Infrastructure \cup EnvSecrets \cup Troubleshooting
        \cup Provision \cup Ship \cup Publish

Roles == {"owner", "platform:release"}

ASSUME CapabilitiesAssumption == Offered \subseteq {c.id : c \in Catalogue}

VARIABLES
    call,      \* the dispatches
    ledger,    \* capability_audit: a row or none for each dispatch
    approval,  \* the checkpoint each dispatch opened
    post       \* each dispatch's content, by platform

capabilityVars == <<call, ledger, approval, post>>

NotCalled == [at |-> "idle", cap |-> Query("none", "low", 0), via |-> "dispatch", roles |-> {},
              ask |-> FALSE, todo |-> 0, acted |-> FALSE, status |-> "none"]

InitCapabilities ==
    /\ call = [c \in Calls |-> NotCalled]
    /\ ledger = [c \in Calls |-> "none"]
    /\ approval = [c \in Calls |-> "none"]
    /\ post = [c \in Calls |-> [p \in Platforms |-> "none"]]

Goes(c, at) == call' = [call EXCEPT ![c].at = at]

\* Only what was dispatched is written down.
Results(c, status) ==
    call' = [call EXCEPT ![c].at = IF call[c].via = "dispatch" THEN "audit" ELSE "over",
                         ![c].status = status]

-----------------------------------------------------------------------------

\* A call of a capability's service, by way of a dispatch or of an endpoint.
Begun(cap, via, at, roles, ask, n) ==
    [NotCalled EXCEPT !.at = at, !.cap = cap, !.via = via, !.roles = roles, !.ask = ask, !.todo = n]

Throws(c) == call' = [call EXCEPT ![c].at = "over", ![c].status = "throws"]

\* dispatch: an unknown capability or an invalid input throws before anything is run or
\* written down.  A handler without a gate looks neither at roles nor at the request for an
\* approval.
Dispatch(c, ids, roles, ask) ==
    /\ call[c].at = "idle"
    /\ \/ Throws(c)
       \/ \E cap \in Catalogue : \E n \in cap.changes :
            /\ cap.id \in ids \cap Offered
            /\ cap.otherwise = "run" => ~ask
            /\ call' = [call EXCEPT ![c] = Begun(cap, "dispatch", "handler", roles \cap {cap.role}, ask, n)]
    /\ UNCHANGED <<ledger, approval, post>>

\* The endpoints of the wizard, which look at no role: they register a server, provision
\* a deployment, or save one, which provisions it again and sets its variables.
WizardsOwn == {"registerServer", "provisionDeployment", "provisionService", "setServiceEnvVars"}

\* A controller's endpoint.  The wizard's go ahead and the requests for an approval ask for
\* one, whoever makes them; a deploy to production throws without the role.
Endpoint(c, roles) ==
    /\ call[c].at = "idle"
    /\ \E cap \in Catalogue : \E n \in cap.changes :
         /\ cap.id \in Offered
         /\ \/ /\ cap.id \in WizardsOwn
               /\ call' = [call EXCEPT ![c] = Begun(cap, "endpoint", "act", {}, FALSE, n)]
            \/ /\ cap.otherwise = "ask"
               /\ call' = [call EXCEPT ![c] = Begun(cap, "endpoint", "open", {}, TRUE, n)]
            \/ /\ cap.id = "promoteProduction"
               /\ IF cap.role \in roles
                  THEN call' = [call EXCEPT ![c] = Begun(cap, "endpoint", "act", {cap.role}, FALSE, n)]
                  ELSE Throws(c)
    /\ UNCHANGED <<ledger, approval, post>>

\* Mutant: the request for an approval is not looked at.
EntitledWhateverAsked(c) == call[c].cap.role \in call[c].roles

\* entitledToAutoRun
Entitled(c) == ~call[c].ask /\ call[c].cap.role \in call[c].roles

\* The handler's gate.
Gate(c) ==
    /\ call[c].at = "handler"
    /\ IF call[c].cap.otherwise = "run" \/ Entitled(c) THEN Goes(c, "act")
       ELSE IF call[c].cap.otherwise = "refuse" THEN Results(c, "error")
       ELSE Goes(c, "open")
    /\ UNCHANGED <<ledger, approval, post>>

\* openDeployCheckpoint or openContentCheckpoint; the approver's lookup or the INSERT
\* may throw.
OpenCheckpoint(c) ==
    /\ call[c].at = "open"
    /\ \/ approval' = [approval EXCEPT ![c] = "awaiting"] /\ Results(c, "awaiting_approval")
       \/ Results(c, "throws") /\ UNCHANGED approval
    /\ UNCHANGED <<ledger, post>>

\* publish sends to every platform at once.
Sends(c) ==
    post' = IF call[c].cap \in Publish THEN [post EXCEPT ![c] = [p \in Platforms |-> "trying"]] ELSE post

Settled(c) == \A p \in Platforms : post[c][p] # "trying"

\* The next change of the handler, or of the service behind an endpoint.  A publication is
\* one: sending it, whatever the platforms make of it.
Write(c) ==
    /\ call[c].at = "act" /\ call[c].todo > 0
    /\ call' = [call EXCEPT ![c].todo = @ - 1, ![c].acted = TRUE]
    /\ Sends(c)
    /\ UNCHANGED <<ledger, approval>>

\* postToPlatform: the platform has the post, or refuses it or does not answer in time,
\* which publish catches: it returns even when no platform has it.
PostEnds(c, p) ==
    /\ post[c][p] = "trying"
    /\ \E end \in {"published", "failed"} : post' = [post EXCEPT ![c][p] = end]
    /\ UNCHANGED <<call, ledger, approval>>

\* The handler returns; the service it was to change may not exist.
Return(c) ==
    /\ call[c].at = "act"
    /\ Settled(c)
    /\ \/ call[c].todo = 0 /\ Results(c, "ok")
       \/ call[c].cap.id = "updateServiceConfig" /\ ~call[c].acted /\ Results(c, "error")
    /\ UNCHANGED <<ledger, approval, post>>

\* Mutant: what a handler throws is taken for its result.
CallThrowsUncaught(c) ==
    /\ call[c].at = "act"
    /\ call[c].cap \in Publish => ~call[c].acted
    /\ Results(c, "ok")
    /\ UNCHANGED <<ledger, approval, post>>

\* A call of the handler throws, before or after a change; a publication only before.
CallThrows(c) ==
    /\ call[c].at = "act"
    /\ call[c].cap \in Publish => ~call[c].acted
    /\ Results(c, "throws")
    /\ UNCHANGED <<ledger, approval, post>>

\* audit.record, which swallows a failed INSERT.  A row has credits unless it is an error's.
Audit(c) ==
    /\ call[c].at = "audit"
    /\ \/ ledger' = [ledger EXCEPT ![c] = IF call[c].status \in {"ok", "awaiting_approval"}
                                          THEN "charged" ELSE "free"]
       \/ UNCHANGED ledger
    /\ Goes(c, "over")
    /\ UNCHANGED <<approval, post>>

Running(c) ==
    \/ Gate(c) \/ OpenCheckpoint(c) \/ Write(c) \/ Return(c) \/ CallThrows(c) \/ Audit(c)
    \/ \E p \in Platforms : PostEnds(c, p)

\* The approver says yes: the deploy is started, or the content sent; when that throws,
\* the checkpoint is as it was.
Approve(c) ==
    /\ approval[c] = "awaiting"
    /\ approval' = [approval EXCEPT ![c] = "acting"]
    /\ call' = [call EXCEPT ![c].todo = 0, ![c].acted = TRUE]
    /\ Sends(c)
    /\ UNCHANGED ledger

Approved(c) ==
    /\ approval[c] = "acting" /\ Settled(c)
    /\ approval' = [approval EXCEPT ![c] = "approved"]
    /\ UNCHANGED <<call, ledger, post>>

Cancel(c) ==
    /\ approval[c] = "awaiting"
    /\ approval' = [approval EXCEPT ![c] = "rejected"]
    /\ UNCHANGED <<call, ledger, post>>

-----------------------------------------------------------------------------
(***************************************************************************)
(* What must hold.                                                         *)
(***************************************************************************)

\* "execute only if the caller is entitled to auto-run AND did not explicitly request
\* approval; otherwise route to a WhatsApp HITL checkpoint": of what is dispatched, nothing of
\* high risk is done, wholly or in part, but for such a caller or after a yes; and no way leads
\* past the gate to a promotion or a publication.  The wizard's endpoints are not gated.
GatedButForTheWizard ==
    \A c \in Calls : (call[c].cap.risk = "high" /\ call[c].acted) =>
        \/ call[c].cap.role \in call[c].roles /\ ~call[c].ask
        \/ approval[c] \in {"acting", "approved"}
        \/ call[c].via = "endpoint" /\ call[c].cap.id \in WizardsOwn

\* The ledger charges a dispatch that was handed to an approver, or whose handler came to its
\* end: a command that is refused, fails at once or stops half way is free, and a publication
\* is charged when every platform has answered or was given up, be it that none has the post.
ChargedWasCarriedThrough ==
    \A c \in Calls : ledger[c] = "charged" =>
        /\ call[c].via = "dispatch"
        /\ \/ approval[c] # "none"
           \/ call[c].todo = 0 /\ (call[c].cap \in Publish => \A p \in Platforms : post[c][p] \in {"published", "failed"})

=============================================================================
