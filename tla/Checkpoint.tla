----------------------------- MODULE Checkpoint -----------------------------
(***************************************************************************)
(* The WhatsApp approval engine: checkpoints parked in                     *)
(* public.hitl_checkpoints, the approver's replies, and the handlers that  *)
(* turn a reply into a deploy, a publication or a resumed n8n execution.   *)
(*                                                                         *)
(* A reply carries no checkpoint: the handler takes the latest one of the   *)
(* sender that is still awaiting.  Handlers run side by side, one per       *)
(* inbound webhook, and one action is the code between two awaits.  Any     *)
(* await may throw, which loses the rest of the handler; the end of the     *)
(* process is that failure in every handler at once.                       *)
(***************************************************************************)
EXTENDS Naturals

CONSTANTS
    Checkpoints,   \* the checkpoints a run may open
    Approvers,     \* WhatsApp numbers
    Replies,       \* inbound messages
    NoCheckpoint, NoApprover

Kinds     == {"n8n", "deploy", "publish"}    \* checkpoint.action.type
Decisions == {"approve", "reject", "edit"}   \* parseReply

ASSUME NoCheckpointAssumption == NoCheckpoint \notin Checkpoints
ASSUME NoApproverAssumption == NoApprover \notin Approvers

VARIABLES
    cp,        \* rows of hitl_checkpoints, and the requests about to insert them
    clock,     \* the latest createdAt given out
    horizon,   \* checkpoints created before this have outlived their 24 hours
    reply,     \* the approver's messages and the handlers that serve them
    acted,     \* how often a reply carried out a checkpoint's action
    told       \* outcomes the approver was told

vars == <<cp, clock, horizon, reply, acted, told>>

Settled == {"approved", "rejected", "expired"}

CheckpointState ==
    [status : {"none", "creating", "awaiting", "lost"} \cup Settled,
     kind : Kinds, approver : Approvers \cup {NoApprover}, created : Nat]

Outcomes == {"approved", "cancelled", "revise", "expired"}

ReplyState ==
    [pc : {"unsent", "received", "act", "mark", "ack", "over"},
     from : Approvers \cup {NoApprover}, decision : Decisions,
     cp : Checkpoints \cup {NoCheckpoint}, outcome : Outcomes,
     unpublished : BOOLEAN,        \* the publication returned and no platform has it
     known : SUBSET Checkpoints]   \* checkpoints whose outcome the sender had been told

TypeOK ==
    /\ cp \in [Checkpoints -> CheckpointState]
    /\ clock \in Nat /\ horizon \in Nat
    /\ reply \in [Replies -> ReplyState]
    /\ \A m \in Replies : /\ reply[m].pc \in {"act", "mark", "ack"} => reply[m].cp \in Checkpoints
                          /\ reply[m].pc # "unsent" => reply[m].from \in Approvers
    /\ acted \in [Replies -> [Checkpoints -> Nat]]
    /\ told \subseteq Checkpoints \X Outcomes

Unopened == [status |-> "none", kind |-> "n8n", approver |-> NoApprover, created |-> 0]

Unsent == [pc |-> "unsent", from |-> NoApprover, decision |-> "edit", cp |-> NoCheckpoint,
           outcome |-> "approved", unpublished |-> FALSE, known |-> {}]

Init ==
    /\ cp = [c \in Checkpoints |-> Unopened]
    /\ clock = 0
    /\ horizon = 0
    /\ reply = [m \in Replies |-> Unsent]
    /\ acted = [m \in Replies |-> [c \in Checkpoints |-> 0]]
    /\ told = {}

-----------------------------------------------------------------------------

\* persistAndNotify, up to the INSERT: createdAt comes from the API's clock, and two
\* requests may get the same millisecond.
Open(c) ==
    /\ cp[c].status = "none"
    /\ \E kind \in Kinds, a \in Approvers, t \in {clock, clock + 1} :
         /\ t >= horizon
         /\ cp' = [cp EXCEPT ![c] = [status |-> "creating", kind |-> kind, approver |-> a, created |-> t]]
         /\ clock' = t
    /\ UNCHANGED <<horizon, reply, acted, told>>

\* The INSERT.  The approver is messaged next; whether that succeeds or throws, the
\* checkpoint is awaiting.
Persist(c) ==
    /\ cp[c].status = "creating"
    /\ cp' = [cp EXCEPT ![c].status = "awaiting"]
    /\ UNCHANGED <<clock, horizon, reply, acted, told>>

PersistFails(c) ==
    /\ cp[c].status = "creating"
    /\ cp' = [cp EXCEPT ![c].status = "lost"]
    /\ UNCHANGED <<clock, horizon, reply, acted, told>>

\* Time goes by until a checkpoint expires.  Every one lives as long, so the oldest
\* expire first.
Age ==
    /\ \E c \in Checkpoints : cp[c].status # "none" /\ cp[c].created >= horizon
    /\ horizon' = horizon + 1
    /\ UNCHANGED <<cp, clock, reply, acted, told>>

\* A message from an approver, answering something or nothing.
Send(m) ==
    /\ reply[m].pc = "unsent"
    /\ \E a \in Approvers, d \in Decisions :
         reply' = [reply EXCEPT ![m] =
             [Unsent EXCEPT !.pc = "received", !.from = a, !.decision = d,
                            !.known = {c \in Checkpoints : \E o \in Outcomes : <<c, o>> \in told}]]
    /\ UNCHANGED <<cp, clock, horizon, acted, told>>

\* findLatestAwaitingByApprover: ties in created_at are broken by the database.
Awaiting(a) == {c \in Checkpoints : cp[c].status = "awaiting" /\ cp[c].approver = a}

\* Mutant: the query forgets status = 'awaiting'.
LatestOfAny(a) ==
    LET all == {c \in Checkpoints : cp[c].status \in {"awaiting"} \cup Settled /\ cp[c].approver = a}
    IN {c \in all : \A d \in all : cp[d].created <= cp[c].created}

LatestAwaiting(a) ==
    {c \in Awaiting(a) : \A d \in Awaiting(a) : cp[d].created <= cp[c].created}

SetReply(m, pc) == reply' = [reply EXCEPT ![m].pc = pc]

\* What the handler is going to record and tell.  A deploy and a publication can only
\* be approved or cancelled; an n8n execution can also be given edits.
OutcomeOf(c, decision) ==
    CASE cp[c].created < horizon                       -> "expired"
      [] decision = "approve"                          -> "approved"
      [] decision = "edit" /\ cp[c].kind = "n8n"       -> "revise"
      [] OTHER                                         -> "cancelled"

\* Mutant: edits sent for a deploy or a publication count as approval.
ActsOnEdits(c, outcome) == outcome # "expired"

\* A deploy and a publication are carried out on "approve" only; an n8n execution is
\* resumed with whatever was decided.
ActsOn(c, outcome) == outcome = "approved" \/ (cp[c].kind = "n8n" /\ outcome # "expired")

\* handleInboundReply, up to its first effect.
Find(m) ==
    /\ reply[m].pc = "received"
    /\ \/ /\ LatestAwaiting(reply[m].from) = {}
          /\ SetReply(m, "over")
       \/ \E c \in LatestAwaiting(reply[m].from) :
             LET outcome == OutcomeOf(c, reply[m].decision) IN
             reply' = [reply EXCEPT ![m].cp = c, ![m].outcome = outcome,
                                    ![m].pc = IF ActsOn(c, outcome) THEN "act" ELSE "mark"]
    /\ UNCHANGED <<cp, clock, horizon, acted, told>>

\* executeApprovedDeploy, publishApprovedContent or n8n.resume returns, and what was
\* approved is carried out; but a publication returns too when every platform failed, which
\* publish catches one by one.
Act(m) ==
    /\ reply[m].pc = "act"
    /\ \/ acted' = [acted EXCEPT ![m][reply[m].cp] = @ + 1] /\ SetReply(m, "mark")
       \/ /\ cp[reply[m].cp].kind = "publish"
          /\ reply' = [reply EXCEPT ![m].pc = "mark", ![m].unpublished = TRUE]
          /\ UNCHANGED acted
    /\ UNCHANGED <<cp, clock, horizon, told>>

\* Mutant: the call is not awaited, so what it throws does not stop the handler.
ActThrowsUnseen(m) ==
    /\ reply[m].pc = "act"
    /\ SetReply(m, "mark")
    /\ UNCHANGED <<cp, clock, horizon, acted, told>>

\* The call throws, with or without having had its effect: a refusal, or a timeout
\* after the other side took it.
ActThrows(m) ==
    /\ reply[m].pc = "act"
    /\ \/ UNCHANGED acted
       \/ acted' = [acted EXCEPT ![m][reply[m].cp] = @ + 1]
    /\ SetReply(m, "over")
    /\ UNCHANGED <<cp, clock, horizon, told>>

\* Mutant: the outcome itself is written into the status column.
StatusForRaw(outcome) == outcome

\* A resumed execution that got edits counts as approved.
StatusFor(outcome) ==
    CASE outcome \in {"approved", "revise"} -> "approved"
      [] outcome = "cancelled"              -> "rejected"
      [] outcome = "expired"                -> "expired"

\* checkpoints.updateStatus: an unconditional UPDATE by id.
Mark(m) ==
    /\ reply[m].pc = "mark"
    /\ cp' = [cp EXCEPT ![reply[m].cp].status = StatusFor(reply[m].outcome)]
    /\ SetReply(m, "ack")
    /\ UNCHANGED <<clock, horizon, acted, told>>

MarkThrows(m) ==
    /\ reply[m].pc = "mark"
    /\ SetReply(m, "over")
    /\ UNCHANGED <<cp, clock, horizon, acted, told>>

\* sendWhatsapp
Ack(m) ==
    /\ reply[m].pc = "ack"
    /\ told' = told \cup {<<reply[m].cp, reply[m].outcome>>}
    /\ SetReply(m, "over")
    /\ UNCHANGED <<cp, clock, horizon, acted>>

AckThrows(m) ==
    /\ reply[m].pc = "ack"
    /\ SetReply(m, "over")
    /\ UNCHANGED <<cp, clock, horizon, acted, told>>

Handler(m) ==
    Find(m) \/ Act(m) \/ ActThrows(m) \/ Mark(m) \/ MarkThrows(m) \/ Ack(m) \/ AckThrows(m)

Next ==
    \/ \E c \in Checkpoints : Open(c) \/ Persist(c) \/ PersistFails(c)
    \/ \E m \in Replies : Send(m) \/ Handler(m)
    \/ Age

Spec == Init /\ [][Next]_vars

-----------------------------------------------------------------------------
(***************************************************************************)
(* What must hold.                                                         *)
(***************************************************************************)

Done(c) == \E m \in Replies : acted[m][c] > 0

\* The approval is the authorization: a reply carries out at most one action, once,
\* of a checkpoint of its sender, and a deploy or a publication only if it says YES.
OneActionPerYes ==
    \A m \in Replies, c \in Checkpoints : acted[m][c] > 0 =>
        /\ acted[m][c] = 1
        /\ cp[c].approver = reply[m].from
        /\ cp[c].kind # "n8n" => reply[m].decision = "approve"
        /\ \A d \in Checkpoints : acted[m][d] > 0 => d = c

\* The approver said YES to a publication, it was sent, and every platform failed.
Unpublished(c) ==
    cp[c].kind = "publish" /\ \E m \in Replies :
        reply[m].cp = c /\ reply[m].unpublished /\ reply[m].decision = "approve"

\* A checkpoint is never recorded, nor its approver told, as approved when its action was
\* not carried out, however handlers cross and calls throw; but for a publication that was
\* sent on the approver's YES and that no platform took.
ApprovedIsDoneOrUnpublished ==
    \A c \in Checkpoints : cp[c].status = "approved" \/ <<c, "approved">> \in told =>
        Done(c) \/ Unpublished(c)

\* Once the approver has been told how a checkpoint ended, nothing sent later
\* touches it.
ToldIsFinal == \A m \in Replies : reply[m].cp \notin reply[m].known

=============================================================================
