-------------------------- MODULE CheckpointProofs --------------------------
(***************************************************************************)
(* Proofs about Checkpoint: what a reply carries out, what is recorded and  *)
(* told of it, for any number of checkpoints, approvers and replies.       *)
(***************************************************************************)
EXTENDS Checkpoint, TLAPS

-----------------------------------------------------------------------------
(***************************************************************************)
(* The inductive invariant.                                                *)
(***************************************************************************)

IsSettled(c) == cp[c].status \in Settled

\* A reply has a checkpoint only when its handler has found one: of its sender.
Found(m) ==
    /\ reply[m].pc \in {"unsent", "received"} => reply[m].cp = NoCheckpoint /\ ~reply[m].unpublished
    /\ reply[m].cp \in Checkpoints =>
           /\ cp[reply[m].cp].status = "awaiting" \/ IsSettled(reply[m].cp)
           /\ cp[reply[m].cp].approver = reply[m].from

\* What the sender may have carried out.
Allowed(m) == cp[reply[m].cp].kind = "n8n" \/ reply[m].decision = "approve"

\* An action has been carried out once and for the reply's checkpoint, and not before
\* the call to carry it out.
Carried(m) ==
    /\ reply[m].pc = "act" => Allowed(m)
    /\ \A c \in Checkpoints : acted[m][c] > 0 =>
           /\ acted[m][c] = 1
           /\ reply[m].cp = c
           /\ reply[m].pc \in {"mark", "ack", "over"}
           /\ Allowed(m)

\* What returns without having been carried out is a publication, approved by its sender.
Returned(m) ==
    reply[m].unpublished =>
        /\ reply[m].cp \in Checkpoints /\ cp[reply[m].cp].kind = "publish"
        /\ reply[m].decision = "approve"

\* What a handler is about to record or tell as approved has been carried out, or has
\* returned without; what it is about to tell has been recorded.
Recording(m) ==
    /\ reply[m].pc \in {"mark", "ack"} /\ reply[m].outcome \in {"approved", "revise"} =>
           acted[m][reply[m].cp] > 0 \/ reply[m].unpublished
    /\ reply[m].pc = "ack" => IsSettled(reply[m].cp)

\* The sender knows only of checkpoints that nobody awaits any more.
Knowing(m) ==
    /\ \A c \in reply[m].known : c \in Checkpoints /\ IsSettled(c)
    /\ reply[m].cp \notin reply[m].known

ReplyInv(m) == Found(m) /\ Carried(m) /\ Returned(m) /\ Recording(m) /\ Knowing(m)

Answered(c) == Done(c) \/ Unpublished(c)

RecordInv == \A c \in Checkpoints : cp[c].status = "approved" => Answered(c)

ToldInv == \A c \in Checkpoints, o \in Outcomes : <<c, o>> \in told =>
               /\ IsSettled(c)
               /\ o = "approved" => Answered(c)

IInv == TypeOK /\ (\A m \in Replies : ReplyInv(m)) /\ RecordInv /\ ToldInv

-----------------------------------------------------------------------------
(***************************************************************************)
(* Types.                                                                  *)
(***************************************************************************)

\* What TypeOK says of a reply besides the type of its record.
ReplyShape(r) ==
    /\ r.pc \in {"act", "mark", "ack"} => r.cp \in Checkpoints
    /\ r.pc # "unsent" => r.from \in Approvers

RepliesOK == reply \in [Replies -> ReplyState] /\ \A m \in Replies : ReplyShape(reply[m])

\* A reply that is written anew with its type leaves the others theirs.
LEMMA ReplyWritten ==
    ASSUME RepliesOK, NEW m \in Replies, NEW r \in ReplyState, ReplyShape(r),
           reply' = [reply EXCEPT ![m] = r]
    PROVE  RepliesOK'
BY DEF RepliesOK, ReplyShape

\* A handler that only moves on keeps the types.
LEMMA ReplyMoved ==
    ASSUME RepliesOK, NEW m \in Replies, reply[m].pc # "unsent", NEW pc \in {"mark", "ack", "over"},
           SetReply(m, pc), pc = "over" \/ reply[m].cp \in Checkpoints
    PROVE  RepliesOK'
<1> DEFINE r == [reply[m] EXCEPT !.pc = pc]
<1>1. reply[m] \in ReplyState /\ ReplyShape(reply[m])
  BY DEF RepliesOK
<1>2. r \in ReplyState
  BY <1>1 DEF ReplyState
<1>3. ReplyShape(r)
  BY <1>1 DEF ReplyShape, ReplyState
<1>4. reply' = [reply EXCEPT ![m] = r]
  BY DEF SetReply
<1> QED
  BY <1>2, <1>3, <1>4, ReplyWritten

LEMMA TypeInitially == Init => TypeOK
BY DEF Init, TypeOK, Unopened, Unsent, CheckpointState, ReplyState, Kinds, Decisions, Outcomes

LEMMA TypeStep == TypeOK /\ [Next]_vars => TypeOK'
<1> SUFFICES ASSUME TypeOK, [Next]_vars PROVE TypeOK'
  OBVIOUS
<1>0. RepliesOK /\ \A m \in Replies : reply[m] \in ReplyState
  BY DEF TypeOK, RepliesOK, ReplyShape
<1>1. ASSUME NEW k \in Checkpoints, Open(k) PROVE TypeOK'
  BY <1>1 DEF Open, CheckpointState, TypeOK
<1>2. ASSUME NEW k \in Checkpoints, Persist(k) PROVE TypeOK'
  BY <1>2 DEF Persist, CheckpointState, TypeOK
<1>3. ASSUME NEW k \in Checkpoints, PersistFails(k) PROVE TypeOK'
  BY <1>3 DEF PersistFails, CheckpointState, TypeOK
<1>4. ASSUME NEW m \in Replies, Send(m) PROVE TypeOK'
  <2>1. PICK a \in Approvers, d \in Decisions :
          reply' = [reply EXCEPT ![m] =
             [Unsent EXCEPT !.pc = "received", !.from = a, !.decision = d,
                            !.known = {c \in Checkpoints : \E o \in Outcomes : <<c, o>> \in told}]]
    BY <1>4 DEF Send
  <2> DEFINE r == [Unsent EXCEPT !.pc = "received", !.from = a, !.decision = d,
                            !.known = {c \in Checkpoints : \E o \in Outcomes : <<c, o>> \in told}]
  <2>2. r \in ReplyState /\ ReplyShape(r)
    BY DEF Unsent, ReplyState, ReplyShape, Outcomes
  <2>3. RepliesOK'
    BY <1>0, <2>1, <2>2, ReplyWritten
  <2> QED
    BY <1>4, <2>3 DEF Send, TypeOK, RepliesOK, ReplyShape
<1>5. ASSUME NEW m \in Replies, Find(m) PROVE TypeOK'
  <2>1. reply[m].pc = "received" /\ reply[m] \in ReplyState /\ ReplyShape(reply[m])
    BY <1>0, <1>5 DEF Find, RepliesOK
  <2>2. CASE SetReply(m, "over")
    <3>1. RepliesOK'
      BY <1>0, <2>1, <2>2, ReplyMoved
    <3> QED
      BY <1>5, <3>1 DEF Find, TypeOK, RepliesOK, ReplyShape
  <2>3. ASSUME NEW c \in LatestAwaiting(reply[m].from), NEW outcome, NEW pc \in {"act", "mark"},
               outcome = OutcomeOf(c, reply[m].decision),
               reply' = [reply EXCEPT ![m].cp = c, ![m].outcome = outcome, ![m].pc = pc]
        PROVE  RepliesOK'
    <3> DEFINE r == [reply[m] EXCEPT !.cp = c, !.outcome = outcome, !.pc = pc]
    <3>1. c \in Checkpoints /\ outcome \in Outcomes
      BY <2>3 DEF LatestAwaiting, Awaiting, OutcomeOf, Outcomes
    <3>2. r \in ReplyState /\ ReplyShape(r)
      BY <2>1, <3>1 DEF ReplyState, ReplyShape
    <3>3. reply' = [reply EXCEPT ![m] = r]
      BY <2>3
    <3> QED
      BY <1>0, <3>2, <3>3, ReplyWritten
  <2>4. CASE ~SetReply(m, "over")
    <3>1. RepliesOK'
      BY <1>5, <2>3, <2>4 DEF Find
    <3> QED
      BY <1>5, <3>1 DEF Find, TypeOK, RepliesOK, ReplyShape
  <2> QED
    BY <2>2, <2>4
<1>6. ASSUME NEW m \in Replies, reply[m].pc = "act", reply[m].cp \in Checkpoints,
             acted' \in {acted, [acted EXCEPT ![m][reply[m].cp] = @ + 1]}
      PROVE  acted' \in [Replies -> [Checkpoints -> Nat]]
  BY <1>6 DEF TypeOK
<1>7. ASSUME NEW m \in Replies, reply[m].pc \in {"act", "mark", "ack"}
      PROVE  /\ reply[m].cp \in Checkpoints /\ reply[m].pc # "unsent"
             /\ reply[m].outcome \in Outcomes
  BY <1>0, <1>7 DEF TypeOK, ReplyState
<1>8. ASSUME NEW m \in Replies, Act(m) PROVE TypeOK'
  <2>1. RepliesOK'
    <3>1. CASE SetReply(m, "mark")
      BY <1>0, <1>7, <1>8, <3>1, ReplyMoved DEF Act
    <3>2. CASE reply' = [reply EXCEPT ![m].pc = "mark", ![m].unpublished = TRUE]
      <4> DEFINE r == [reply[m] EXCEPT !.pc = "mark", !.unpublished = TRUE]
      <4>1. reply[m] \in ReplyState /\ ReplyShape(reply[m]) /\ reply[m].cp \in Checkpoints
            /\ reply[m].pc # "unsent"
        BY <1>0, <1>7, <1>8 DEF Act, RepliesOK
      <4>2. r \in ReplyState /\ ReplyShape(r)
        BY <4>1 DEF ReplyState, ReplyShape
      <4>3. reply' = [reply EXCEPT ![m] = r]
        BY <3>2
      <4> QED
        BY <1>0, <4>2, <4>3, ReplyWritten
    <3> QED
      BY <1>8, <3>1, <3>2 DEF Act
  <2>2. acted' \in [Replies -> [Checkpoints -> Nat]]
    BY <1>6, <1>7, <1>8 DEF Act
  <2> QED
    BY <1>8, <2>1, <2>2 DEF Act, TypeOK, RepliesOK, ReplyShape
<1>9. ASSUME NEW m \in Replies, ActThrows(m) PROVE TypeOK'
  <2>1. RepliesOK'
    BY <1>0, <1>7, <1>9, ReplyMoved DEF ActThrows
  <2>2. acted' \in [Replies -> [Checkpoints -> Nat]]
    BY <1>6, <1>7, <1>9 DEF ActThrows
  <2> QED
    BY <1>9, <2>1, <2>2 DEF ActThrows, TypeOK, RepliesOK, ReplyShape
<1>10. ASSUME NEW m \in Replies, Mark(m) PROVE TypeOK'
  <2>1. RepliesOK'
    BY <1>0, <1>7, <1>10, ReplyMoved DEF Mark
  <2>2. StatusFor(reply[m].outcome) \in Settled
    BY <1>7, <1>10 DEF Mark, StatusFor, Outcomes, Settled
  <2>3. cp' \in [Checkpoints -> CheckpointState]
    BY <1>10, <2>2 DEF Mark, TypeOK, CheckpointState
  <2> QED
    BY <1>10, <2>1, <2>3 DEF Mark, TypeOK, RepliesOK, ReplyShape
<1>11. ASSUME NEW m \in Replies, MarkThrows(m) \/ AckThrows(m) PROVE TypeOK'
  <2>1. RepliesOK'
    BY <1>0, <1>7, <1>11, ReplyMoved DEF MarkThrows, AckThrows
  <2> QED
    BY <1>11, <2>1 DEF MarkThrows, AckThrows, TypeOK, RepliesOK, ReplyShape
<1>12. ASSUME NEW m \in Replies, Ack(m) PROVE TypeOK'
  <2>1. RepliesOK'
    BY <1>0, <1>7, <1>12, ReplyMoved DEF Ack
  <2>2. told' \subseteq Checkpoints \X Outcomes
    BY <1>7, <1>12 DEF Ack, TypeOK
  <2> QED
    BY <1>12, <2>1, <2>2 DEF Ack, TypeOK, RepliesOK, ReplyShape
<1>13. CASE Age
  BY <1>13 DEF Age, TypeOK
<1>14. CASE UNCHANGED vars
  BY <1>14 DEF vars, TypeOK
<1> QED
  BY <1>1, <1>2, <1>3, <1>4, <1>5, <1>8, <1>9, <1>10, <1>11, <1>12, <1>13, <1>14
  DEF Next, Handler

\* TypeOK of Checkpoint, for any number of checkpoints, approvers and replies.
THEOREM TypeCorrect == Spec => []TypeOK
BY TypeInitially, TypeStep, PTL DEF Spec

-----------------------------------------------------------------------------
(***************************************************************************)
(* The step.                                                               *)
(***************************************************************************)

\* What no step takes back: a settled checkpoint stays settled, an opened one keeps its
\* kind and approver, and what was carried out, or returned without, stays so.
Onward ==
    /\ \A c \in Checkpoints : IsSettled(c) => IsSettled(c)'
    /\ \A c \in Checkpoints : cp[c].status = "awaiting" \/ IsSettled(c) =>
           /\ cp'[c].status = "awaiting" \/ IsSettled(c)'
           /\ cp'[c].approver = cp[c].approver /\ cp'[c].kind = cp[c].kind
    /\ \A m \in Replies, c \in Checkpoints : acted[m][c] > 0 => acted'[m][c] > 0
    /\ \A m \in Replies : reply[m].unpublished =>
           reply'[m].unpublished /\ reply'[m].cp = reply[m].cp /\ reply'[m].decision = reply[m].decision

\* Where no row and no count changes, that is clear.
LEMMA OnwardAnyway ==
    ASSUME cp' = cp, acted' = acted,
           \A m \in Replies : reply[m].unpublished =>
               reply'[m].unpublished /\ reply'[m].cp = reply[m].cp /\ reply'[m].decision = reply[m].decision
    PROVE  Onward
BY DEF Onward, IsSettled

\* A step that goes onward and is not about a reply preserves what is said of it.
LEMMA Bystander ==
    ASSUME IInv, Onward, NEW m \in Replies, reply'[m] = reply[m], acted'[m] = acted[m]
    PROVE  ReplyInv(m)'
<1>1. ReplyInv(m)
  BY DEF IInv
<1>2. Found(m)'
  BY <1>1 DEF ReplyInv, Found, Onward, IsSettled
<1>3. reply[m].pc \in {"act", "mark", "ack"} => reply[m].cp \in Checkpoints
  BY DEF IInv, TypeOK
<1>4. reply[m].cp \in Checkpoints => (Allowed(m) => Allowed(m)')
  BY <1>1 DEF ReplyInv, Found, Onward, Allowed
<1>5. Carried(m)'
  BY <1>1, <1>3, <1>4 DEF ReplyInv, Carried
<1>6. Recording(m)'
  BY <1>1, <1>3 DEF ReplyInv, Recording, Onward, IsSettled
<1>7. Knowing(m)'
  BY <1>1 DEF ReplyInv, Knowing, Onward, IsSettled
<1>8. Returned(m)'
  BY <1>1 DEF ReplyInv, Found, Returned, Onward
<1> QED
  BY <1>2, <1>5, <1>6, <1>7, <1>8 DEF ReplyInv

\* What is recorded as approved, and told, stays true where the records stay.
LEMMA RecordsKept ==
    ASSUME IInv, Onward,
           \A c \in Checkpoints : cp'[c].status = "approved" => cp[c].status = "approved"
    PROVE  RecordInv' /\ (told' = told => ToldInv')
<1>1. ASSUME NEW c \in Checkpoints, Answered(c) PROVE Answered(c)'
  <2>1. Done(c) => Done(c)'
    BY DEF Done, Onward
  <2>2. ASSUME Unpublished(c) PROVE Unpublished(c)'
    <3>1. PICK m \in Replies : /\ reply[m].cp = c /\ reply[m].unpublished
                               /\ reply[m].decision = "approve" /\ cp[c].kind = "publish"
      BY <2>2 DEF Unpublished
    <3>2. cp'[c].kind = cp[c].kind
      BY <3>1 DEF IInv, ReplyInv, Found, Onward
    <3> QED
      BY <3>1, <3>2 DEF Unpublished, Onward
  <2> QED
    BY <1>1, <2>1, <2>2 DEF Answered
<1>2. RecordInv'
  BY <1>1 DEF IInv, RecordInv
<1>3. ASSUME told' = told PROVE ToldInv'
  BY <1>1, <1>3 DEF IInv, ToldInv, Onward
<1> QED
  BY <1>2, <1>3

LEMMA IInvInitially == Init => IInv
<1> SUFFICES ASSUME Init PROVE IInv
  OBVIOUS
<1>1. ASSUME NEW m \in Replies PROVE ReplyInv(m)
  BY NoCheckpointAssumption DEF Init, Unsent, ReplyInv, Found, Carried, Returned, Recording, Knowing
<1>2. RecordInv /\ ToldInv
  BY DEF Init, Unopened, RecordInv, ToldInv
<1> QED
  BY <1>1, <1>2, TypeInitially DEF IInv

LEMMA IInvStep == IInv /\ [Next]_vars => IInv'
<1> SUFFICES ASSUME IInv, [Next]_vars PROVE IInv'
  OBVIOUS
<1>1. TypeOK /\ TypeOK'
  BY TypeStep DEF IInv
<1>2. \A m \in Replies : ReplyInv(m)
  BY DEF IInv
<1>3. ASSUME Onward, reply' = reply, acted' = acted, told' = told,
             \A c \in Checkpoints : cp'[c].status = "approved" => cp[c].status = "approved"
      PROVE  IInv'
  BY <1>1, <1>3, Bystander, RecordsKept DEF IInv
<1>4. ASSUME NEW m \in Replies, Onward, ReplyInv(m)', told' = told,
             \A n \in Replies : n # m => reply'[n] = reply[n] /\ acted'[n] = acted[n],
             \A c \in Checkpoints : cp'[c].status = "approved" => cp[c].status = "approved"
      PROVE  IInv'
  BY <1>1, <1>4, Bystander, RecordsKept DEF IInv
<1>5. ASSUME NEW k \in Checkpoints, Open(k) PROVE IInv'
  <2>1. Onward
    BY <1>5, <1>1 DEF Open, Onward, IsSettled, Settled, TypeOK
  <2>2. \A c \in Checkpoints : cp'[c].status = "approved" => cp[c].status = "approved"
    BY <1>5, <1>1 DEF Open, TypeOK
  <2> QED
    BY <1>5, <1>3, <2>1, <2>2 DEF Open
<1>6. ASSUME NEW k \in Checkpoints, Persist(k) \/ PersistFails(k) PROVE IInv'
  <2>1. Onward
    BY <1>6, <1>1 DEF Persist, PersistFails, Onward, IsSettled, Settled, TypeOK, CheckpointState
  <2>2. \A c \in Checkpoints : cp'[c].status = "approved" => cp[c].status = "approved"
    BY <1>6, <1>1 DEF Persist, PersistFails, TypeOK, CheckpointState
  <2> QED
    BY <1>6, <1>3, <2>1, <2>2 DEF Persist, PersistFails
<1>7. ASSUME NEW m \in Replies, cp' = cp, acted' = acted, told' = told, ReplyInv(m)',
             \A n \in Replies : n # m => reply'[n] = reply[n],
             reply[m].unpublished =>
                 reply'[m].unpublished /\ reply'[m].cp = reply[m].cp /\ reply'[m].decision = reply[m].decision
      PROVE  IInv'
  BY <1>4, <1>7, OnwardAnyway
<1>8. ASSUME NEW m \in Replies, Send(m) PROVE IInv'
  <2>1. /\ reply'[m].pc = "received" /\ reply'[m].cp = NoCheckpoint
        /\ ~reply'[m].unpublished /\ ~reply[m].unpublished
        /\ reply'[m].known = {c \in Checkpoints : \E o \in Outcomes : <<c, o>> \in told}
        /\ cp' = cp /\ acted' = acted /\ told' = told
        /\ \A n \in Replies : n # m => reply'[n] = reply[n]
    BY <1>8, <1>1, <1>2 DEF Send, Unsent, TypeOK, ReplyInv, Found
  <2>2. Knowing(m)'
    BY <2>1, NoCheckpointAssumption DEF Knowing, IInv, ToldInv, IsSettled
  <2>3. \A c \in Checkpoints : ~(acted[m][c] > 0)
    BY <1>8, <1>2 DEF Send, ReplyInv, Carried
  <2>4. Found(m)' /\ Carried(m)' /\ Returned(m)' /\ Recording(m)'
    BY <2>1, <2>3, NoCheckpointAssumption DEF Found, Carried, Returned, Recording
  <2> QED
    BY <2>1, <2>2, <2>4, <1>7 DEF ReplyInv
<1>9. ASSUME NEW m \in Replies, Find(m) PROVE IInv'
  <2>1. /\ cp' = cp /\ acted' = acted /\ told' = told
        /\ \A n \in Replies : n # m => reply'[n] = reply[n]
        /\ reply[m].pc = "received" /\ reply[m].cp = NoCheckpoint /\ ~reply[m].unpublished
    BY <1>9, <1>1, <1>2 DEF Find, SetReply, ReplyInv, Found, TypeOK
  <2>2. \A c \in Checkpoints : ~(acted[m][c] > 0)
    BY <1>2, <2>1 DEF ReplyInv, Carried
  <2>3. CASE SetReply(m, "over")
    <3>1. /\ reply'[m].pc = "over" /\ reply'[m].cp = NoCheckpoint
          /\ reply'[m].known = reply[m].known /\ ~reply'[m].unpublished
      BY <2>1, <2>3, <1>1 DEF SetReply, TypeOK
    <3>2. Found(m)' /\ Carried(m)' /\ Returned(m)' /\ Recording(m)'
      BY <2>1, <2>2, <3>1, NoCheckpointAssumption DEF Found, Carried, Returned, Recording
    <3>3. Knowing(m)'
      BY <2>1, <3>1, <1>2 DEF Knowing, ReplyInv, IsSettled
    <3> QED
      BY <2>1, <3>2, <3>3, <1>7 DEF ReplyInv
  <2>4. ASSUME NEW c \in LatestAwaiting(reply[m].from), NEW outcome, NEW pc,
               outcome = OutcomeOf(c, reply[m].decision),
               pc = IF ActsOn(c, outcome) THEN "act" ELSE "mark",
               reply' = [reply EXCEPT ![m].cp = c, ![m].outcome = outcome, ![m].pc = pc]
        PROVE  ReplyInv(m)'
    <3>1. /\ c \in Checkpoints /\ cp[c].status = "awaiting" /\ cp[c].approver = reply[m].from
      BY <2>4 DEF LatestAwaiting, Awaiting
    <3>2. /\ reply'[m].pc = pc /\ reply'[m].cp = c /\ reply'[m].outcome = outcome
          /\ reply'[m].known = reply[m].known /\ reply'[m].from = reply[m].from
          /\ reply'[m].decision = reply[m].decision /\ ~reply'[m].unpublished
      BY <2>1, <2>4, <1>1 DEF TypeOK, ReplyState
    <3>3. Found(m)'
      BY <2>1, <2>4, <3>1, <3>2 DEF Found
    <3>4. pc = "act" => cp[c].kind = "n8n" \/ reply[m].decision = "approve"
      BY <2>4 DEF ActsOn, OutcomeOf
    <3>5. Carried(m)'
      BY <2>1, <2>2, <3>2, <3>4 DEF Carried, Allowed
    <3>6. pc = "mark" => outcome \notin {"approved", "revise"}
      BY <2>4 DEF ActsOn, OutcomeOf
    <3>7. Recording(m)'
      BY <3>2, <3>6, <2>4 DEF Recording
    <3>8. Knowing(m)' /\ Returned(m)'
      BY <1>2, <2>1, <3>1, <3>2 DEF Knowing, Returned, ReplyInv, IsSettled, Settled
    <3> QED
      BY <3>3, <3>5, <3>7, <3>8 DEF ReplyInv
  <2>5. CASE ~SetReply(m, "over")
    <3>1. ReplyInv(m)'
      BY <1>9, <2>4, <2>5 DEF Find
    <3> QED
      BY <2>1, <3>1, <1>7
  <2> QED
    BY <2>3, <2>5
<1>10. ASSUME NEW m \in Replies, NEW pc, SetReply(m, pc)
       PROVE  /\ reply'[m].pc = pc /\ reply'[m].cp = reply[m].cp
              /\ reply'[m].outcome = reply[m].outcome /\ reply'[m].known = reply[m].known
              /\ reply'[m].from = reply[m].from /\ reply'[m].decision = reply[m].decision
              /\ reply'[m].unpublished = reply[m].unpublished
              /\ \A n \in Replies : n # m => reply'[n] = reply[n]
  BY <1>10, <1>1 DEF SetReply, TypeOK, ReplyState
<1>11. ASSUME NEW m \in Replies, reply[m].pc = "act", NEW pc \in {"mark", "over"},
              SetReply(m, pc), cp' = cp, told' = told,
              \/ acted' = [acted EXCEPT ![m][reply[m].cp] = @ + 1]
              \/ acted' = acted /\ pc = "over"
       PROVE  IInv'
  <2> DEFINE k == reply[m].cp
  <2>1. k \in Checkpoints /\ ReplyInv(m)
    BY <1>11, <1>1, <1>2 DEF TypeOK
  <2>2. \A c \in Checkpoints : acted[m][c] = 0
    BY <1>11, <1>1, <2>1 DEF ReplyInv, Carried, TypeOK
  <2>3. /\ \A n \in Replies : n # m => acted'[n] = acted[n]
        /\ \A c \in Checkpoints : c # k => acted'[m][c] = 0
        /\ acted'[m][k] = 1 \/ (acted'[m][k] = 0 /\ pc = "over")
    <3>1. CASE acted' = [acted EXCEPT ![m][k] = @ + 1]
      <4>1. /\ \A n \in Replies : n # m => acted'[n] = acted[n]
            /\ acted'[m] = [acted[m] EXCEPT ![k] = @ + 1]
        BY <3>1, <1>1 DEF TypeOK
      <4>2. acted[m] \in [Checkpoints -> Nat]
        BY <1>1 DEF TypeOK
      <4> QED
        BY <4>1, <4>2, <2>1, <2>2
    <3>2. CASE acted' = acted /\ pc = "over"
      BY <3>2, <2>1, <2>2
    <3> QED
      BY <1>11, <3>1, <3>2
  <2>4. Onward
    BY <1>10, <1>11, <2>2, <2>3 DEF Onward, IsSettled
  <2>5. Found(m)' /\ Knowing(m)' /\ Returned(m)'
    BY <1>10, <1>11, <2>1 DEF ReplyInv, Found, Knowing, Returned, IsSettled
  <2>6. Carried(m)'
    BY <1>10, <1>11, <2>1, <2>3 DEF ReplyInv, Carried, Allowed
  <2>7. Recording(m)'
    BY <1>10, <1>11, <2>3 DEF Recording
  <2> QED
    BY <1>4, <1>10, <1>11, <2>3, <2>4, <2>5, <2>6, <2>7 DEF ReplyInv
<1>12. ASSUME NEW m \in Replies, Act(m) \/ ActThrows(m) PROVE IInv'
  <2> DEFINE Swallowed == /\ cp[reply[m].cp].kind = "publish" /\ acted' = acted
                          /\ reply' = [reply EXCEPT ![m].pc = "mark", ![m].unpublished = TRUE]
  <2>1. CASE Swallowed
    <3>1. /\ reply[m].pc = "act" /\ cp' = cp /\ acted' = acted /\ told' = told
          /\ reply[m].cp \in Checkpoints /\ ReplyInv(m)
      BY <1>1, <1>2, <1>12, <2>1 DEF Act, ActThrows, TypeOK
    <3>2. /\ reply'[m].pc = "mark" /\ reply'[m].unpublished /\ reply'[m].cp = reply[m].cp
          /\ reply'[m].known = reply[m].known /\ reply'[m].from = reply[m].from
          /\ reply'[m].decision = reply[m].decision
          /\ \A n \in Replies : n # m => reply'[n] = reply[n]
      BY <2>1, <1>1 DEF TypeOK, ReplyState
    <3>3. Found(m)' /\ Knowing(m)' /\ Recording(m)'
      BY <3>1, <3>2 DEF ReplyInv, Found, Knowing, Recording, IsSettled
    <3>4. Returned(m)'
      BY <2>1, <3>1, <3>2 DEF ReplyInv, Carried, Allowed, Returned
    <3>5. Carried(m)'
      BY <3>1, <3>2 DEF ReplyInv, Carried, Allowed
    <3> QED
      BY <1>7, <3>1, <3>2, <3>3, <3>4, <3>5 DEF ReplyInv
  <2>2. CASE ~Swallowed
    BY <1>11, <1>12, <2>2 DEF Act, ActThrows
  <2> QED
    BY <2>1, <2>2
<1>13. ASSUME NEW m \in Replies, reply[m].pc \in {"mark", "ack"}, SetReply(m, "over"),
              cp' = cp, acted' = acted
       PROVE  /\ ReplyInv(m)'
              /\ told' = told => IInv'
  <2>1. ReplyInv(m)
    BY <1>2
  <2>2. Found(m)' /\ Knowing(m)' /\ Returned(m)'
    BY <1>10, <1>13, <2>1 DEF ReplyInv, Found, Knowing, Returned, IsSettled
  <2>3. Carried(m)'
    BY <1>10, <1>13, <2>1 DEF ReplyInv, Carried, Allowed
  <2>4. Recording(m)'
    BY <1>10, <1>13 DEF Recording
  <2> QED
    BY <1>7, <1>10, <1>13, <2>2, <2>3, <2>4 DEF ReplyInv
<1>14. ASSUME NEW m \in Replies, MarkThrows(m) \/ AckThrows(m) PROVE IInv'
  BY <1>13, <1>14 DEF MarkThrows, AckThrows
<1>15. ASSUME NEW m \in Replies, Mark(m) PROVE IInv'
  <2> DEFINE k == reply[m].cp
             status == StatusFor(reply[m].outcome)
  <2>1. k \in Checkpoints /\ ReplyInv(m) /\ reply[m].outcome \in Outcomes
    BY <1>15, <1>1, <1>2 DEF Mark, TypeOK, ReplyState
  <2>2. /\ status \in Settled
        /\ status = "approved" => reply[m].outcome \in {"approved", "revise"}
    BY <2>1 DEF StatusFor, Outcomes, Settled
  <2>3. /\ cp'[k].status = status /\ cp'[k].kind = cp[k].kind
        /\ cp'[k].approver = cp[k].approver
        /\ \A c \in Checkpoints : c # k => cp'[c] = cp[c]
        /\ acted' = acted /\ told' = told /\ reply[m].pc = "mark" /\ SetReply(m, "ack")
    BY <1>15, <1>1, <2>1 DEF Mark, TypeOK, CheckpointState
  <2>4. Onward
    BY <1>10, <2>1, <2>2, <2>3 DEF Onward, IsSettled
  <2>5. Found(m)' /\ Returned(m)'
    BY <1>10, <2>1, <2>2, <2>3 DEF ReplyInv, Found, Returned, IsSettled
  <2>6. Carried(m)'
    BY <1>10, <2>1, <2>3 DEF ReplyInv, Carried, Allowed
  <2>7. Recording(m)'
    BY <1>10, <2>1, <2>2, <2>3 DEF ReplyInv, Recording, IsSettled
  <2>8. Knowing(m)'
    BY <1>10, <2>1, <2>3, <2>4 DEF ReplyInv, Knowing, Onward
  <2>9. ASSUME NEW n \in Replies PROVE ReplyInv(n)'
    BY <1>10, <2>3, <2>4, <2>5, <2>6, <2>7, <2>8, Bystander DEF ReplyInv
  <2>10. ASSUME NEW c \in Checkpoints, Answered(c) PROVE Answered(c)'
    <3>1. \A n \in Replies : reply'[n].cp = reply[n].cp /\ reply'[n].decision = reply[n].decision
                              /\ reply'[n].unpublished = reply[n].unpublished
      BY <1>10, <2>3
    <3>2. Unpublished(c) => Unpublished(c)'
      BY <2>3, <3>1 DEF Unpublished
    <3> QED
      BY <2>3, <2>10, <3>2 DEF Answered, Done
  <2>11. status = "approved" => Answered(k)
    BY <2>1, <2>2, <2>3 DEF ReplyInv, Recording, Returned, Answered, Done, Unpublished
  <2>12. RecordInv'
    BY <2>3, <2>10, <2>11 DEF IInv, RecordInv
  <2>13. ToldInv'
    BY <2>3, <2>4, <2>10 DEF IInv, ToldInv, Onward
  <2> QED
    BY <1>1, <2>9, <2>12, <2>13 DEF IInv
<1>16. ASSUME NEW m \in Replies, Ack(m) PROVE IInv'
  <2>1. /\ reply[m].pc = "ack" /\ SetReply(m, "over") /\ cp' = cp /\ acted' = acted
        /\ told' = told \cup {<<reply[m].cp, reply[m].outcome>>}
        /\ reply[m].cp \in Checkpoints
    BY <1>16, <1>1 DEF Ack, TypeOK
  <2>2. ReplyInv(m)'
    BY <1>13, <2>1
  <2>3. \A n \in Replies : reply'[n].cp = reply[n].cp /\ reply'[n].decision = reply[n].decision
                            /\ reply'[n].unpublished = reply[n].unpublished
    BY <1>10, <2>1
  <2>4. /\ Onward
        /\ \A n \in Replies : n # m => reply'[n] = reply[n] /\ acted'[n] = acted[n]
    BY <1>10, <2>1, <2>3, OnwardAnyway
  <2>5. ASSUME NEW n \in Replies PROVE ReplyInv(n)'
    BY <2>2, <2>4, Bystander
  <2>6. RecordInv'
    BY <2>1, <2>4, RecordsKept
  <2>7. /\ IsSettled(reply[m].cp)
        /\ reply[m].outcome = "approved" => Answered(reply[m].cp)
    BY <1>2, <2>1 DEF ReplyInv, Recording, Returned, Answered, Done, Unpublished
  <2>8. ToldInv'
    <3>1. ASSUME NEW c \in Checkpoints, Answered(c) PROVE Answered(c)'
      BY <2>1, <2>3, <3>1 DEF Answered, Done, Unpublished
    <3> QED
      BY <2>1, <2>7, <3>1 DEF IInv, ToldInv, IsSettled
  <2> QED
    BY <1>1, <2>5, <2>6, <2>8 DEF IInv
<1>17. CASE Age
  BY <1>3, <1>17, OnwardAnyway DEF Age
<1>18. CASE UNCHANGED vars
  BY <1>3, <1>18, OnwardAnyway DEF vars
<1> QED
  BY <1>5, <1>6, <1>8, <1>9, <1>12, <1>14, <1>15, <1>16, <1>17, <1>18 DEF Next, Handler

LEMMA IInvAlways == Spec => []IInv
BY IInvInitially, IInvStep, PTL DEF Spec

\* OneActionPerYes: handleInboundReply carries out at most one action for a message, of
\* its sender's checkpoint, and a deploy or a publication only on "approve".
THEOREM ActionPerYes == Spec => []OneActionPerYes
<1>1. IInv => OneActionPerYes
  <2> SUFFICES ASSUME IInv, NEW m \in Replies, NEW c \in Checkpoints, acted[m][c] > 0
               PROVE  /\ acted[m][c] = 1
                      /\ cp[c].approver = reply[m].from
                      /\ cp[c].kind # "n8n" => reply[m].decision = "approve"
                      /\ \A d \in Checkpoints : acted[m][d] > 0 => d = c
    BY DEF OneActionPerYes
  <2> QED
    BY DEF IInv, ReplyInv, Carried, Found, Allowed
<1> QED
  BY IInvAlways, <1>1, PTL

\* ApprovedIsDoneOrUnpublished: an approval recorded in hitl_checkpoints, or told over
\* WhatsApp, was carried out by some handler, unless it is of a publication that every
\* platform failed and publish returned from all the same.
THEOREM ApprovalAnswered == Spec => []ApprovedIsDoneOrUnpublished
<1>1. IInv => ApprovedIsDoneOrUnpublished
  BY DEF IInv, RecordInv, ToldInv, Outcomes, Answered, ApprovedIsDoneOrUnpublished
<1> QED
  BY IInvAlways, <1>1, PTL

\* ToldIsFinal: a checkpoint whose outcome was told is never found by a later reply.
THEOREM ToldFinal == Spec => []ToldIsFinal
<1>1. IInv => ToldIsFinal
  BY DEF IInv, ReplyInv, Knowing, ToldIsFinal
<1> QED
  BY IInvAlways, <1>1, PTL

=============================================================================
