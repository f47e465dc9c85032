--------------------------- MODULE AssistantProofs ---------------------------
(***************************************************************************)
(* Theorems about the assistant and the capabilities it calls, for any      *)
(* number of turns, dispatches, rounds and platforms; and about the prompts  *)
(* an operator edits for it, for any number of operators, prompts and saves. *)
(***************************************************************************)
EXTENDS Assistant, Prompts, TLAPS

Capability == Catalogue \cup {NotCalled.cap}

Call == [at : {"idle", "handler", "open", "act", "audit", "over"},
         cap : Capability, via : {"dispatch", "endpoint"}, roles : SUBSET Roles, ask : BOOLEAN, todo : 0..2, acted : BOOLEAN,
         status : {"none", "ok", "error", "throws", "awaiting_approval"}]

PostStates == {"none", "trying", "published", "failed"}

Turn == [at : {"idle", "case", "chat", "placeholder", "tools", "answer", "failed", "over"},
         roles : SUBSET Roles, round : 0..MaxToolRounds, todo : SUBSET Calls,
         running : Calls \cup {NoCall}]

(***************************************************************************)
(* What a call may do, and has done.  Only the gate leads to the act, or an  *)
(* endpoint that is the wizard's or asserts the role; a checkpoint is opened *)
(* after the gate, and then the handler does nothing; a call that ended well *)
(* has nothing left to do, nor a platform left to hear from.                *)
(***************************************************************************)

MayAct(k) ==
    \/ k.cap.otherwise = "run" \/ (k.cap.role \in k.roles /\ ~k.ask)
    \/ k.via = "endpoint" /\ k.cap.id \in WizardsOwn

AnsweredYes(a) == a \in {"acting", "approved"}

\* The call, its row of the ledger, its checkpoint and its posts.
Sound(k, row, a, posts) ==
    /\ k.at = "act" => MayAct(k)
    /\ k.acted => MayAct(k) \/ AnsweredYes(a)
    /\ k.at \in {"idle", "handler", "open", "act"} => a = "none" /\ row = "none" /\ k.status = "none"
    /\ k.at \in {"handler", "act"} /\ k.cap \in Publish /\ k.todo = 0 =>
          \A p \in Platforms : posts[p] # "none"
    /\ k.status = "ok" =>
          k.todo = 0 /\ (k.cap \in Publish => \A p \in Platforms : posts[p] \in {"published", "failed"})
    /\ k.status = "awaiting_approval" <=> a # "none"
    /\ k.at = "audit" \/ row = "charged" => k.via = "dispatch"
    /\ row = "charged" => k.status \in {"ok", "awaiting_approval"}

CallInv(c) == Sound(call[c], ledger[c], approval[c], post[c])

\* A round is begun only while the loop has one left.
TurnInv(t) == turn[t].at = "tools" => turn[t].round < MaxToolRounds

AssistantInv ==
    /\ TypeOK
    /\ \A c \in Calls : CallInv(c)
    /\ \A t \in Turns : TurnInv(t)

-----------------------------------------------------------------------------

\* The catalogue as a gate reads it: whatever runs without one is not of high risk.
LEMMA RunsAreNotHigh ==
    ASSUME NEW cap \in Capability
    PROVE  /\ cap.otherwise = "run" => cap.risk # "high"
           /\ cap.changes \subseteq 0..2
           /\ cap \in Publish => cap.changes = {1}
<1> USE DEF Query, Command, OwnerOnly, OrApproved
<1>1. CASE cap \in ReadAndConfigure \cup Infrastructure
  BY <1>1 DEF ReadAndConfigure, Infrastructure, Publish
<1>2. CASE cap \in EnvSecrets \cup Troubleshooting
  BY <1>2 DEF EnvSecrets, Troubleshooting, Publish
<1>3. CASE cap \in Provision \cup Ship \cup Publish
  BY <1>3 DEF Provision, Ship, Publish
<1>4. CASE cap = NotCalled.cap
  BY <1>4 DEF NotCalled, Publish
<1> QED
  BY <1>1, <1>2, <1>3, <1>4 DEF Capability, Catalogue

LEMMA TypesOfAll ==
    TypeOK <=> /\ call \in [Calls -> Call]
               /\ ledger \in [Calls -> {"none", "free", "charged"}]
               /\ approval \in [Calls -> {"none", "awaiting", "acting", "approved", "rejected"}]
               /\ post \in [Calls -> [Platforms -> PostStates]]
               /\ turn \in [Turns -> Turn]
               /\ panel \in Turns \cup {NoTurn}
  BY DEF TypeOK, Call, Turn, Capability, PostStates

\* A call that does not move keeps what holds of it.
LEMMA Bystander ==
    ASSUME NEW c \in Calls, CallInv(c),
           call'[c] = call[c], ledger'[c] = ledger[c], approval'[c] = approval[c], post'[c] = post[c]
    PROVE  CallInv(c)'
  BY DEF CallInv

\* The two halves of the invariant after a step: what it says of dispatches, and of turns.
CallsKept ==
    /\ call' \in [Calls -> Call]
    /\ ledger' \in [Calls -> {"none", "free", "charged"}]
    /\ approval' \in [Calls -> {"none", "awaiting", "acting", "approved", "rejected"}]
    /\ post' \in [Calls -> [Platforms -> PostStates]]
    /\ \A d \in Calls : CallInv(d)'

TurnsKept ==
    /\ turn' \in [Turns -> Turn] /\ panel' \in Turns \cup {NoTurn}
    /\ \A t \in Turns : TurnInv(t)'

\* One call moves.
LEMMA CallMoves ==
    ASSUME AssistantInv, NEW c \in Calls, NEW k \in Call, call' = [call EXCEPT ![c] = k],
           \A d \in Calls \ {c} : ledger'[d] = ledger[d] /\ approval'[d] = approval[d] /\ post'[d] = post[d],
           ledger' \in [Calls -> {"none", "free", "charged"}],
           approval' \in [Calls -> {"none", "awaiting", "acting", "approved", "rejected"}],
           post' \in [Calls -> [Platforms -> PostStates]],
           Sound(k, ledger'[c], approval'[c], post'[c])
    PROVE  CallsKept
<1>1. call \in [Calls -> Call]
  BY TypesOfAll DEF AssistantInv
<1>2. call' \in [Calls -> Call] /\ call'[c] = k /\ \A d \in Calls \ {c} : call'[d] = call[d]
  BY <1>1
<1>3. CallInv(c)'
  BY <1>2 DEF CallInv
<1>4. \A d \in Calls \ {c} : CallInv(d)'
  BY <1>2, Bystander DEF AssistantInv
<1> QED
  BY <1>2, <1>3, <1>4 DEF CallsKept

LEMMA CallsStay == AssistantInv /\ UNCHANGED capabilityVars => CallsKept
<1> SUFFICES ASSUME AssistantInv, UNCHANGED capabilityVars PROVE CallsKept
  OBVIOUS
<1>1. \A c \in Calls : CallInv(c)'
  BY Bystander DEF AssistantInv, capabilityVars
<1> QED
  BY <1>1, TypesOfAll DEF CallsKept, AssistantInv, capabilityVars

LEMMA TurnsStay == AssistantInv /\ UNCHANGED turn /\ panel' \in Turns \cup {NoTurn} => TurnsKept
  BY TypesOfAll DEF AssistantInv, TurnsKept, TurnInv

\* One turn moves.
LEMMA TurnMoves ==
    ASSUME AssistantInv, NEW t \in Turns, NEW k \in Turn, turn' = [turn EXCEPT ![t] = k],
           panel' \in Turns \cup {NoTurn}, k.at = "tools" => k.round < MaxToolRounds
    PROVE  TurnsKept
<1>1. turn \in [Turns -> Turn]
  BY TypesOfAll DEF AssistantInv
<1> QED
  BY <1>1 DEF TurnsKept, TurnInv, AssistantInv

LEMMA BothKept == CallsKept /\ TurnsKept => AssistantInv'
<1> SUFFICES ASSUME CallsKept, TurnsKept PROVE AssistantInv'
  OBVIOUS
<1>1. TypeOK'
  BY DEF CallsKept, TurnsKept, TypeOK, Call, Turn, Capability, PostStates
<1> QED
  BY <1>1 DEF CallsKept, TurnsKept, AssistantInv

-----------------------------------------------------------------------------
(***************************************************************************)
(* What a call does.                                                       *)
(***************************************************************************)

\* A call begins: at its gate, or past it where an endpoint lets it.
LEMMA Begins ==
    ASSUME AssistantInv, NEW c \in Calls, call[c].at = "idle",
           NEW cap \in Catalogue, NEW n \in cap.changes, NEW via \in {"dispatch", "endpoint"},
           NEW at \in {"handler", "open", "act"}, NEW roles \in SUBSET Roles, NEW ask \in BOOLEAN,
           call' = [call EXCEPT ![c] = Begun(cap, via, at, roles, ask, n)],
           UNCHANGED <<ledger, approval, post>>,
           at = "act" => MayAct(Begun(cap, via, at, roles, ask, n))
    PROVE  CallsKept
<1> DEFINE k == Begun(cap, via, at, roles, ask, n)
<1>1. /\ call[c] \in Call /\ CallInv(c)
      /\ ledger \in [Calls -> {"none", "free", "charged"}]
      /\ approval \in [Calls -> {"none", "awaiting", "acting", "approved", "rejected"}]
      /\ post \in [Calls -> [Platforms -> PostStates]]
  BY TypesOfAll DEF AssistantInv
<1>2. cap \in Capability /\ n \in 0..2 /\ (cap \in Publish => n # 0)
  BY RunsAreNotHigh DEF Capability
<1>3. k \in Call
  BY <1>2 DEF Begun, NotCalled, Call
<1>4. /\ k.at = at /\ k.acted = FALSE /\ k.status = "none" /\ k.cap = cap /\ k.todo = n
  BY DEF Begun, NotCalled
<1>5. approval[c] = "none" /\ ledger[c] = "none"
  BY <1>1 DEF CallInv, Sound
<1>6. at = "act" => MayAct(k)
  OBVIOUS
<1>7. call' = [call EXCEPT ![c] = k]
  OBVIOUS
<1> HIDE DEF k
<1>8. Sound(k, ledger'[c], approval'[c], post'[c])
  BY <1>2, <1>4, <1>5, <1>6 DEF Sound
<1> QED
  BY <1>1, <1>3, <1>7, <1>8, CallMoves

\* A call throws before anything is done.
LEMMA ThrowsAtOnce ==
    ASSUME AssistantInv, NEW c \in Calls, call[c].at = "idle", Throws(c),
           UNCHANGED <<ledger, approval, post>>
    PROVE  CallsKept
<1>1. /\ call \in [Calls -> Call] /\ call[c] \in Call /\ CallInv(c)
      /\ ledger \in [Calls -> {"none", "free", "charged"}]
      /\ approval \in [Calls -> {"none", "awaiting", "acting", "approved", "rejected"}]
      /\ post \in [Calls -> [Platforms -> PostStates]]
  BY TypesOfAll DEF AssistantInv
<1> DEFINE k == [call[c] EXCEPT !.at = "over", !.status = "throws"]
<1>2. call' = [call EXCEPT ![c] = k] /\ k \in Call
  BY <1>1 DEF Call, Throws
<1>3. k.at = "over" /\ k.status = "throws" /\ k.acted = call[c].acted
      /\ (MayAct(call[c]) => MayAct(k))
  BY <1>1 DEF Call, MayAct
<1> HIDE DEF k
<1>4. Sound(k, ledger'[c], approval'[c], post'[c])
  BY <1>1, <1>3 DEF CallInv, Sound
<1> QED
  BY <1>1, <1>2, <1>4, CallMoves

\* dispatch: it throws, or its handler begins.
LEMMA Dispatching ==
    ASSUME AssistantInv, NEW c \in Calls, NEW ids, NEW roles \in SUBSET Roles, NEW ask \in BOOLEAN,
           Dispatch(c, ids, roles, ask)
    PROVE  CallsKept
<1>1. call[c].at = "idle" /\ UNCHANGED <<ledger, approval, post>>
  BY DEF Dispatch
<1>2. CASE Throws(c)
  BY <1>1, <1>2, ThrowsAtOnce
<1>3. ASSUME NEW cap \in Catalogue, NEW n \in cap.changes,
             call' = [call EXCEPT ![c] = Begun(cap, "dispatch", "handler", roles \cap {cap.role}, ask, n)]
      PROVE CallsKept
  <2>1. roles \cap {cap.role} \in SUBSET Roles
    OBVIOUS
  <2> QED
    BY <1>1, <1>3, <2>1, Begins
<1> QED
  BY <1>2, <1>3 DEF Dispatch

\* An endpoint: the wizard's, a request for an approval, or a deploy.
LEMMA Requesting ==
    ASSUME AssistantInv, NEW c \in Calls, NEW roles \in SUBSET Roles, Endpoint(c, roles)
    PROVE  CallsKept
<1>1. call[c].at = "idle" /\ UNCHANGED <<ledger, approval, post>>
  BY DEF Endpoint
<1>2. CASE Throws(c)
  BY <1>1, <1>2, ThrowsAtOnce
<1>3. ASSUME NEW cap \in Catalogue, NEW n \in cap.changes, cap.id \in WizardsOwn,
             call' = [call EXCEPT ![c] = Begun(cap, "endpoint", "act", {}, FALSE, n)]
      PROVE CallsKept
  <2>1. MayAct(Begun(cap, "endpoint", "act", {}, FALSE, n))
    BY <1>3 DEF MayAct, Begun, NotCalled
  <2> QED
    BY <1>1, <1>3, <2>1, Begins
<1>4. ASSUME NEW cap \in Catalogue, NEW n \in cap.changes,
             call' = [call EXCEPT ![c] = Begun(cap, "endpoint", "open", {}, TRUE, n)]
      PROVE CallsKept
  BY <1>1, <1>4, Begins
<1>5. ASSUME NEW cap \in Catalogue, NEW n \in cap.changes, cap.role \in roles,
             call' = [call EXCEPT ![c] = Begun(cap, "endpoint", "act", {cap.role}, FALSE, n)]
      PROVE CallsKept
  <2>1. MayAct(Begun(cap, "endpoint", "act", {cap.role}, FALSE, n))
    BY DEF MayAct, Begun, NotCalled
  <2>2. {cap.role} \in SUBSET Roles
    BY <1>5
  <2> QED
    BY <1>1, <1>5, <2>1, <2>2, Begins
<1> QED
  BY <1>2, <1>3, <1>4, <1>5 DEF Endpoint

\* The handler, the audit, and the platforms that are posted to.
LEMMA RunningKeeps ==
    ASSUME AssistantInv, NEW c \in Calls, Running(c)
    PROVE  CallsKept
<1>1. /\ call \in [Calls -> Call] /\ call[c] \in Call /\ CallInv(c)
      /\ ledger \in [Calls -> {"none", "free", "charged"}]
      /\ approval \in [Calls -> {"none", "awaiting", "acting", "approved", "rejected"}]
      /\ post \in [Calls -> [Platforms -> PostStates]]
  BY TypesOfAll DEF AssistantInv
<1> DEFINE at(p) == [call[c] EXCEPT !.at = p]
           to(s) == [call[c] EXCEPT !.at = IF call[c].via = "dispatch" THEN "audit" ELSE "over",
                                    !.status = s]
<1>2. ASSUME NEW p \in {"open", "act", "over"}
      PROVE  /\ at(p) \in Call /\ at(p).at = p /\ at(p).acted = call[c].acted
             /\ at(p).status = call[c].status /\ at(p).todo = call[c].todo
             /\ at(p).cap = call[c].cap /\ at(p).via = call[c].via
             /\ MayAct(at(p)) <=> MayAct(call[c])
  BY <1>1 DEF Call, MayAct
<1>3. ASSUME NEW s \in {"ok", "error", "throws", "awaiting_approval"}
      PROVE  /\ to(s) \in Call /\ to(s).at \in {"audit", "over"} /\ to(s).acted = call[c].acted
             /\ to(s).status = s /\ to(s).todo = call[c].todo
             /\ to(s).cap = call[c].cap /\ to(s).via = call[c].via
             /\ to(s).at = "audit" => to(s).via = "dispatch"
             /\ MayAct(to(s)) <=> MayAct(call[c])
  BY <1>1 DEF Call, MayAct
<1>4. \A s : Results(c, s) => call' = [call EXCEPT ![c] = to(s)]
  BY <1>1 DEF Results
<1>5. \A p : Goes(c, p) => call' = [call EXCEPT ![c] = at(p)]
  BY <1>1 DEF Goes
<1> HIDE DEF at, to
\* A handler that ends without a checkpoint and without having done all there is to do.
<1>6. ASSUME NEW s \in {"error", "throws"}, call[c].at \in {"handler", "open", "act"}, Results(c, s),
             UNCHANGED <<ledger, approval, post>>
      PROVE  CallsKept
  <2>1. Sound(to(s), ledger'[c], approval'[c], post'[c])
    BY <1>1, <1>3, <1>6 DEF CallInv, Sound
  <2> QED
    BY <1>1, <1>3, <1>4, <1>6, <2>1, CallMoves
<1>7. CASE Gate(c)
  <2>1. call[c].at = "handler" /\ UNCHANGED <<ledger, approval, post>>
    BY <1>7 DEF Gate
  <2>2. CASE Goes(c, "act") /\ MayAct(call[c])
    <3>1. Sound(at("act"), ledger'[c], approval'[c], post'[c])
      BY <1>1, <1>2, <2>1, <2>2 DEF CallInv, Sound
    <3> QED
      BY <1>1, <1>2, <1>5, <2>1, <2>2, <3>1, CallMoves
  <2>3. CASE Results(c, "error")
    BY <1>6, <2>1, <2>3
  <2>4. CASE Goes(c, "open")
    <3>1. Sound(at("open"), ledger'[c], approval'[c], post'[c])
      BY <1>1, <1>2, <2>1, <2>4 DEF CallInv, Sound
    <3> QED
      BY <1>1, <1>2, <1>5, <2>1, <2>4, <3>1, CallMoves
  <2> QED
    BY <1>7, <2>2, <2>3, <2>4 DEF Gate, Entitled, MayAct
<1>8. CASE OpenCheckpoint(c)
  <2>1. call[c].at = "open" /\ UNCHANGED <<ledger, post>>
    BY <1>8 DEF OpenCheckpoint
  <2>2. CASE approval' = [approval EXCEPT ![c] = "awaiting"] /\ Results(c, "awaiting_approval")
    <3>1. approval'[c] = "awaiting"
      BY <1>1, <2>2
    <3>2. Sound(to("awaiting_approval"), ledger'[c], approval'[c], post'[c])
      BY <1>1, <1>3, <2>1, <3>1 DEF CallInv, Sound, AnsweredYes
    <3>3. /\ approval' \in [Calls -> {"none", "awaiting", "acting", "approved", "rejected"}]
          /\ \A d \in Calls \ {c} : approval'[d] = approval[d]
      BY <1>1, <2>2
    <3> QED
      BY <1>1, <1>3, <1>4, <2>1, <2>2, <3>2, <3>3, CallMoves
  <2>3. CASE Results(c, "throws") /\ UNCHANGED approval
    BY <1>6, <2>1, <2>3
  <2> QED
    BY <1>8, <2>2, <2>3 DEF OpenCheckpoint
<1>9. CASE Write(c)
  <2> DEFINE k == [call[c] EXCEPT !.todo = @ - 1, !.acted = TRUE]
  <2>1. /\ call[c].at = "act" /\ call[c].todo > 0 /\ UNCHANGED <<ledger, approval>>
        /\ call' = [call EXCEPT ![c] = k]
    BY <1>1, <1>9 DEF Write
  <2>2. call[c].todo - 1 \in 0..2
    BY <1>1, <2>1 DEF Call
  <2>3. k \in Call
    BY <1>1, <2>2 DEF Call
  <2>4. /\ k.at = "act" /\ k.status = call[c].status /\ k.cap = call[c].cap
        /\ k.via = call[c].via /\ MayAct(k)
    BY <1>1, <2>1 DEF Call, CallInv, Sound, MayAct
  <2>5. /\ post' \in [Calls -> [Platforms -> PostStates]]
        /\ \A d \in Calls \ {c} : post'[d] = post[d]
        /\ call[c].cap \in Publish => \A p \in Platforms : post'[c][p] # "none"
    BY <1>1, <1>9 DEF Write, Sends, PostStates
  <2> HIDE DEF k
  <2>6. Sound(k, ledger'[c], approval'[c], post'[c])
    BY <1>1, <2>1, <2>4, <2>5 DEF CallInv, Sound
  <2> QED
    BY <1>1, <2>1, <2>3, <2>5, <2>6, CallMoves
<1>10. CASE Return(c)
  <2>1. call[c].at = "act" /\ Settled(c) /\ UNCHANGED <<ledger, approval, post>>
    BY <1>10 DEF Return
  <2>2. CASE call[c].todo = 0 /\ Results(c, "ok")
    <3>1. call[c].cap \in Publish => \A p \in Platforms : post[c][p] \in {"published", "failed"}
      BY <1>1, <2>1, <2>2 DEF CallInv, Sound, Settled, PostStates
    <3>2. Sound(to("ok"), ledger'[c], approval'[c], post'[c])
      BY <1>1, <1>3, <2>1, <2>2, <3>1 DEF CallInv, Sound
    <3> QED
      BY <1>1, <1>3, <1>4, <2>1, <2>2, <3>2, CallMoves
  <2>3. CASE Results(c, "error")
    BY <1>6, <2>1, <2>3
  <2> QED
    BY <1>10, <2>2, <2>3 DEF Return
<1>11. CASE CallThrows(c)
  BY <1>6, <1>11 DEF CallThrows
<1>12. CASE Audit(c)
  <2>1. call[c].at = "audit" /\ Goes(c, "over") /\ UNCHANGED <<approval, post>>
    BY <1>12 DEF Audit
  <2>2. /\ ledger' \in [Calls -> {"none", "free", "charged"}]
        /\ \A d \in Calls \ {c} : ledger'[d] = ledger[d]
        /\ ledger'[c] = "charged" => call[c].status \in {"ok", "awaiting_approval"}
    BY <1>1, <1>12 DEF Audit, CallInv, Sound
  <2>3. Sound(at("over"), ledger'[c], approval'[c], post'[c])
    BY <1>1, <1>2, <2>1, <2>2 DEF CallInv, Sound
  <2> QED
    BY <1>1, <1>2, <1>5, <2>1, <2>2, <2>3, CallMoves
<1>13. ASSUME NEW p \in Platforms, PostEnds(c, p) PROVE CallsKept
  <2>1. UNCHANGED <<call, ledger, approval>> /\ post[c][p] = "trying"
    BY <1>13 DEF PostEnds
  <2>2. /\ post' \in [Calls -> [Platforms -> PostStates]]
        /\ \A d \in Calls \ {c} : post'[d] = post[d]
        /\ \A q \in Platforms : q # p => post'[c][q] = post[c][q]
        /\ post'[c][p] \in {"published", "failed"}
    BY <1>1, <1>13 DEF PostEnds, PostStates
  <2>3. CallInv(c)'
    BY <1>1, <2>1, <2>2 DEF CallInv, Sound
  <2>4. \A d \in Calls : CallInv(d)'
    BY <2>1, <2>2, <2>3, Bystander DEF AssistantInv
  <2> QED
    BY <1>1, <2>1, <2>2, <2>4 DEF CallsKept
<1> QED
  BY <1>7, <1>8, <1>9, <1>10, <1>11, <1>12, <1>13 DEF Running

\* The approver answers.
LEMMA AnswerKeeps ==
    ASSUME AssistantInv, NEW c \in Calls, Approve(c) \/ Approved(c) \/ Cancel(c)
    PROVE  CallsKept
<1>1. /\ call \in [Calls -> Call] /\ call[c] \in Call /\ CallInv(c)
      /\ ledger \in [Calls -> {"none", "free", "charged"}]
      /\ approval \in [Calls -> {"none", "awaiting", "acting", "approved", "rejected"}]
      /\ post \in [Calls -> [Platforms -> PostStates]]
  BY TypesOfAll DEF AssistantInv
<1>2. CASE Approve(c)
  <2> DEFINE k == [call[c] EXCEPT !.todo = 0, !.acted = TRUE]
  <2>1. /\ approval[c] = "awaiting" /\ approval' = [approval EXCEPT ![c] = "acting"]
        /\ UNCHANGED ledger /\ call' = [call EXCEPT ![c] = k]
    BY <1>1, <1>2 DEF Approve
  <2>2. k \in Call
    <3>1. 0 \in 0..2
      OBVIOUS
    <3> QED
      BY <1>1, <3>1 DEF Call
  <2>3. /\ k.at = call[c].at /\ k.status = call[c].status /\ k.todo = 0 /\ k.cap = call[c].cap
        /\ k.via = call[c].via
    BY <1>1 DEF Call
  <2>4. /\ post' \in [Calls -> [Platforms -> PostStates]]
        /\ \A d \in Calls \ {c} : post'[d] = post[d]
    BY <1>1, <1>2 DEF Approve, Sends, PostStates
  <2>5. /\ approval' \in [Calls -> {"none", "awaiting", "acting", "approved", "rejected"}]
        /\ \A d \in Calls \ {c} : approval'[d] = approval[d]
        /\ approval'[c] = "acting"
    BY <1>1, <2>1
  <2> HIDE DEF k
  <2>6. Sound(k, ledger'[c], approval'[c], post'[c])
    BY <1>1, <2>1, <2>3, <2>5 DEF CallInv, Sound, AnsweredYes
  <2> QED
    BY <1>1, <2>1, <2>2, <2>4, <2>5, <2>6, CallMoves
<1>3. CASE Approved(c) \/ Cancel(c)
  <2>1. /\ UNCHANGED <<call, ledger, post>>
        /\ approval' \in [Calls -> {"none", "awaiting", "acting", "approved", "rejected"}]
        /\ \A d \in Calls \ {c} : approval'[d] = approval[d]
        /\ approval[c] # "none" /\ approval'[c] # "none"
        /\ AnsweredYes(approval[c]) => AnsweredYes(approval'[c])
    BY <1>1, <1>3 DEF Approved, Cancel, AnsweredYes
  <2>2. CallInv(c)'
    BY <1>1, <2>1 DEF CallInv, Sound
  <2>3. \A d \in Calls \ {c} : CallInv(d)'
    BY <2>1, Bystander DEF AssistantInv
  <2> QED
    BY <1>1, <2>1, <2>2, <2>3 DEF CallsKept
<1> QED
  BY <1>2, <1>3

-----------------------------------------------------------------------------
(***************************************************************************)
(* What a turn does.                                                       *)
(***************************************************************************)

\* A turn goes from one place to another.
LEMMA TurnGoes ==
    ASSUME AssistantInv, NEW t \in Turns,
           NEW at \in {"case", "chat", "placeholder", "answer", "failed", "over"}, TurnAt(t, at),
           panel' \in Turns \cup {NoTurn}
    PROVE  TurnsKept
<1>1. turn \in [Turns -> Turn] /\ turn[t] \in Turn
  BY TypesOfAll DEF AssistantInv
<1> DEFINE k == [turn[t] EXCEPT !.at = at]
<1>2. k \in Turn /\ k.at = at /\ turn' = [turn EXCEPT ![t] = k]
  BY <1>1 DEF Turn, TurnAt
<1> HIDE DEF k
<1> QED
  BY <1>2, TurnMoves

LEMMA SendKeeps ==
    ASSUME AssistantInv, NEW t \in Turns, Send(t)
    PROVE  AssistantInv'
<1>1. turn \in [Turns -> Turn] /\ turn[t] \in Turn
  BY TypesOfAll DEF AssistantInv
<1>2. PICK roles \in CallerRoles : turn' = [turn EXCEPT ![t].at = "case", ![t].roles = roles]
  BY DEF Send
<1> DEFINE k == [turn[t] EXCEPT !.at = "case", !.roles = roles]
<1>3. k \in Turn /\ k.at = "case" /\ turn' = [turn EXCEPT ![t] = k]
  BY <1>1, <1>2, AssistantAssumption DEF Turn
<1> HIDE DEF k
<1>4. TurnsKept
  BY <1>3, TurnMoves DEF Send
<1> QED
  BY <1>4, CallsStay, BothKept DEF Send

\* A tool or a command of the placeholder is dispatched, and waited for.
LEMMA RunsCall ==
    ASSUME AssistantInv, NEW t \in Turns, NEW c \in Calls, NEW todo \in SUBSET Calls,
           turn' = [turn EXCEPT ![t] = [@ EXCEPT !.running = c, !.todo = todo]],
           UNCHANGED panel
    PROVE  TurnsKept
<1>1. turn \in [Turns -> Turn] /\ turn[t] \in Turn /\ TurnInv(t) /\ panel \in Turns \cup {NoTurn}
  BY TypesOfAll DEF AssistantInv
<1> DEFINE k == [turn[t] EXCEPT !.running = c, !.todo = todo]
<1>2. k \in Turn /\ k.at = turn[t].at /\ k.round = turn[t].round /\ turn' = [turn EXCEPT ![t] = k]
  BY <1>1 DEF Turn
<1> HIDE DEF k
<1> QED
  BY <1>1, <1>2, TurnMoves DEF TurnInv

LEMMA GeneratorKeeps ==
    ASSUME AssistantInv, NEW t \in Turns, Generator(t)
    PROVE  AssistantInv'
<1>1. /\ turn \in [Turns -> Turn] /\ turn[t] \in Turn /\ TurnInv(t)
      /\ panel \in Turns \cup {NoTurn} /\ MaxToolRounds \in Nat
  BY TypesOfAll, AssistantAssumption DEF AssistantInv
<1>2. CASE Compose(t)
  <2>1. UNCHANGED capabilityVars /\ UNCHANGED panel
    BY <1>2 DEF Compose, capabilityVars
  <2>2. TurnsKept
    BY <1>1, <1>2, <2>1, TurnGoes DEF Compose
  <2> QED
    BY <2>1, <2>2, CallsStay, BothKept
<1>3. CASE Chat(t)
  <2>1. UNCHANGED capabilityVars /\ UNCHANGED panel
    BY <1>3 DEF Chat, capabilityVars
  <2>2. ASSUME NEW todo \in NextCalls, turn[t].round # MaxToolRounds,
               turn' = [turn EXCEPT ![t].todo = todo, ![t].at = "tools"]
        PROVE  TurnsKept
    <3> DEFINE k == [turn[t] EXCEPT !.todo = todo, !.at = "tools"]
    <3>1. todo \in SUBSET Calls
      BY DEF NextCalls, Free
    <3>2. k \in Turn
      BY <1>1, <3>1 DEF Turn
    <3>3. k.round = turn[t].round /\ turn' = [turn EXCEPT ![t] = k]
      BY <1>1, <2>2 DEF Turn
    <3>4. turn[t].round < MaxToolRounds
      BY <1>1, <2>2 DEF Turn
    <3> HIDE DEF k
    <3> QED
      BY <1>1, <2>1, <3>2, <3>3, <3>4, TurnMoves
  <2>3. ASSUME TurnAt(t, "answer") \/ TurnAt(t, "failed") PROVE TurnsKept
    BY <1>1, <2>1, <2>3, TurnGoes
  <2>4. TurnsKept
    BY <1>3, <2>2, <2>3 DEF Chat
  <2> QED
    BY <2>1, <2>4, CallsStay, BothKept
<1>4. CASE CallTool(t)
  <2>1. PICK c \in turn[t].todo : /\ Dispatch(c, Offered, turn[t].roles, FALSE)
                                  /\ turn' = [turn EXCEPT ![t].running = c, ![t].todo = @ \ {c}]
    BY <1>4 DEF CallTool
  <2>2. c \in Calls /\ turn[t].roles \in SUBSET Roles /\ turn[t].todo \ {c} \in SUBSET Calls
    BY <1>1 DEF Turn
  <2>3. turn' = [turn EXCEPT ![t] = [@ EXCEPT !.running = c, !.todo = turn[t].todo \ {c}]]
    BY <1>1, <2>1 DEF Turn
  <2>4. TurnsKept
    BY <1>4, <2>2, <2>3, RunsCall DEF CallTool
  <2>5. CallsKept
    BY <2>1, <2>2, Dispatching
  <2> QED
    BY <2>4, <2>5, BothKept
<1>5. CASE ToolEnds(t)
  <2>1. UNCHANGED capabilityVars /\ UNCHANGED panel /\ turn[t].at = "tools"
    BY <1>5 DEF ToolEnds, capabilityVars
  <2>2. ASSUME turn' = [turn EXCEPT ![t].running = NoCall] PROVE TurnsKept
    <3> DEFINE k == [turn[t] EXCEPT !.running = NoCall]
    <3>1. k \in Turn /\ k.round = turn[t].round /\ turn' = [turn EXCEPT ![t] = k]
      BY <1>1, <2>2 DEF Turn
    <3> HIDE DEF k
    <3> QED
      BY <1>1, <2>1, <3>1, TurnMoves DEF TurnInv
  <2>3. ASSUME turn' = [turn EXCEPT ![t].running = NoCall, ![t].round = @ + 1, ![t].at = "chat"]
        PROVE  TurnsKept
    <3> DEFINE k == [turn[t] EXCEPT !.running = NoCall, !.round = @ + 1, !.at = "chat"]
    <3>1. turn[t].round + 1 \in 0..MaxToolRounds
      BY <1>1, <2>1 DEF Turn, TurnInv
    <3>2. k \in Turn
      BY <1>1, <3>1 DEF Turn
    <3>3. k.at = "chat" /\ turn' = [turn EXCEPT ![t] = k]
      BY <1>1, <2>3 DEF Turn
    <3> HIDE DEF k
    <3> QED
      BY <1>1, <2>1, <3>2, <3>3, TurnMoves
  <2>4. TurnsKept
    BY <1>5, <2>2, <2>3 DEF ToolEnds
  <2> QED
    BY <2>1, <2>4, CallsStay, BothKept
<1>6. CASE Placeholder(t)
  <2>1. CASE TurnAt(t, "answer") /\ UNCHANGED capabilityVars
    <3>1. TurnsKept
      BY <1>1, <1>6, <2>1, TurnGoes DEF Placeholder
    <3> QED
      BY <2>1, <3>1, CallsStay, BothKept
  <2>2. ASSUME NEW c \in Free, NEW ask \in BOOLEAN, NEW ids, Dispatch(c, ids, turn[t].roles, ask),
               turn' = [turn EXCEPT ![t].running = c]
        PROVE  AssistantInv'
    <3>1. c \in Calls /\ turn[t].roles \in SUBSET Roles /\ turn[t].todo \in SUBSET Calls
      BY <1>1 DEF Turn, Free
    <3>2. turn' = [turn EXCEPT ![t] = [@ EXCEPT !.running = c, !.todo = turn[t].todo]]
      BY <1>1, <2>2 DEF Turn
    <3>3. TurnsKept
      BY <1>6, <3>1, <3>2, RunsCall DEF Placeholder
    <3>4. CallsKept
      BY <2>2, <3>1, Dispatching
    <3> QED
      BY <3>3, <3>4, BothKept
  <2> QED
    BY <1>6, <2>1, <2>2 DEF Placeholder
<1>7. CASE PlaceholderEnds(t)
  <2>1. UNCHANGED capabilityVars /\ UNCHANGED panel
    BY <1>7 DEF PlaceholderEnds, capabilityVars
  <2> DEFINE k == [turn[t] EXCEPT !.at = "answer", !.running = NoCall]
  <2>2. k \in Turn /\ k.at = "answer" /\ turn' = [turn EXCEPT ![t] = k]
    BY <1>1, <1>7 DEF Turn, PlaceholderEnds
  <2> HIDE DEF k
  <2>3. TurnsKept
    BY <1>1, <2>1, <2>2, TurnMoves
  <2> QED
    BY <2>1, <2>3, CallsStay, BothKept
<1>8. CASE EndTurn(t)
  <2>1. panel' \in Turns \cup {NoTurn}
    BY <1>1, <1>8 DEF EndTurn
  <2>2. TurnsKept
    BY <1>8, <2>1, TurnGoes DEF EndTurn
  <2> QED
    BY <1>8, <2>2, CallsStay, BothKept DEF EndTurn
<1> QED
  BY <1>2, <1>3, <1>4, <1>5, <1>6, <1>7, <1>8 DEF Generator

-----------------------------------------------------------------------------

LEMMA Initially == Init => AssistantInv
<1> SUFFICES ASSUME Init PROVE AssistantInv
  OBVIOUS
<1> USE DEF Init, InitCapabilities
<1>1. NotCalled \in Call
  BY DEF NotCalled, Call, Capability
<1>2. Unsent \in Turn
  BY AssistantAssumption DEF Unsent, Turn
<1>3. TypeOK
  BY <1>1, <1>2, TypesOfAll DEF PostStates
<1>4. \A c \in Calls : CallInv(c)
  BY DEF CallInv, Sound, NotCalled, Query
<1>5. \A t \in Turns : TurnInv(t)
  BY DEF TurnInv, Unsent
<1> QED
  BY <1>3, <1>4, <1>5 DEF AssistantInv

LEMMA AssistantInductive == AssistantInv /\ [Next]_vars => AssistantInv'
<1> SUFFICES ASSUME AssistantInv, [Next]_vars PROVE AssistantInv'
  OBVIOUS
<1>1. panel \in Turns \cup {NoTurn}
  BY DEF AssistantInv, TypeOK
<1>2. CASE UNCHANGED vars
  BY <1>1, <1>2, CallsStay, TurnsStay, BothKept DEF vars, capabilityVars
<1>3. ASSUME NEW t \in Turns, Send(t) PROVE AssistantInv'
  BY <1>3, SendKeeps
<1>4. ASSUME NEW t \in Turns, Generator(t) PROVE AssistantInv'
  BY <1>4, GeneratorKeeps
<1>5. ASSUME NEW c \in Calls, Invoke(c) PROVE AssistantInv'
  <2>1. PICK roles \in CallerRoles :
           (\E ask \in BOOLEAN : Dispatch(c, Offered, roles, ask)) \/ Endpoint(c, roles)
    BY <1>5 DEF Invoke
  <2>2. roles \in SUBSET Roles
    BY AssistantAssumption
  <2>3. CallsKept
    BY <2>1, <2>2, Dispatching, Requesting
  <2> QED
    BY <1>1, <1>5, <2>3, TurnsStay, BothKept DEF Invoke
<1>6. ASSUME NEW c \in Calls, Dispatched(c) PROVE AssistantInv'
  <2>1. CallsKept /\ UNCHANGED <<turn, panel>>
    BY <1>6, RunningKeeps, AnswerKeeps DEF Dispatched
  <2> QED
    BY <1>1, <2>1, TurnsStay, BothKept
<1>7. CASE ConnectionLost
  <2>1. UNCHANGED capabilityVars /\ UNCHANGED turn /\ panel' = NoTurn
    BY <1>7 DEF ConnectionLost, capabilityVars
  <2> QED
    BY <2>1, CallsStay, TurnsStay, BothKept
<1> QED
  BY <1>2, <1>3, <1>4, <1>5, <1>6, <1>7 DEF Next

LEMMA Invariant == FairSpec => []AssistantInv
<1> QED
  BY Initially, AssistantInductive, PTL DEF FairSpec

\* Dispatches, ledger, checkpoints, posts and turns have the types the module gives them;
\* no turn makes more rounds than MaxToolRounds.
THEOREM TypeCorrect == FairSpec => []TypeOK
<1>1. AssistantInv => TypeOK
  BY DEF AssistantInv
<1> QED
  BY <1>1, Invariant, PTL

\* Of what is dispatched, nothing of high risk is done, wholly or in part, but for a caller who
\* may and did not ask for an approval, or after an approver's yes; and no endpoint leads past
\* that to anything but what the wizard's own do: for every capability of the catalogue, and
\* any number of calls by pages and turns.
THEOREM GatedElsewhere == FairSpec => []GatedButForTheWizard
<1>1. ASSUME AssistantInv, NEW c \in Calls, call[c].cap.risk = "high", call[c].acted
      PROVE  \/ call[c].cap.role \in call[c].roles /\ ~call[c].ask
             \/ approval[c] \in {"acting", "approved"}
             \/ call[c].via = "endpoint" /\ call[c].cap.id \in WizardsOwn
  <2>1. call[c].cap \in Capability
    BY <1>1 DEF AssistantInv, TypeOK, Capability
  <2> QED
    BY <1>1, <2>1, RunsAreNotHigh DEF AssistantInv, CallInv, Sound, MayAct, AnsweredYes
<1>2. AssistantInv => GatedButForTheWizard
  BY <1>1 DEF GatedButForTheWizard
<1> QED
  BY <1>2, Invariant, PTL

\* What the ledger charges for was dispatched, and handed to an approver or carried through: a
\* publication to the last platform's answer, whatever that was.
THEOREM ChargedCarriedThrough == FairSpec => []ChargedWasCarriedThrough
<1>1. AssistantInv => ChargedWasCarriedThrough
  BY DEF AssistantInv, ChargedWasCarriedThrough, CallInv, Sound
<1> QED
  BY <1>1, Invariant, PTL

-----------------------------------------------------------------------------
(***************************************************************************)
(* The prompts and the case, which every turn reads: the admin pages.       *)
(***************************************************************************)

\* A case, in the row, on a page or in a request, whose prompt can be found and whose
\* model is one of its provider's or typed.
Holds(case) ==
    /\ Exists(case.guardrail) \/ case.guardrail \in Builtins
    /\ case.model \in {case.provider, Typed}

PromptsInv ==
    /\ PromptsTypeOK
    /\ Holds(kase)
    /\ \A o \in Operators : /\ Holds(page[o])
                            /\ request[o].kind = "update" => Holds(request[o].draft)

\* What a request is, by its kind.
LEMMA RequestIs ==
    ASSUME NEW r \in PromptRequest
    PROVE  /\ r.kind \in {"none", "save", "create", "update"}
           /\ r.kind = "none" => r = Waits
           /\ r.kind \in {"save", "create"} =>
                 r \in [kind : {"save", "create"}, at : {"read", "write", "body", "key", "insert"},
                        key : Keys, text : Texts]
           /\ r.kind = "update" => r \in [kind : {"update"}, at : {"write"}, draft : Case]
  BY DEF PromptRequest, Waits

\* A step of operator o's page that leaves every prompt where it is, or adds to it.
LEMMA PageMoves ==
    ASSUME PromptsInv, NEW o \in Operators, NEW p, NEW r \in PromptRequest,
           page' = [page EXCEPT ![o] = p], p \in Case, Holds(p)',
           request' = [request EXCEPT ![o] = r],
           r.kind = "update" => Holds(r.draft)',
           rows' \in [Keys -> [text : Texts, version : Nat]],
           \A k \in Keys : Exists(k) => Exists(k)',
           kase' \in Case, Holds(kase)'
    PROVE  PromptsInv'
<1>1. PromptsTypeOK'
  BY DEF PromptsInv, PromptsTypeOK
<1>2. ASSUME NEW a \in Operators
      PROVE  Holds(page[a])' /\ (request'[a].kind = "update" => Holds(request[a].draft)')
  <2>1. CASE a = o
    BY <2>1 DEF PromptsInv, PromptsTypeOK
  <2>2. CASE a # o
    <3>1. /\ page'[a] = page[a] /\ request'[a] = request[a] /\ page[a] \in Case
          /\ request[a] \in PromptRequest
          /\ Holds(page[a]) /\ (request[a].kind = "update" => Holds(request[a].draft))
      BY <2>2 DEF PromptsInv, PromptsTypeOK
    <3>2. request[a].kind = "update" => request[a].draft \in Case
      BY <3>1, RequestIs
    <3> QED
      BY <3>1, <3>2 DEF Holds, Case
  <2> QED
    BY <2>1, <2>2
<1> QED
  BY <1>1, <1>2 DEF PromptsInv

\* A step that only reads: the page's draft or its request changes.
LEMMA PageReads ==
    ASSUME PromptsInv, NEW o \in Operators, NEW p, NEW r \in PromptRequest,
           page' = [page EXCEPT ![o] = p], p \in Case, Holds(p),
           request' = [request EXCEPT ![o] = r],
           r.kind = "update" => Holds(r.draft),
           UNCHANGED <<rows, kase>>
    PROVE  PromptsInv'
<1>1. /\ rows' \in [Keys -> [text : Texts, version : Nat]] /\ kase' \in Case /\ Holds(kase)'
      /\ \A k \in Keys : Exists(k) => Exists(k)'
  BY DEF PromptsInv, PromptsTypeOK, Holds, Exists
<1>2. Holds(p)' /\ (r.kind = "update" => Holds(r.draft)')
  BY DEF Holds, Exists
<1> QED
  BY <1>1, <1>2, PageMoves

\* The page as it is, waiting for nothing or for r.
LEMMA PageWaits ==
    ASSUME PromptsInv, NEW o \in Operators, NEW r \in PromptRequest, Ask(o, r),
           r.kind = "update" => Holds(r.draft),
           UNCHANGED <<rows, kase, page>>
    PROVE  PromptsInv'
<1>1. page' = [page EXCEPT ![o] = page[o]] /\ page[o] \in Case /\ Holds(page[o])
  BY DEF PromptsInv, PromptsTypeOK
<1> QED
  BY <1>1, PageReads DEF Ask

LEMMA PromptsFirst == PromptsInit => PromptsInv
<1> SUFFICES ASSUME PromptsInit PROVE PromptsInv
  OBVIOUS
<1>1. kase \in Case /\ kase.guardrail = Guardrail /\ kase.model = kase.provider
  BY DEF PromptsInit, BuiltinCases, Case, Models, Keys, Builtins
<1>2. Holds(kase)
  BY <1>1 DEF Holds, Builtins
<1>3. NoRow \in [text : Texts, version : Nat] /\ Waits \in PromptRequest /\ Waits.kind = "none"
  BY DEF NoRow, Texts, PromptRequest, Waits
<1>4. PromptsTypeOK
  BY <1>1, <1>3 DEF PromptsInit, PromptsTypeOK
<1> QED
  BY <1>2, <1>3, <1>4 DEF PromptsInit, PromptsInv

LEMMA PromptsKept ==
    ASSUME PromptsInv, NEW o \in Operators, Admin(o)
    PROVE  PromptsInv'
<1>1. /\ rows \in [Keys -> [text : Texts, version : Nat]] /\ kase \in Case /\ Holds(kase)
      /\ page \in [Operators -> Case] /\ page[o] \in Case /\ Holds(page[o])
      /\ request \in [Operators -> PromptRequest] /\ request[o] \in PromptRequest
      /\ request[o].kind = "update" => Holds(request[o].draft)
  BY DEF PromptsInv, PromptsTypeOK
<1>2. Waits \in PromptRequest /\ Waits.kind = "none" /\ Waits.text \in Texts
  BY DEF PromptRequest, Waits, Texts
\* The request is answered, or fails, and nothing else changes.
<1>3. ASSUME Answered(o), UNCHANGED <<rows, kase, page>> PROVE PromptsInv'
  BY <1>2, <1>3, PageWaits DEF Answered
\* A save or a duplicate goes on, with a key and a text.
<1>4. ASSUME NEW r \in PromptRequest, r.kind \in {"save", "create"}, Ask(o, r),
             UNCHANGED <<rows, kase, page>>
      PROVE  PromptsInv'
  BY <1>4, PageWaits
<1>5. ASSUME request[o].kind \in {"save", "create"}
      PROVE  request[o] \in [kind : {"save", "create"}, at : {"read", "write", "body", "key", "insert"},
                             key : Keys, text : Texts]
  BY <1>1, <1>5, RequestIs
<1>6. CASE LoadPage(o)
  <2>1. PICK shown \in {kase} \cup BuiltinCases : page' = [page EXCEPT ![o] = shown]
    BY <1>6 DEF LoadPage
  <2>2. shown \in Case /\ Holds(shown)
    BY <1>1 DEF BuiltinCases, Case, Models, Keys, Builtins, Holds
  <2>3. request' = [request EXCEPT ![o] = Waits] /\ UNCHANGED <<rows, kase>>
    BY <1>1, <1>6 DEF LoadPage
  <2> QED
    BY <1>2, <2>1, <2>2, <2>3, PageReads
<1>7. CASE Edit(o)
  <2>1. PICK draft \in Edited(page[o]) : page' = [page EXCEPT ![o] = draft]
    BY <1>7 DEF Edit
  <2>2. draft \in Case /\ Holds(draft)
    <3>1. CASE \E p \in Providers : draft = [page[o] EXCEPT !.provider = p, !.model = p]
      BY <1>1, <3>1 DEF Case, Models, Holds
    <3>2. CASE \E m \in {page[o].provider, Typed} : draft = [page[o] EXCEPT !.model = m]
      BY <1>1, <3>2 DEF Case, Models, Holds
    <3>3. CASE \E g \in {k \in Keys : Known(rows, k)} : draft = [page[o] EXCEPT !.guardrail = g]
      BY <1>1, <3>3 DEF Case, Holds, Known, Exists
    <3> QED
      BY <3>1, <3>2, <3>3 DEF Edited
  <2>4. request' = [request EXCEPT ![o] = request[o]] /\ UNCHANGED <<rows, kase>>
    BY <1>1, <1>7 DEF Edit
  <2> QED
    BY <1>1, <2>1, <2>2, <2>4, PageReads
<1>8. CASE StartSave(o)
  <2>1. PICK k \in Keys : Ask(o, [Waits EXCEPT !.kind = "save", !.at = "read", !.key = k])
    BY <1>8 DEF StartSave
  <2>2. [Waits EXCEPT !.kind = "save", !.at = "read", !.key = k] \in PromptRequest
    BY <1>2 DEF Waits, PromptRequest
  <2> QED
    BY <1>4, <1>8, <2>1, <2>2 DEF StartSave, Waits
<1>9. CASE SaveRead(o)
  <2> DEFINE r == [request[o] EXCEPT !.at = "write"]
  <2>1. request[o].kind = "save" /\ UNCHANGED <<rows, kase, page>>
    BY <1>9 DEF SaveRead, At
  <2>2. r \in PromptRequest /\ r.kind = "save"
    BY <1>5, <2>1 DEF PromptRequest
  <2>3. Ask(o, r) \/ Answered(o)
    BY <1>9 DEF SaveRead, Step
  <2> QED
    BY <1>3, <1>4, <2>1, <2>2, <2>3
<1>10. CASE SaveWrite(o)
  <2>1. PICK k \in Keys : k = request[o].key
    BY <1>5, <1>10 DEF SaveWrite, At
  <2>2. rows' = [rows EXCEPT ![k] = [text |-> o, version |-> @.version + 1]] /\ o \in Texts
    BY <1>10, <2>1 DEF SaveWrite, Texts
  <2>3. /\ rows' \in [Keys -> [text : Texts, version : Nat]]
        /\ \A i \in Keys : Exists(i) => Exists(i)'
    BY <1>1, <2>2 DEF Exists
  <2>4. PICK p \in Case : p = page[o]
    BY <1>1
  <2>5. kase' = kase /\ page' = [page EXCEPT ![o] = p] /\ request' = [request EXCEPT ![o] = Waits]
    BY <1>1, <1>10, <2>4 DEF SaveWrite, Answered, Ask
  <2>6. Holds(kase)' /\ Holds(p)'
    BY <1>1, <2>3, <2>4, <2>5 DEF Holds, Case
  <2> QED
    BY <1>1, <1>2, <2>3, <2>5, <2>6, PageMoves
<1>11. CASE StartCreate(o)
  <2> DEFINE r == [Waits EXCEPT !.kind = "create", !.at = "body", !.key = page[o].guardrail]
  <2>1. r \in PromptRequest /\ r.kind = "create"
    BY <1>1, <1>2 DEF Waits, PromptRequest, Case
  <2> QED
    BY <1>4, <1>11, <2>1 DEF StartCreate
<1>12. CASE CreateBody(o)
  <2>1. request[o].kind = "create" /\ UNCHANGED <<rows, kase, page>>
    BY <1>12 DEF CreateBody, At
  <2>2. PICK loaded \in LoadedRows :
           IF Known(loaded, request[o].key)
           THEN Ask(o, [request[o] EXCEPT !.at = "key", !.text = loaded[request[o].key].text])
           ELSE Answered(o)
    BY <1>12 DEF CreateBody
  <2> DEFINE r == [request[o] EXCEPT !.at = "key", !.text = loaded[request[o].key].text]
  <2>3. loaded[request[o].key].text \in Texts
    BY <1>1, <1>5, <2>1 DEF LoadedRows, NoRow, Texts
  <2>4. r \in PromptRequest /\ r.kind = "create"
    BY <1>5, <2>1, <2>3 DEF PromptRequest
  <2> QED
    BY <1>3, <1>4, <2>1, <2>2, <2>4
<1>13. CASE CreateKey(o)
  <2>1. request[o].kind = "create" /\ UNCHANGED <<rows, kase, page>>
    BY <1>13 DEF CreateKey, At
  <2>2. PICK i \in DOMAIN Candidates : Ask(o, [request[o] EXCEPT !.at = "insert", !.key = Candidates[i]])
    BY <1>13 DEF CreateKey
  <2>3. Candidates[i] \in Keys
    BY DEF Keys, Range
  <2>4. [request[o] EXCEPT !.at = "insert", !.key = Candidates[i]] \in PromptRequest
    BY <1>5, <2>1, <2>3 DEF PromptRequest
  <2>5. [request[o] EXCEPT !.at = "insert", !.key = Candidates[i]].kind = "create"
    BY <1>5, <2>1
  <2> QED
    BY <1>4, <2>1, <2>2, <2>4, <2>5
<1>14. CASE CreateInsert(o)
  <2>1. PICK k \in Keys : k = request[o].key
    BY <1>5, <1>14 DEF CreateInsert, At
  <2>2. CASE UNCHANGED <<rows, page>>
    BY <1>3, <1>14, <2>2 DEF CreateInsert
  <2>3. CASE /\ rows' = [rows EXCEPT ![k] = [text |-> request[o].text, version |-> 1]]
             /\ page' = [page EXCEPT ![o].guardrail = k]
    <3>1. request[o].text \in Texts
      BY <1>5, <1>14 DEF CreateInsert, At
    <3>2. /\ rows' \in [Keys -> [text : Texts, version : Nat]] /\ Exists(k)'
          /\ \A i \in Keys : Exists(i) => Exists(i)'
      BY <1>1, <2>3, <3>1 DEF Exists
    <3>3. PICK p \in Case : p = [page[o] EXCEPT !.guardrail = k]
      BY <1>1 DEF Case
    <3>4. page' = [page EXCEPT ![o] = p] /\ p.guardrail = k /\ p.model \in {p.provider, Typed}
      BY <1>1, <2>3, <3>3 DEF Holds, Case
    <3>5. kase' = kase /\ request' = [request EXCEPT ![o] = Waits]
      BY <1>14 DEF CreateInsert, Answered, Ask
    <3>6. Holds(kase)' /\ Holds(p)'
      BY <1>1, <3>2, <3>4, <3>5 DEF Holds, Case
    <3> QED
      BY <1>1, <1>2, <3>2, <3>4, <3>5, <3>6, PageMoves
  <2> QED
    BY <1>14, <2>1, <2>2, <2>3 DEF CreateInsert
<1>15. CASE StartUpdate(o)
  <2> DEFINE r == [kind |-> "update", at |-> "write", draft |-> page[o]]
  <2>1. r \in PromptRequest /\ r.kind = "update" /\ Holds(r.draft)
    BY <1>1 DEF PromptRequest
  <2> QED
    BY <1>15, <2>1, PageWaits DEF StartUpdate
<1>16. CASE UpdateWrite(o)
  <2>1. PICK draft \in Case : draft = request[o].draft /\ Holds(draft)
    BY <1>1, <1>16, RequestIs DEF UpdateWrite, At
  <2>2. /\ kase' = draft /\ page' = [page EXCEPT ![o] = draft]
        /\ request' = [request EXCEPT ![o] = Waits] /\ rows' = rows
    BY <1>16, <2>1 DEF UpdateWrite, Answered, Ask
  <2>3. Holds(kase)' /\ Holds(draft)' /\ \A i \in Keys : Exists(i) => Exists(i)'
    BY <2>1, <2>2 DEF Holds, Exists
  <2> QED
    BY <1>1, <1>2, <2>1, <2>2, <2>3, PageMoves
<1>17. CASE RequestFails(o)
  BY <1>3, <1>17 DEF RequestFails
<1> QED
  BY <1>6, <1>7, <1>8, <1>9, <1>10, <1>11, <1>12, <1>13, <1>14, <1>15, <1>16, <1>17 DEF Admin

LEMMA PromptsInductive ==
    ASSUME PromptsInv, [PromptsNext]_promptVars
    PROVE  PromptsInv'
<1>1. CASE UNCHANGED promptVars
  BY <1>1 DEF promptVars, PromptsInv, PromptsTypeOK, Holds, Exists
<1>2. CASE PromptsNext
  BY <1>2, PromptsKept DEF PromptsNext
<1> QED
  BY <1>1, <1>2

LEMMA PromptsInvariant == PromptsSpec => []PromptsInv
  BY PromptsFirst, PromptsInductive, PTL DEF PromptsSpec

\* Whatever the admin pages ask across each other, every prompt, case, draft and request
\* is a well-formed one.
THEOREM PromptsTypes == PromptsSpec => []PromptsTypeOK
<1>1. PromptsInv => PromptsTypeOK
  BY DEF PromptsInv
<1> QED
  BY <1>1, PromptsInvariant, PTL

\* The case every turn reads holds together: its prompt exists, as no save deletes one and
\* a duplicate is picked only once it is there, and a model nobody typed is its provider's.
THEOREM CaseHolds == PromptsSpec => []CaseHoldsTogether
<1>1. PromptsInv => CaseHoldsTogether
  BY DEF PromptsInv, Holds, CaseHoldsTogether
<1> QED
  BY <1>1, PromptsInvariant, PTL

\* save and create, with any number of operators: a text changes only together with its
\* version, to what the operator who saves it wrote, and a duplicate replaces nothing.
THEOREM TextsSaved == PromptsSpec => TextsAreSaved
<1> DEFINE Saved == \A k \in Keys : rows'[k] # rows[k] =>
                       /\ rows'[k].version = rows[k].version + 1
                       /\ Exists(k) => \E o \in Operators : At(o, "save", "write") /\ rows'[k].text = o
<1>1. ASSUME PromptsInv, [PromptsNext]_promptVars PROVE [Saved]_promptVars
  <2>1. ASSUME NEW o \in Operators, SaveWrite(o) PROVE Saved
    BY <1>1, <2>1 DEF SaveWrite, PromptsInv, PromptsTypeOK
  <2>2. ASSUME NEW o \in Operators, CreateInsert(o) PROVE Saved
    <3>1. CASE UNCHANGED rows
      BY <3>1
    <3>2. CASE rows' = [rows EXCEPT ![request[o].key] = [text |-> request[o].text, version |-> 1]]
               /\ ~Exists(request[o].key)
      BY <1>1, <3>2 DEF PromptsInv, PromptsTypeOK, Exists
    <3> QED
      BY <2>2, <3>1, <3>2 DEF CreateInsert
  <2>3. ASSUME UNCHANGED rows PROVE Saved
    BY <2>3
  <2>4. CASE UNCHANGED promptVars
    BY <2>4
  <2>5. ASSUME NEW o \in Operators, Admin(o) PROVE Saved
    BY <2>1, <2>2, <2>3, <2>5
    DEF Admin, LoadPage, Edit, StartSave, SaveRead, StartCreate, CreateBody, CreateKey,
        StartUpdate, UpdateWrite, RequestFails
  <2> HIDE DEF Saved
  <2> QED
    BY <1>1, <2>4, <2>5 DEF PromptsNext
<1> QED
  BY <1>1, PromptsInvariant, PTL DEF PromptsSpec, TextsAreSaved

=============================================================================
