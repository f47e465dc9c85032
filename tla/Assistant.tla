------------------------------ MODULE Assistant ------------------------------
(***************************************************************************)
(* The assistant: a turn asks the model, runs the tools it calls through    *)
(* the capabilities, tells it what came of them, and streams the answer to  *)
(* the panel.  The pages' dispatches and requests, and the approver, go on  *)
(* meanwhile.                                                              *)
(***************************************************************************)
EXTENDS Capabilities, FiniteSets

CONSTANTS
    Turns,          \* turns of the one panel, each sent once
    MaxToolRounds,
    MaxCalls,       \* bound on the tools called in one round
    CallerRoles,    \* the sets of roles a caller may have
    NoTurn, NoCall

ASSUME AssistantAssumption ==
    /\ MaxToolRounds \in Nat \ {0} /\ MaxCalls \in Nat
    /\ CallerRoles \subseteq SUBSET Roles
    /\ Calls \subseteq Nat
    /\ NoTurn \notin Turns /\ NoCall \notin Calls

VARIABLES
    turn,   \* the generators of the API
    panel   \* the turn whose stream the panel reads

vars == <<call, ledger, approval, post, turn, panel>>

Unsent == [at |-> "idle", roles |-> {}, round |-> 0, todo |-> {}, running |-> NoCall]

Init ==
    /\ InitCapabilities
    /\ turn = [t \in Turns |-> Unsent]
    /\ panel = NoTurn

\* The model's calls that are not made yet keep their number.
Reserved == UNION {turn[t].todo : t \in Turns}
Free == {c \in Calls : call[c].at = "idle"} \ Reserved

\* Calls are numbered as they are asked for.
NextCalls == {todo \in SUBSET Free : \A c \in todo, d \in Free \ todo : c < d}

TurnAt(t, at) == turn' = [turn EXCEPT ![t].at = at]

-----------------------------------------------------------------------------

\* send, which the panel does one at a time.
Send(t) ==
    /\ panel = NoTurn /\ turn[t].at = "idle"
    /\ \E roles \in CallerRoles : turn' = [turn EXCEPT ![t].at = "case", ![t].roles = roles]
    /\ panel' = t
    /\ UNCHANGED capabilityVars

\* resolve never throws: the case falls back to the built-in one.  With a key for its
\* provider the prompts are composed, which throws when one is not found.
Compose(t) ==
    /\ turn[t].at = "case"
    /\ \E at \in {"chat", "placeholder", "failed"} : TurnAt(t, at)
    /\ UNCHANGED <<call, ledger, approval, post, panel>>

\* Mutant: the loop makes one round more.
ChatOneMore(t) ==
    /\ turn[t].at = "chat"
    /\ IF turn[t].round > MaxToolRounds THEN TurnAt(t, "answer")
       ELSE \/ \E todo \in NextCalls \ {{}} : Cardinality(todo) <= MaxCalls
                 /\ turn' = [turn EXCEPT ![t].todo = todo, ![t].at = "tools"]
            \/ TurnAt(t, "answer")
            \/ TurnAt(t, "failed")
    /\ UNCHANGED <<call, ledger, approval, post, panel>>

\* One round: the model answers with text, or calls tools, or does not answer in time.
Chat(t) ==
    /\ turn[t].at = "chat"
    /\ IF turn[t].round = MaxToolRounds THEN TurnAt(t, "answer")
       ELSE \/ \E todo \in NextCalls \ {{}} : Cardinality(todo) <= MaxCalls
                 /\ turn' = [turn EXCEPT ![t].todo = todo, ![t].at = "tools"]
            \/ TurnAt(t, "answer")
            \/ TurnAt(t, "failed")
    /\ UNCHANGED <<call, ledger, approval, post, panel>>

\* The model cannot ask for an approval.
CallTool(t) ==
    /\ turn[t].at = "tools" /\ turn[t].running = NoCall
    /\ \E c \in turn[t].todo :
         /\ \A d \in turn[t].todo : c <= d
         /\ Dispatch(c, Offered, turn[t].roles, FALSE)
         /\ turn' = [turn EXCEPT ![t].running = c, ![t].todo = @ \ {c}]
    /\ UNCHANGED panel

\* What the call returned or threw goes to the panel and to the model.
ToolEnds(t) ==
    /\ turn[t].at = "tools" /\ turn[t].running # NoCall
    /\ call[turn[t].running].at = "over"
    /\ turn' = IF turn[t].todo # {} THEN [turn EXCEPT ![t].running = NoCall]
               ELSE [turn EXCEPT ![t].running = NoCall, ![t].round = @ + 1, ![t].at = "chat"]
    /\ UNCHANGED <<call, ledger, approval, post, panel>>

\* Without a key: nothing, or one of three commands; only a promotion may ask.
Placeholder(t) ==
    /\ turn[t].at = "placeholder" /\ turn[t].running = NoCall
    /\ \/ TurnAt(t, "answer") /\ UNCHANGED capabilityVars
       \/ \E c \in Free, ask \in BOOLEAN :
            /\ {c} \in NextCalls
            /\ Dispatch(c, {"promoteProduction"} \cup (IF ask THEN {} ELSE {"listServices", "deployStaging"}),
                        turn[t].roles, ask)
            /\ turn' = [turn EXCEPT ![t].running = c]
    /\ UNCHANGED panel

PlaceholderEnds(t) ==
    /\ turn[t].at = "placeholder" /\ turn[t].running # NoCall
    /\ call[turn[t].running].at = "over"
    /\ turn' = [turn EXCEPT ![t].at = "answer", ![t].running = NoCall]
    /\ UNCHANGED <<call, ledger, approval, post, panel>>

\* Mutant: an error is streamed, and the stream left open.
EndTurnAnswered(t) ==
    /\ turn[t].at = "answer"
    /\ TurnAt(t, "over")
    /\ panel' = IF panel = t THEN NoTurn ELSE panel
    /\ UNCHANGED capabilityVars

\* The stream's last frames and its end, if the panel still reads it.
EndTurn(t) ==
    /\ turn[t].at \in {"answer", "failed"}
    /\ TurnAt(t, "over")
    /\ panel' = IF panel = t THEN NoTurn ELSE panel
    /\ UNCHANGED capabilityVars

\* The panel loses the stream: the turn goes on, and another may be sent beside it.
ConnectionLost ==
    /\ panel # NoTurn
    /\ panel' = NoTurn
    /\ UNCHANGED <<call, ledger, approval, post, turn>>

\* A page's own dispatch, which may ask for approval, or its request to an endpoint.
Invoke(c) ==
    /\ {c} \in NextCalls
    /\ \E roles \in CallerRoles :
         \/ \E ask \in BOOLEAN : Dispatch(c, Offered, roles, ask)
         \/ Endpoint(c, roles)
    /\ UNCHANGED <<turn, panel>>

-----------------------------------------------------------------------------

Generator(t) ==
    Compose(t) \/ Chat(t) \/ CallTool(t) \/ ToolEnds(t) \/ Placeholder(t) \/ PlaceholderEnds(t) \/ EndTurn(t)

Dispatched(c) ==
    \/ Running(c) /\ UNCHANGED <<turn, panel>>
    \/ Approve(c) /\ UNCHANGED <<turn, panel>>
    \/ Approved(c) /\ UNCHANGED <<turn, panel>>
    \/ Cancel(c) /\ UNCHANGED <<turn, panel>>

Next ==
    \/ \E t \in Turns : Send(t) \/ Generator(t)
    \/ \E c \in Calls : Invoke(c) \/ Dispatched(c)
    \/ ConnectionLost

\* Every call the generator or a handler waits for has a time limit of its own.
FairSpec ==
    /\ Init /\ [][Next]_vars
    /\ \A t \in Turns : WF_vars(Generator(t))
    /\ \A c \in Calls : WF_vars(Running(c) /\ UNCHANGED <<turn, panel>>)

-----------------------------------------------------------------------------
(***************************************************************************)
(* What must hold.                                                         *)
(***************************************************************************)

TypeOK ==
    /\ call \in [Calls -> [at : {"idle", "handler", "open", "act", "audit", "over"},
                           cap : Catalogue \cup {NotCalled.cap}, via : {"dispatch", "endpoint"},
                           roles : SUBSET Roles, ask : BOOLEAN, todo : 0..2, acted : BOOLEAN,
                           status : {"none", "ok", "error", "throws", "awaiting_approval"}]]
    /\ ledger \in [Calls -> {"none", "free", "charged"}]
    /\ approval \in [Calls -> {"none", "awaiting", "acting", "approved", "rejected"}]
    /\ post \in [Calls -> [Platforms -> {"none", "trying", "published", "failed"}]]
    /\ turn \in [Turns -> [at : {"idle", "case", "chat", "placeholder", "tools", "answer", "failed", "over"},
                           roles : SUBSET Roles, round : 0..MaxToolRounds,
                           todo : SUBSET Calls, running : Calls \cup {NoCall}]]
    /\ panel \in Turns \cup {NoTurn}

\* Every turn comes to an end, and so does the panel's wait for it, whatever the model
\* calls and whatever the tools do, unless the user sends another.
TurnsEnd == \A t \in Turns : turn[t].at = "case" ~> (turn[t].at = "over" /\ panel # t)

=============================================================================
