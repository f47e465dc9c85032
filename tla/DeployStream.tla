---------------------------- MODULE DeployStream ----------------------------
(***************************************************************************)
(* How a service card learns what became of its deploys: the rows of       *)
(* deploy_runs and the event bus in the API, the SSE stream of one          *)
(* deployment, the polling fallback in the browser, and the card that       *)
(* follows one deployment after the other.                                 *)
(*                                                                         *)
(* Of a status only the class matters here: "open" (queued, building) or    *)
(* "closed" (success, failed).  What writes the rows is DeployRun's         *)
(* business; here a row is written with either, a bounded number of times:  *)
(* a late deployment_started opens a closed one again.                      *)
(***************************************************************************)
EXTENDS Naturals, Sequences

CONSTANTS
    Deployments,  \* deploys started from the card, numbered in the order of the clicks
    Polls,        \* poll requests the browser may have under way
    None,         \* no deployment
    MaxWrites     \* bound on the writes of each row

ASSUME DeploymentsAssumption == Deployments \subseteq Nat
ASSUME NoneAssumption == None \notin Deployments
ASSUME BoundAssumption == MaxWrites \in [Deployments -> Nat]

VARIABLES
    row,       \* class of the status in the database, and the writes so far
    unsaid,    \* writes the database has done and the bus has not heard of
    stream,    \* the API's end of each stream: the listener is on the bus while "on"
    frames,    \* frames on their way to the browser
    source,    \* the browser's end of each stream
    poll,      \* poll requests
    ui,        \* state of the card and of its hook
    heard      \* the deployments whose outcome the card has shown

vars == <<row, unsaid, stream, frames, source, poll, ui, heard>>

Class == {"open", "closed"}

Frame == [type : {"status", "done"}, class : Class]

Optional == Deployments \cup {None}

\* The card: what its hook follows, the run it shows and its status, the deploy whose click
\* set the environment it acts on, the run it finalized last, whether its state is "busy",
\* its deploy requests under way, and whether it has asked for an approval.
UiState ==
    [following : Optional, run : Optional, status : Class, done : BOOLEAN,
     acting : Optional, finalized : Optional,
     busy : BOOLEAN, posting : SUBSET Deployments, asked : BOOLEAN]

TypeOK ==
    /\ row \in [Deployments -> [class : Class \cup {"none"}, writes : Nat]]
    /\ unsaid \subseteq [of : Deployments, class : Class, write : Nat]
    /\ stream \in [Deployments -> [pc : {"none", "reading", "read", "on", "ended"}, class : Class]]
    /\ frames \in [Deployments -> Seq(Frame)]
    /\ source \in [Deployments -> {"none", "open", "closed"}]
    /\ poll \in [Polls -> [pc : {"idle", "sent", "answered"}, of : Optional, class : Class]]
    /\ ui \in UiState
    /\ heard \subseteq Deployments

NoPoll == [pc |-> "idle", of |-> None, class |-> "open"]

Init ==
    /\ row = [d \in Deployments |-> [class |-> "none", writes |-> 0]]
    /\ unsaid = {}
    /\ stream = [d \in Deployments |-> [pc |-> "none", class |-> "open"]]
    /\ frames = [d \in Deployments |-> <<>>]
    /\ source = [d \in Deployments |-> "none"]
    /\ poll = [p \in Polls |-> NoPoll]
    /\ ui = [following |-> None, run |-> None, status |-> "open", done |-> FALSE,
             acting |-> None, finalized |-> None,
             busy |-> FALSE, posting |-> {}, asked |-> FALSE]
    /\ heard = {}

-----------------------------------------------------------------------------
(***************************************************************************)
(* The API.                                                                *)
(***************************************************************************)

\* updateStatus: the UPDATE, whatever the row says, and later, when its result has
\* arrived, the event.  The events of two writers may come in either order; one that no
\* listener can hear any more is left out.
Update(d, class) ==
    /\ row[d].class # "none" /\ row[d].writes < MaxWrites[d]
    /\ row' = [row EXCEPT ![d] = [class |-> class, writes |-> @.writes + 1]]
    /\ unsaid' = IF stream[d].pc = "ended" THEN unsaid
                 ELSE unsaid \cup {[of |-> d, class |-> class, write |-> row[d].writes + 1]}
    /\ UNCHANGED <<stream, frames, source, poll, ui, heard>>

\* The frames that tell of a status.
Told(class) ==
    LET status == [type |-> "status", class |-> class] IN
    IF class = "closed" THEN <<status, [status EXCEPT !.type = "done"]>> ELSE <<status>>

\* What is sent to a client that has gone is lost.
Send(d, class) ==
    IF source[d] = "open" THEN frames' = [frames EXCEPT ![d] = @ \o Told(class)]
                          ELSE UNCHANGED frames

\* Mutant: the listener sends "done" and stays on the bus.
PublishStaysOn(u) ==
    /\ unsaid' = unsaid \ {u}
    /\ IF stream[u.of].pc = "on" THEN Send(u.of, u.class) ELSE UNCHANGED frames
    /\ UNCHANGED <<row, stream, source, poll, ui, heard>>

\* The event, and the listener of streamDeployment.
Publish(u) ==
    /\ unsaid' = unsaid \ {u}
    /\ IF stream[u.of].pc = "on"
       THEN /\ Send(u.of, u.class)
            /\ stream' = IF u.class = "closed" THEN [stream EXCEPT ![u.of].pc = "ended"] ELSE stream
       ELSE UNCHANGED <<frames, stream>>
    /\ UNCHANGED <<row, source, poll, ui, heard>>

\* Mutant: a deployment without a row is not refused.
StreamReadOfNothing(d) ==
    /\ stream[d].pc \in {"none", "reading"}
    /\ stream' = [stream EXCEPT ![d] = [pc |-> "read", class |-> row[d].class]]
    /\ UNCHANGED <<row, unsaid, frames, source, poll, ui, heard>>

\* streamDeployment reads the row ...
StreamRead(d) ==
    /\ stream[d].pc = "reading"
    /\ stream' = [stream EXCEPT ![d] = [pc |-> "read", class |-> row[d].class]]
    /\ UNCHANGED <<row, unsaid, frames, source, poll, ui, heard>>

\* ... and, when the result has arrived, sends it and subscribes.
StreamSubscribe(d) ==
    /\ stream[d].pc = "read"
    /\ Send(d, stream[d].class)
    /\ stream' = [stream EXCEPT ![d] =
                     [pc |-> IF @.class = "closed" THEN "ended" ELSE "on", class |-> "open"]]
    /\ UNCHANGED <<row, unsaid, source, poll, ui, heard>>

\* The close event of a client that went away takes the listener off the bus.  When it
\* comes before the handler has asked for it (in "reading" or "read"), it is missed.
ClientGone(d) ==
    /\ stream[d].pc = "on" /\ source[d] = "closed"
    /\ stream' = [stream EXCEPT ![d].pc = "ended"]
    /\ UNCHANGED <<row, unsaid, frames, source, poll, ui, heard>>

-----------------------------------------------------------------------------
(***************************************************************************)
(* The card and its hook, useDeployStream.                                 *)
(***************************************************************************)

\* The card's effect: once its run is done and some action is under way, finalize it,
\* unless it is the one finalized last; stop following; forget the run.
Finalizes(u) == u.done /\ u.run # None /\ u.acting # None /\ u.finalized # u.run

\* React state after a render of u, with the effects that render triggers.  Of a run that
\* is shown neither as a success nor as failed nothing is told: the card stays busy.  The
\* hook forgets its run when what it follows changes, so not if it followed nothing.
Render(u) ==
    IF Finalizes(u)
    THEN /\ ui' = [u EXCEPT !.following = None, !.acting = None, !.finalized = u.run,
                            !.busy = @ /\ u.status = "open",
                            !.run = IF u.following = None THEN @ ELSE None,
                            !.status = IF u.following = None THEN @ ELSE "open",
                            !.done = u.following = None]
         /\ heard' = heard \cup {d \in {u.run} : u.status = "closed"}
         /\ source' = [d \in Deployments |-> IF source[d] = "open" THEN "closed" ELSE source[d]]
    ELSE ui' = u /\ UNCHANGED <<heard, source>>

\* applyRun: "done" is never taken back.
Shown(d, class) ==
    [ui EXCEPT !.run = d, !.status = class, !.done = @ \/ class = "closed"]

\* The user starts a deploy; the buttons are off while the card is busy.
Click(d) ==
    /\ ~ui.busy /\ d \notin ui.posting /\ row[d].class = "none"
    /\ \A e \in Deployments : e < d => e \in ui.posting \/ row[e].class # "none"
    /\ Render([ui EXCEPT !.acting = d, !.busy = TRUE, !.posting = @ \cup {d}])
    /\ UNCHANGED <<row, unsaid, stream, frames, poll>>

\* POST /cicd/deploy answered with the id: the hook's effect closes the stream it had,
\* opens the new one and starts to poll.  The run shown before is kept.
Follow(d) ==
    /\ d \in ui.posting /\ row[d].class = "none"
    /\ row' = [row EXCEPT ![d].class = "open"]
    /\ ui' = [ui EXCEPT !.following = d, !.done = FALSE, !.busy = TRUE, !.posting = @ \ {d}]
    /\ source' = [e \in Deployments |->
                     IF e = d THEN "open" ELSE IF source[e] = "open" THEN "closed" ELSE source[e]]
    /\ stream' = [stream EXCEPT ![d].pc = "reading"]
    /\ UNCHANGED <<unsaid, frames, poll, heard>>

\* POST /cicd/deploy failed, or its answer was lost: the action is over and nothing is
\* followed.  A row the API made all the same is left out: no card reads it.
StartFails(d) ==
    /\ d \in ui.posting /\ row[d].class = "none"
    /\ Render([ui EXCEPT !.acting = None, !.busy = FALSE, !.posting = @ \ {d}])
    /\ UNCHANGED <<row, unsaid, stream, frames, poll>>

\* requestApproval is answered, or fails: the deploy buttons are on again, whatever the card
\* follows.  Its own button is off only once an approval has been requested, so it can be
\* pressed while a deploy is under way (else it changes nothing here).  Bound: one request in a behaviour.
AskApproval ==
    /\ ui.busy /\ ~ui.asked
    /\ Render([ui EXCEPT !.busy = FALSE, !.asked = TRUE])
    /\ UNCHANGED <<row, unsaid, stream, frames, poll>>

\* A frame arrives.
Receive(d) ==
    /\ source[d] = "open" /\ frames[d] # <<>>
    /\ frames' = [frames EXCEPT ![d] = Tail(@)]
    /\ Render(Shown(d, Head(frames[d]).class))
    /\ UNCHANGED <<row, unsaid, stream, poll>>

\* The stream broke, or the API ended it: onerror closes it for good.
SourceFails(d) ==
    /\ source[d] = "open"
    /\ source' = [source EXCEPT ![d] = "closed"]
    /\ frames' = [frames EXCEPT ![d] = <<>>]
    /\ UNCHANGED <<row, unsaid, stream, poll, ui, heard>>

\* Mutant: the interval is cleared once the stream is open.
PollSendUntilOpen(p) ==
    /\ poll[p].pc = "idle" /\ ui.following # None
    /\ source[ui.following] # "open"
    /\ poll' = [poll EXCEPT ![p] = [NoPoll EXCEPT !.pc = "sent", !.of = ui.following]]
    /\ UNCHANGED <<row, unsaid, stream, frames, source, ui, heard>>

\* pollOnce, at once and then every 4 s.
PollSend(p) ==
    /\ poll[p].pc = "idle" /\ ui.following # None
    /\ poll' = [poll EXCEPT ![p] = [NoPoll EXCEPT !.pc = "sent", !.of = ui.following]]
    /\ UNCHANGED <<row, unsaid, stream, frames, source, ui, heard>>

PollServe(p) ==
    /\ poll[p].pc = "sent"
    /\ poll' = [poll EXCEPT ![p].pc = "answered", ![p].class = row[poll[p].of].class]
    /\ UNCHANGED <<row, unsaid, stream, frames, source, ui, heard>>

\* The answer is applied whatever the card follows by now.
PollReceive(p) ==
    /\ poll[p].pc = "answered"
    /\ Render(Shown(poll[p].of, poll[p].class))
    /\ poll' = [poll EXCEPT ![p] = NoPoll]
    /\ UNCHANGED <<row, unsaid, stream, frames>>

PollFails(p) ==
    /\ poll[p].pc = "sent"
    /\ poll' = [poll EXCEPT ![p] = NoPoll]
    /\ UNCHANGED <<row, unsaid, stream, frames, source, ui, heard>>

Next ==
    \/ \E d \in Deployments :
         \/ \E class \in Class : Update(d, class)
         \/ StreamRead(d) \/ StreamSubscribe(d) \/ ClientGone(d)
         \/ Click(d) \/ Follow(d) \/ StartFails(d) \/ Receive(d) \/ SourceFails(d)
    \/ AskApproval
    \/ \E u \in unsaid : Publish(u)
    \/ \E p \in Polls : PollSend(p) \/ PollServe(p) \/ PollReceive(p) \/ PollFails(p)

Spec == Init /\ [][Next]_vars

-----------------------------------------------------------------------------
(***************************************************************************)
(* What must hold.                                                         *)
(***************************************************************************)

\* "done" is the last frame of a stream, and the listener that sent it is off the bus:
\* however writes and their events cross, the browser is not told more afterwards.
DoneEndsTheStream ==
    \A d \in Deployments : \A i \in 1..Len(frames[d]) :
        frames[d][i].type = "done" => i = Len(frames[d]) /\ stream[d].pc = "ended"

\* A card that follows a deployment, with nothing of another one under way: no deploy being
\* requested, no poll of another one unanswered, and no "done" left of another one.
FollowsOnly(d) ==
    /\ ui.following = d /\ ui.acting # None /\ ~ui.done /\ ui.posting = {}
    /\ \A p \in Polls : poll[p].of \in {None, d}

\* Such a card gets to show the outcome of a row that has closed and stays closed, even if
\* the stream has missed the event: the polls make up for it.  Only another deploy, clicked
\* meanwhile, can keep it from that.
CardHearsOfTheEnd ==
    \A d \in Deployments :
        FollowsOnly(d) /\ row[d].class = "closed"
            ~> d \in heard \/ row[d].class = "open" \/ ui.posting # {}

\* The timer goes on, and polls fail now and then but not for ever: requests reach the
\* API, and answers the browser, again and again.
Fairness ==
    \A p \in Polls : WF_vars(PollSend(p)) /\ SF_vars(PollServe(p)) /\ SF_vars(PollReceive(p))

FairSpec == Spec /\ Fairness

=============================================================================
