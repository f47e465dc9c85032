----------------------------- MODULE CardProofs -----------------------------
(***************************************************************************)
(* Proofs about the card of a service: what it hears of its deploys        *)
(* (DeployStream, for any number of deployments, polls and writes), and    *)
(* the configuration that is saved from it (DeploymentConfig, for any      *)
(* number of requests, branches and texts).                                *)
(***************************************************************************)
EXTENDS DeployStream, DeploymentConfig, TLAPS

-----------------------------------------------------------------------------
(***************************************************************************)
(* The stream: the inductive invariant.                                    *)
(***************************************************************************)

\* Only what has a row is streamed, followed and asked for.
OfRows ==
    /\ \A d \in Deployments : stream[d].pc # "none" => row[d].class # "none"
    /\ ui.following # None => row[ui.following].class # "none"
    /\ \A p \in Polls : poll[p].pc = "sent" =>
           poll[p].of \in Deployments /\ row[poll[p].of].class # "none"

IInv == TypeOK /\ OfRows /\ DoneEndsTheStream

-----------------------------------------------------------------------------
(***************************************************************************)
(* Lemmas about the parts of a step.                                       *)
(***************************************************************************)

\* A render keeps the types, and follows no other deployment than before.
LEMMA RenderTypes ==
    ASSUME TypeOK, NEW u \in UiState, Render(u)
    PROVE  /\ ui' \in UiState
           /\ source' \in [Deployments -> {"none", "open", "closed"}]
           /\ heard' \subseteq Deployments
           /\ ui'.following \in {None, u.following}
<1>1. CASE Finalizes(u)
  <2>1. /\ ui' = [u EXCEPT !.following = None, !.acting = None, !.finalized = u.run,
                            !.busy = @ /\ u.status = "open",
                            !.run = IF u.following = None THEN @ ELSE None,
                            !.status = IF u.following = None THEN @ ELSE "open",
                            !.done = u.following = None]
        /\ heard' = heard \cup {d \in {u.run} : u.status = "closed"}
        /\ source' = [d \in Deployments |-> IF source[d] = "open" THEN "closed" ELSE source[d]]
    BY <1>1 DEF Render
  <2>2. ui' \in UiState /\ ui'.following = None
    <3> DEFINE b == u.busy /\ u.status = "open"
               r == IF u.following = None THEN u.run ELSE None
               c == IF u.following = None THEN u.status ELSE "open"
               f == (u.following = None)
    <3>1. b \in BOOLEAN /\ r \in Optional /\ c \in Class /\ f \in BOOLEAN
      BY DEF UiState, Optional, Class
    <3>2. ui' = [u EXCEPT !.following = None, !.acting = None, !.finalized = u.run,
                          !.busy = b, !.run = r, !.status = c, !.done = f]
      BY <2>1
    <3> HIDE DEF b, r, c, f
    <3> QED
      BY <3>1, <3>2 DEF UiState, Optional
  <2>3. source' \in [Deployments -> {"none", "open", "closed"}]
    BY <2>1 DEF TypeOK
  <2>4. heard' \subseteq Deployments
    BY <1>1, <2>1 DEF TypeOK, UiState, Optional, Finalizes
  <2> QED
    BY <2>2, <2>3, <2>4
<1>2. CASE ~Finalizes(u)
  BY <1>2 DEF Render, TypeOK
<1> QED
  BY <1>1, <1>2

\* What is shown of a deployment is a state of the card.
LEMMA ShownTypes ==
    ASSUME TypeOK, NEW d \in Optional, NEW class \in Class
    PROVE  Shown(d, class) \in UiState /\ Shown(d, class).following = ui.following
<1>1. ui \in UiState
  BY DEF TypeOK
<1>2. (ui.done \/ class = "closed") \in BOOLEAN
  OBVIOUS
<1> QED
  BY <1>1, <1>2 DEF Shown, UiState

StreamState == [pc : {"none", "reading", "read", "on", "ended"}, class : Class]

\* The end of a stream that moves on leaves the others as they are.
LEMMA StreamMoves ==
    ASSUME stream \in [Deployments -> StreamState], NEW d \in Deployments,
           NEW pc \in {"none", "reading", "read", "on", "ended"},
           stream' = [stream EXCEPT ![d].pc = pc]
    PROVE  /\ stream' \in [Deployments -> StreamState]
           /\ stream'[d].pc = pc /\ stream'[d].class = stream[d].class
           /\ \A e \in Deployments : e # d => stream'[e] = stream[e]
<1> DEFINE v == [stream[d] EXCEPT !.pc = pc]
<1>1. v \in StreamState /\ v.pc = pc /\ v.class = stream[d].class
  BY DEF StreamState
<1>2. stream' = [stream EXCEPT ![d] = v]
  OBVIOUS
<1> HIDE DEF v
<1> QED
  BY <1>1, <1>2

\* A row that is made leaves the others as they are.
LEMMA RowMade ==
    ASSUME TypeOK, NEW d \in Deployments, row' = [row EXCEPT ![d].class = "open"]
    PROVE  /\ row' \in [Deployments -> [class : Class \cup {"none"}, writes : Nat]]
           /\ row'[d].class = "open"
           /\ \A e \in Deployments : e # d => row'[e] = row[e]
<1> DEFINE v == [row[d] EXCEPT !.class = "open"]
<1>1. row \in [Deployments -> [class : Class \cup {"none"}, writes : Nat]]
  BY DEF TypeOK
<1>2. v \in [class : Class \cup {"none"}, writes : Nat] /\ v.class = "open"
  BY <1>1 DEF Class
<1>3. row' = [row EXCEPT ![d] = v]
  OBVIOUS
<1> HIDE DEF v
<1> QED
  BY <1>1, <1>2, <1>3

\* What Send appends to frames without a "done" ends with it, if it has one at all.
LEMMA SendFrames ==
    ASSUME frames \in [Deployments -> Seq(Frame)], NEW d \in Deployments, NEW class \in Class,
           Send(d, class), \A i \in 1..Len(frames[d]) : frames[d][i].type # "done"
    PROVE  /\ frames' \in [Deployments -> Seq(Frame)]
           /\ \A e \in Deployments : e # d => frames'[e] = frames[e]
           /\ \A i \in 1..Len(frames'[d]) :
                 frames'[d][i].type = "done" => i = Len(frames'[d]) /\ class = "closed"
<1> DEFINE status == [type |-> "status", class |-> class]
           done == [type |-> "done", class |-> class]
           s == frames[d]
<1>1. s \in Seq(Frame) /\ status \in Frame /\ done \in Frame
  BY DEF Frame
<1>2. Told(class) = IF class = "closed" THEN <<status, done>> ELSE <<status>>
  BY DEF Told
<1>0. CASE source[d] # "open"
  BY <1>0 DEF Send
<1> SUFFICES ASSUME source[d] = "open"
             PROVE  /\ frames' \in [Deployments -> Seq(Frame)]
                    /\ \A e \in Deployments : e # d => frames'[e] = frames[e]
                    /\ \A i \in 1..Len(frames'[d]) :
                          frames'[d][i].type = "done" => i = Len(frames'[d]) /\ class = "closed"
  BY <1>0
<1>3. /\ frames'[d] = s \o Told(class)
      /\ \A e \in Deployments : e # d => frames'[e] = frames[e]
  BY DEF Send
<1>4. Told(class) \in Seq(Frame)
  BY <1>1, <1>2
<1>5. frames' \in [Deployments -> Seq(Frame)]
  <2>1. s \o Told(class) \in Seq(Frame)
    BY <1>1, <1>4
  <2> QED
    BY <2>1 DEF Send
<1>6. CASE class = "closed"
  <2>1. frames'[d] = s \o <<status, done>>
    BY <1>2, <1>3, <1>6
  <2>2. /\ Len(frames'[d]) = Len(s) + 2
        /\ \A i \in 1..Len(s) : frames'[d][i] = s[i]
        /\ frames'[d][Len(s) + 1] = status
    BY <1>1, <2>1
  <2> QED
    BY <1>1, <1>3, <1>5, <1>6, <2>2
<1>7. CASE class # "closed"
  <2>1. frames'[d] = s \o <<status>>
    BY <1>2, <1>3, <1>7
  <2>2. /\ Len(frames'[d]) = Len(s) + 1
        /\ \A i \in 1..Len(s) : frames'[d][i] = s[i]
        /\ frames'[d][Len(s) + 1] = status
    BY <1>1, <2>1
  <2> QED
    BY <1>1, <1>3, <1>5, <2>2
<1> QED
  BY <1>6, <1>7

\* Taking the first frame off leaves a "done" the last.
LEMMA TailFrames ==
    ASSUME NEW s \in Seq(Frame), s # <<>>,
           \A i \in 1..Len(s) : s[i].type = "done" => i = Len(s)
    PROVE  /\ Tail(s) \in Seq(Frame) /\ Head(s) \in Frame
           /\ \A i \in 1..Len(Tail(s)) :
                 /\ i + 1 \in 1..Len(s) /\ Tail(s)[i] = s[i + 1]
                 /\ Tail(s)[i].type = "done" => i = Len(Tail(s))
<1>1. /\ Tail(s) \in Seq(Frame) /\ Head(s) \in Frame /\ Len(Tail(s)) = Len(s) - 1
      /\ Len(s) \in Nat
      /\ \A i \in 1..Len(Tail(s)) : Tail(s)[i] = s[i + 1]
  OBVIOUS
<1>2. ASSUME NEW i \in 1..Len(Tail(s))
      PROVE  i + 1 \in 1..Len(s) /\ (i + 1 = Len(s) => i = Len(Tail(s)))
  <2> DEFINE n == Len(s)
             k == Len(Tail(s))
  <2>1. n \in Nat /\ k = n - 1 /\ i \in 1..k
    BY <1>1, <1>2
  <2> HIDE DEF n, k
  <2>2. i + 1 \in 1..n /\ (i + 1 = n => i = k)
    BY <2>1
  <2> QED
    BY <2>2 DEF n, k
<1> QED
  BY <1>1, <1>2

-----------------------------------------------------------------------------
(***************************************************************************)
(* The step.                                                               *)
(***************************************************************************)

LEMMA IInvInitially == Init => IInv
<1> SUFFICES ASSUME Init PROVE IInv
  OBVIOUS
<1>1. \A d \in Deployments : frames[d] = <<>> /\ Len(frames[d]) = 0
  BY DEF Init
<1>2. DoneEndsTheStream
  BY <1>1 DEF DoneEndsTheStream
<1>3. frames \in [Deployments -> Seq(Frame)]
  BY DEF Init
<1>4. ui \in UiState
  BY DEF Init, UiState, Optional, Class
<1>5. TypeOK
  BY <1>3, <1>4, BoundAssumption DEF Init, TypeOK, NoPoll, Optional, Class
<1>6. OfRows
  BY DEF Init, OfRows, NoPoll
<1> QED
  BY <1>2, <1>5, <1>6 DEF IInv

\* Where neither frames nor streams change, a "done" stays the end.
LEMMA DoneKept ==
    ASSUME DoneEndsTheStream, UNCHANGED frames,
           \A d \in Deployments : stream[d].pc = "ended" => stream'[d].pc = "ended"
    PROVE  DoneEndsTheStream'
BY DEF DoneEndsTheStream

LEMMA IInvStep == IInv /\ [Next]_vars => IInv'
<1> SUFFICES ASSUME IInv, [Next]_vars PROVE IInv'
  OBVIOUS
<1>1. TypeOK /\ OfRows /\ DoneEndsTheStream /\ ui \in UiState
  BY DEF IInv, TypeOK
<1>0. stream \in [Deployments -> StreamState]
  BY <1>1 DEF TypeOK, StreamState
<1>2. ASSUME NEW d \in Deployments, NEW class \in Class, Update(d, class) PROVE IInv'
  <2> DEFINE w == row[d].writes + 1
  <2>1. w \in Nat
    BY <1>1 DEF TypeOK
  <2>2. row' = [row EXCEPT ![d] = [class |-> class, writes |-> w]]
    BY <1>1, <1>2 DEF Update, TypeOK
  <2>3. row' \in [Deployments -> [class : Class \cup {"none"}, writes : Nat]]
    <3> HIDE DEF w
    <3> QED
      BY <1>1, <2>1, <2>2 DEF TypeOK
  <2>4. unsaid' \subseteq [of : Deployments, class : Class, write : Nat]
    BY <1>1, <1>2, <2>1 DEF Update, TypeOK
  <2>5. \A e \in Deployments : row[e].class # "none" => row'[e].class # "none"
    BY <1>1, <2>2 DEF TypeOK, Class
  <2>6. OfRows'
    BY <1>1, <1>2, <2>5 DEF Update, OfRows, TypeOK, Optional
  <2>7. DoneEndsTheStream'
    BY <1>1, <1>2, DoneKept DEF Update
  <2> QED
    BY <1>1, <1>2, <2>3, <2>4, <2>6, <2>7 DEF Update, IInv, TypeOK
<1>3. ASSUME NEW d \in Deployments, stream[d].pc # "ended"
      PROVE  \A i \in 1..Len(frames[d]) : frames[d][i].type # "done"
  BY <1>1, <1>3 DEF DoneEndsTheStream
<1>4. ASSUME NEW d \in Deployments, NEW class \in Class, stream[d].pc # "ended", Send(d, class),
             class = "closed" => stream'[d].pc = "ended",
             \A e \in Deployments : e # d => stream'[e] = stream[e]
      PROVE  DoneEndsTheStream' /\ frames' \in [Deployments -> Seq(Frame)]
  <2>1. /\ frames' \in [Deployments -> Seq(Frame)]
        /\ \A e \in Deployments : e # d => frames'[e] = frames[e]
        /\ \A i \in 1..Len(frames'[d]) :
              frames'[d][i].type = "done" => i = Len(frames'[d]) /\ class = "closed"
    BY <1>1, <1>3, <1>4, SendFrames DEF TypeOK
  <2>2. ASSUME NEW e \in Deployments, NEW i \in 1..Len(frames'[e]), frames'[e][i].type = "done"
        PROVE  i = Len(frames'[e]) /\ stream'[e].pc = "ended"
    <3>1. CASE e = d
      BY <1>4, <2>1, <2>2, <3>1
    <3>2. CASE e # d
      BY <1>1, <1>4, <2>1, <2>2, <3>2 DEF DoneEndsTheStream
    <3> QED
      BY <3>1, <3>2
  <2> QED
    BY <2>1, <2>2 DEF DoneEndsTheStream
<1>5. ASSUME NEW u \in unsaid, Publish(u) PROVE IInv'
  <2>1. u.of \in Deployments /\ u.class \in Class
    BY <1>1 DEF TypeOK
  <2>2. unsaid' \subseteq [of : Deployments, class : Class, write : Nat]
    BY <1>1, <1>5 DEF Publish, TypeOK
  <2>4. /\ stream' \in [Deployments -> StreamState]
        /\ \A e \in Deployments : stream'[e].pc # "none" => stream[e].pc # "none"
        /\ \A e \in Deployments : e # u.of => stream'[e] = stream[e]
        /\ stream[u.of].pc = "on" /\ u.class = "closed" => stream'[u.of].pc = "ended"
    <3>1. CASE stream[u.of].pc = "on" /\ u.class = "closed"
      <4>1. stream' = [stream EXCEPT ![u.of].pc = "ended"]
        BY <1>5, <3>1 DEF Publish
      <4> QED
        BY <1>0, <2>1, <3>1, <4>1, StreamMoves
    <3>2. CASE ~(stream[u.of].pc = "on" /\ u.class = "closed")
      <4>1. stream' = stream
        BY <1>5, <3>2 DEF Publish
      <4> QED
        BY <1>0, <3>2, <4>1
    <3> QED
      BY <3>1, <3>2
  <2>5. DoneEndsTheStream' /\ frames' \in [Deployments -> Seq(Frame)]
    <3>1. CASE stream[u.of].pc = "on"
      BY <1>4, <1>5, <2>1, <2>4, <3>1 DEF Publish
    <3>2. CASE stream[u.of].pc # "on"
      BY <1>1, <1>5, <3>2, DoneKept DEF Publish, TypeOK
    <3> QED
      BY <3>1, <3>2
  <2>6. OfRows'
    BY <1>1, <1>5, <2>4 DEF Publish, OfRows
  <2> QED
    BY <1>1, <1>5, <2>2, <2>4, <2>5, <2>6 DEF Publish, IInv, TypeOK, StreamState
<1>6. ASSUME NEW d \in Deployments, StreamRead(d) PROVE IInv'
  <2>1. row[d].class \in Class
    BY <1>1, <1>6 DEF StreamRead, OfRows, TypeOK
  <2>2. stream' \in [Deployments -> StreamState]
    BY <1>1, <1>6, <2>1 DEF StreamRead, TypeOK, StreamState
  <2>3. DoneEndsTheStream'
    BY <1>1, <1>6, DoneKept DEF StreamRead, TypeOK
  <2>4. OfRows'
    BY <1>1, <1>6 DEF StreamRead, OfRows, TypeOK
  <2> QED
    BY <1>1, <1>6, <2>2, <2>3, <2>4 DEF StreamRead, IInv, TypeOK, StreamState
<1>7. ASSUME NEW d \in Deployments, StreamSubscribe(d) PROVE IInv'
  <2>1. stream[d].class \in Class /\ stream[d].pc = "read" /\ Send(d, stream[d].class)
    BY <1>1, <1>7 DEF StreamSubscribe, TypeOK
  <2>2. /\ stream' \in [Deployments -> StreamState]
        /\ \A e \in Deployments : e # d => stream'[e] = stream[e]
        /\ stream[d].class = "closed" => stream'[d].pc = "ended"
    <3> DEFINE v == [pc |-> IF stream[d].class = "closed" THEN "ended" ELSE "on", class |-> "open"]
    <3>1. stream' = [stream EXCEPT ![d] = v]
      BY <1>0, <1>7 DEF StreamSubscribe
    <3>2. v \in StreamState /\ (stream[d].class = "closed" => v.pc = "ended")
      BY DEF StreamState, Class
    <3> HIDE DEF v
    <3> QED
      BY <1>0, <3>1, <3>2
  <2>3. DoneEndsTheStream' /\ frames' \in [Deployments -> Seq(Frame)]
    BY <1>4, <2>1, <2>2
  <2>4. OfRows'
    BY <1>1, <1>7, <2>1, <2>2 DEF StreamSubscribe, OfRows
  <2> QED
    BY <1>1, <1>7, <2>2, <2>3, <2>4 DEF StreamSubscribe, IInv, TypeOK, StreamState
<1>8. ASSUME NEW d \in Deployments, ClientGone(d) PROVE IInv'
  <2>1. stream' \in [Deployments -> StreamState]
    BY <1>1, <1>8 DEF ClientGone, TypeOK, StreamState
  <2>2. DoneEndsTheStream'
    BY <1>1, <1>8, DoneKept DEF ClientGone, TypeOK
  <2>3. OfRows'
    BY <1>1, <1>8 DEF ClientGone, OfRows, TypeOK
  <2> QED
    BY <1>1, <1>8, <2>1, <2>2, <2>3 DEF ClientGone, IInv, TypeOK, StreamState
<1>9. ASSUME NEW u \in UiState, Render(u), u.following = ui.following,
             \A d \in Deployments : row[d].class # "none" => row'[d].class # "none",
             row' \in [Deployments -> [class : Class \cup {"none"}, writes : Nat]],
             UNCHANGED <<unsaid, stream>>,
             \A p \in Polls : poll'[p] = poll[p] \/ poll'[p].pc = "idle"
      PROVE  /\ OfRows'
             /\ ui' \in UiState
             /\ source' \in [Deployments -> {"none", "open", "closed"}]
             /\ heard' \subseteq Deployments
  <2>1. /\ ui' \in UiState
        /\ source' \in [Deployments -> {"none", "open", "closed"}]
        /\ heard' \subseteq Deployments
        /\ ui'.following \in {None, u.following}
    BY <1>1, <1>9, RenderTypes
  <2>2. ui.following \in Optional
    BY <1>1 DEF UiState
  <2>3. OfRows'
    BY <1>1, <1>9, <2>1, <2>2 DEF OfRows, Optional
  <2> QED
    BY <2>1, <2>3
<1>10. ASSUME NEW d \in Deployments, Click(d) PROVE IInv'
  <2> DEFINE u == [ui EXCEPT !.acting = d, !.busy = TRUE, !.posting = @ \cup {d}]
  <2>1. u \in UiState /\ u.following = ui.following
    BY <1>1 DEF UiState, Optional
  <2>2. /\ OfRows' /\ ui' \in UiState
        /\ source' \in [Deployments -> {"none", "open", "closed"}]
        /\ heard' \subseteq Deployments
    BY <1>1, <1>9, <1>10, <2>1 DEF Click, TypeOK
  <2>3. DoneEndsTheStream'
    BY <1>1, <1>10, DoneKept DEF Click
  <2> QED
    BY <1>1, <1>10, <2>2, <2>3 DEF Click, IInv, TypeOK
<1>11. ASSUME NEW d \in Deployments, Follow(d) PROVE IInv'
  <2>1. row[d].class = "none" /\ stream[d].pc = "none"
    BY <1>1, <1>11 DEF Follow, OfRows
  <2>2. /\ row' \in [Deployments -> [class : Class \cup {"none"}, writes : Nat]]
        /\ row'[d].class = "open"
        /\ \A e \in Deployments : e # d => row'[e] = row[e]
    BY <1>1, <1>11, RowMade DEF Follow
  <2>3. ui' \in UiState /\ ui'.following = d
    BY <1>1, <1>11 DEF Follow, UiState, Optional
  <2>4. /\ stream' \in [Deployments -> StreamState]
        /\ \A e \in Deployments : e # d => stream'[e] = stream[e]
    BY <1>11, <1>0, StreamMoves DEF Follow
  <2>5. source' \in [Deployments -> {"none", "open", "closed"}]
    BY <1>1, <1>11 DEF Follow, TypeOK
  <2>6. OfRows'
    BY <1>1, <1>11, <2>1, <2>2, <2>3, <2>4 DEF Follow, OfRows
  <2>7. DoneEndsTheStream'
    BY <1>1, <1>11, <2>1, <2>4, DoneKept DEF Follow
  <2> QED
    BY <1>1, <1>11, <2>2, <2>3, <2>4, <2>5, <2>6, <2>7 DEF Follow, IInv, TypeOK, StreamState
<1>12. ASSUME NEW d \in Deployments, StartFails(d) PROVE IInv'
  <2> DEFINE u == [ui EXCEPT !.acting = None, !.busy = FALSE, !.posting = @ \ {d}]
  <2>1. u \in UiState /\ u.following = ui.following
    BY <1>1 DEF UiState, Optional
  <2>3. /\ OfRows' /\ ui' \in UiState
        /\ source' \in [Deployments -> {"none", "open", "closed"}]
        /\ heard' \subseteq Deployments
    BY <1>1, <1>9, <1>12, <2>1 DEF StartFails, TypeOK
  <2>4. DoneEndsTheStream'
    BY <1>1, <1>12, DoneKept DEF StartFails
  <2> QED
    BY <1>1, <1>12, <2>3, <2>4 DEF StartFails, IInv, TypeOK
<1>22. ASSUME AskApproval PROVE IInv'
  <2> DEFINE u == [ui EXCEPT !.busy = FALSE, !.asked = TRUE]
  <2>1. u \in UiState /\ u.following = ui.following
    BY <1>1 DEF UiState
  <2>2. /\ OfRows' /\ ui' \in UiState
        /\ source' \in [Deployments -> {"none", "open", "closed"}]
        /\ heard' \subseteq Deployments
    BY <1>1, <1>9, <1>22, <2>1 DEF AskApproval, TypeOK
  <2>3. DoneEndsTheStream'
    BY <1>1, <1>22, DoneKept DEF AskApproval
  <2> QED
    BY <1>1, <1>22, <2>2, <2>3 DEF AskApproval, IInv, TypeOK
<1>13. ASSUME NEW d \in Deployments, Receive(d) PROVE IInv'
  <2> DEFINE s == frames[d]
  <2>1. s \in Seq(Frame) /\ s # <<>> /\ frames' = [frames EXCEPT ![d] = Tail(s)]
    BY <1>1, <1>13 DEF Receive, TypeOK
  <2>2. /\ Tail(s) \in Seq(Frame) /\ Head(s) \in Frame
        /\ \A i \in 1..Len(Tail(s)) :
              /\ i + 1 \in 1..Len(s) /\ Tail(s)[i] = s[i + 1]
              /\ Tail(s)[i].type = "done" => i = Len(Tail(s))
    BY <1>1, <2>1, TailFrames DEF DoneEndsTheStream
  <2>3. Shown(d, Head(s).class) \in UiState /\ Shown(d, Head(s).class).following = ui.following
    BY <1>1, <2>2, ShownTypes DEF Frame, Optional
  <2>4. /\ OfRows' /\ ui' \in UiState
        /\ source' \in [Deployments -> {"none", "open", "closed"}]
        /\ heard' \subseteq Deployments
    BY <1>1, <1>9, <1>13, <2>3 DEF Receive, TypeOK
  <2>5. frames' \in [Deployments -> Seq(Frame)]
    BY <1>1, <2>1, <2>2 DEF TypeOK
  <2>6. ASSUME NEW e \in Deployments, NEW i \in 1..Len(frames'[e]), frames'[e][i].type = "done"
        PROVE  i = Len(frames'[e]) /\ stream'[e].pc = "ended"
    <3>1. stream' = stream
      BY <1>13 DEF Receive
    <3>2. CASE e = d
      <4>1. frames'[e] = Tail(s)
        BY <1>1, <2>1, <3>2 DEF TypeOK
      <4>2. i + 1 \in 1..Len(s) /\ s[i + 1].type = "done" /\ i = Len(Tail(s))
        BY <2>2, <2>6, <4>1
      <4> QED
        BY <1>1, <3>1, <3>2, <4>1, <4>2 DEF DoneEndsTheStream
    <3>3. CASE e # d
      <4>1. frames'[e] = frames[e]
        BY <1>1, <2>1, <3>3 DEF TypeOK
      <4> QED
        BY <1>1, <2>6, <3>1, <4>1 DEF DoneEndsTheStream
    <3> QED
      BY <3>2, <3>3
  <2>7. DoneEndsTheStream'
    BY <2>6 DEF DoneEndsTheStream
  <2> QED
    BY <1>1, <1>13, <2>4, <2>5, <2>7 DEF Receive, IInv, TypeOK
<1>14. ASSUME NEW d \in Deployments, SourceFails(d) PROVE IInv'
  <2>1. source' \in [Deployments -> {"none", "open", "closed"}]
    BY <1>1, <1>14 DEF SourceFails, TypeOK
  <2>2. OfRows'
    BY <1>1, <1>14 DEF SourceFails, OfRows
  <2>3. /\ frames' \in [Deployments -> Seq(Frame)]
        /\ \A e \in Deployments : frames'[e] = frames[e] \/ Len(frames'[e]) = 0
    BY <1>1, <1>14 DEF SourceFails, TypeOK
  <2>4. DoneEndsTheStream'
    BY <1>1, <1>14, <2>3 DEF SourceFails, DoneEndsTheStream
  <2> QED
    BY <1>1, <1>14, <2>1, <2>2, <2>3, <2>4 DEF SourceFails, IInv, TypeOK
<1>15. ASSUME NEW p \in Polls, NEW q \in [pc : {"idle", "sent", "answered"}, of : Optional, class : Class],
              poll' = [poll EXCEPT ![p] = q],
              q.pc = "sent" => q.of \in Deployments /\ row[q.of].class # "none",
              UNCHANGED <<row, unsaid, stream, frames, source, ui, heard>>
       PROVE  IInv'
  <2>1. OfRows'
    BY <1>1, <1>15 DEF OfRows, TypeOK
  <2>2. DoneEndsTheStream'
    BY <1>1, <1>15, DoneKept
  <2> QED
    BY <1>1, <1>15, <2>1, <2>2 DEF IInv, TypeOK
<1>16. ASSUME NEW p \in Polls, PollSend(p) PROVE IInv'
  <2> DEFINE q == [NoPoll EXCEPT !.pc = "sent", !.of = ui.following]
  <2>1. ui.following \in Deployments /\ row[ui.following].class # "none"
    BY <1>1, <1>16 DEF PollSend, OfRows, UiState, Optional
  <2>2. /\ q \in [pc : {"idle", "sent", "answered"}, of : Optional, class : Class]
        /\ q.of = ui.following
    BY <2>1 DEF NoPoll, Optional, Class
  <2> HIDE DEF q
  <2>3. poll' = [poll EXCEPT ![p] = q]
    BY <1>16 DEF PollSend, q
  <2> QED
    BY <1>15, <1>16, <2>1, <2>2, <2>3 DEF PollSend
<1>17. ASSUME NEW p \in Polls, PollServe(p) PROVE IInv'
  <2> DEFINE q == [poll[p] EXCEPT !.pc = "answered", !.class = row[poll[p].of].class]
  <2>1. row[poll[p].of].class \in Class
    BY <1>1, <1>17 DEF PollServe, OfRows, TypeOK
  <2>2. /\ q \in [pc : {"idle", "sent", "answered"}, of : Optional, class : Class]
        /\ q.pc = "answered"
    BY <1>1, <2>1 DEF TypeOK
  <2> HIDE DEF q
  <2>3. poll' = [poll EXCEPT ![p] = q]
    BY <1>1, <1>17 DEF PollServe, TypeOK, q
  <2> QED
    BY <1>15, <1>17, <2>2, <2>3 DEF PollServe
<1>18. NoPoll \in [pc : {"idle", "sent", "answered"}, of : Optional, class : Class] /\ NoPoll.pc = "idle"
  BY DEF NoPoll, Optional, Class
<1>19. ASSUME NEW p \in Polls, PollReceive(p) PROVE IInv'
  <2>1. poll[p].of \in Optional /\ poll[p].class \in Class
    BY <1>1 DEF TypeOK
  <2>2. /\ Shown(poll[p].of, poll[p].class) \in UiState
        /\ Shown(poll[p].of, poll[p].class).following = ui.following
    BY <1>1, <2>1, ShownTypes
  <2>3. /\ poll' \in [Polls -> [pc : {"idle", "sent", "answered"}, of : Optional, class : Class]]
        /\ \A q \in Polls : poll'[q] = poll[q] \/ poll'[q].pc = "idle"
    BY <1>1, <1>18, <1>19 DEF PollReceive, TypeOK
  <2>4. /\ OfRows' /\ ui' \in UiState
        /\ source' \in [Deployments -> {"none", "open", "closed"}]
        /\ heard' \subseteq Deployments
    BY <1>1, <1>9, <1>19, <2>2, <2>3 DEF PollReceive, TypeOK
  <2>5. DoneEndsTheStream'
    BY <1>1, <1>19, DoneKept DEF PollReceive
  <2> QED
    BY <1>1, <1>19, <2>3, <2>4, <2>5 DEF PollReceive, IInv, TypeOK
<1>20. ASSUME NEW p \in Polls, PollFails(p) PROVE IInv'
  BY <1>15, <1>18, <1>20 DEF PollFails
<1>21. CASE UNCHANGED vars
  <2>1. OfRows' /\ DoneEndsTheStream'
    BY <1>1, <1>21, DoneKept DEF vars, OfRows
  <2> QED
    BY <1>1, <1>21, <2>1 DEF vars, IInv, TypeOK
<1> QED
  BY <1>2, <1>5, <1>6, <1>7, <1>8, <1>10, <1>11, <1>12, <1>13, <1>14, <1>16, <1>17, <1>19, <1>20,
     <1>21, <1>22 DEF Next

LEMMA IInvAlways == Spec => []IInv
BY IInvInitially, IInvStep, PTL DEF Spec

\* TypeOK of DeployStream, for any number of deployments, polls and writes.
THEOREM TypeCorrect == Spec => []TypeOK
<1>1. IInv => TypeOK
  BY DEF IInv
<1> QED
  BY IInvAlways, <1>1, PTL

\* DoneEndsTheStream: however the events of updateStatus cross, streamDeployment has left
\* the bus when it sends "done", and sends nothing after it.
THEOREM DoneEnds == Spec => []DoneEndsTheStream
<1>1. IInv => DoneEndsTheStream
  BY DEF IInv
<1> QED
  BY IInvAlways, <1>1, PTL

-----------------------------------------------------------------------------
(***************************************************************************)
(* The configuration: lists of steps.                                      *)
(***************************************************************************)

PlanStep == StepNames \X Env

\* The steps that send variables to Coolify, and those that leave a request with
\* variables the vault of the environment has held.
Sends == {"pushKeys", "onlySecret"}
Feeds == {"loadVault", "storeCopied", "onlySecret"}

Fed(s, n) ==
    \/ n > 1 /\ s[n - 1][1] \in Feeds /\ s[n - 1][2] = s[n][2]
    \/ n > 2 /\ s[n - 1] = <<"locate", s[n][2]>> /\ s[n - 2] = <<"storeCopied", s[n][2]>>

\* What storeBox skips when there is nothing to save.
Skippable(s, n) ==
    n + 3 <= Len(s) /\ s[n + 1][1] = "locate" /\ s[n + 2][1] = "loadVault" /\ s[n + 3][1] = "pushKeys"

\* Steps that only the steps before them put on the list.
Inserted == {"upsert", "createApplication", "updateBranch", "pushBranch"}

\* A part of a request's list, of steps with names in A, that comes after the texts of the
\* environments in D have been stored and before the branches of those in L are compared,
\* and has the steps in H.
Part(s, A, D, L, H) ==
    /\ s \in Seq(PlanStep)
    /\ \A n \in 1..Len(s) :
         /\ s[n][1] \in A \ Inserted
         /\ s[n][1] \in Sends => Fed(s, n)
         /\ s[n][1] = "storeBox" => Skippable(s, n)
         /\ s[n][1] = "pushText" =>
              s[n][2] \in D \/ \E m \in 1..(n - 1) : s[m] = <<"storeText", s[n][2]>>
         /\ s[n][1] = "findTarget" =>
              s[n][2] \in L \/ \E m \in (n + 1)..Len(s) : s[m] = <<"compareBranch", s[n][2]>>
    /\ \A h \in H : \E n \in 1..Len(s) : s[n] = h

With(D, name, H) == D \cup {e \in Env : <<name, e>> \in H}

\* Both parts of a list.
LEMMA Joined ==
    ASSUME NEW s \in Seq(PlanStep), NEW t \in Seq(PlanStep)
    PROVE  /\ s \o t \in Seq(PlanStep)
           /\ Len(s \o t) = Len(s) + Len(t)
           /\ \A n \in 1..Len(s) : (s \o t)[n] = s[n]
           /\ \A n \in 1..Len(t) : (s \o t)[Len(s) + n] = t[n]
           /\ \A n \in 1..(Len(s) + Len(t)) : n <= Len(s) \/ n - Len(s) \in 1..Len(t)
  OBVIOUS

LEMMA PartsJoin ==
    ASSUME NEW A, NEW D, NEW L, NEW M, NEW E, NEW G, NEW H, NEW s, NEW t,
           Part(s, A, D, M, G), M \subseteq With(L, "compareBranch", H),
           Part(t, A, E, L, H), E \subseteq With(D, "storeText", G)
    PROVE  Part(s \o t, A, D, L, G \cup H)
<1> DEFINE u == s \o t
<1>1. s \in Seq(PlanStep) /\ t \in Seq(PlanStep)
  BY DEF Part
<1>2. /\ u \in Seq(PlanStep)
      /\ Len(u) = Len(s) + Len(t)
      /\ \A n \in 1..Len(s) : u[n] = s[n]
      /\ \A n \in 1..Len(t) : u[Len(s) + n] = t[n]
      /\ \A n \in 1..Len(u) : n <= Len(s) \/ n - Len(s) \in 1..Len(t)
  BY <1>1, Joined
<1>3. Len(s) \in Nat /\ Len(t) \in Nat
  BY <1>1
<1> HIDE DEF u
<1>4. ASSUME NEW n \in 1..Len(s)
      PROVE  /\ u[n][1] \in A \ Inserted
             /\ u[n][1] \in Sends => Fed(u, n)
             /\ u[n][1] = "storeBox" => Skippable(u, n)
             /\ u[n][1] = "pushText" =>
                  u[n][2] \in D \/ \E m \in 1..(n - 1) : u[m] = <<"storeText", u[n][2]>>
             /\ u[n][1] = "findTarget" =>
                  u[n][2] \in L \/ \E m \in (n + 1)..Len(u) : u[m] = <<"compareBranch", u[n][2]>>
  <2>1. u[n][1] \in A \ Inserted
    BY <1>2 DEF Part
  <2>2. ASSUME s[n][1] \in Sends PROVE Fed(u, n)
    <3>1. Fed(s, n)
      BY <2>2 DEF Part
    <3>2. n > 1 => u[n - 1] = s[n - 1]
      BY <1>2, <1>3
    <3>3. n > 2 => u[n - 2] = s[n - 2]
      BY <1>2, <1>3
    <3> QED
      BY <3>1, <3>2, <3>3, <1>2 DEF Fed
  <2>3. ASSUME s[n][1] = "storeBox" PROVE Skippable(u, n)
    <3>1. Skippable(s, n)
      BY <2>3 DEF Part
    <3>2. /\ n + 3 <= Len(u) /\ n + 3 \in 1..Len(s)
          /\ n + 1 \in 1..Len(s) /\ n + 2 \in 1..Len(s)
      BY <3>1, <1>2, <1>3 DEF Skippable
    <3>3. u[n + 1] = s[n + 1] /\ u[n + 2] = s[n + 2] /\ u[n + 3] = s[n + 3]
      BY <3>2, <1>2
    <3> QED
      BY <3>1, <3>2, <3>3 DEF Skippable
  <2>4. ASSUME s[n][1] = "pushText"
        PROVE  s[n][2] \in D \/ \E m \in 1..(n - 1) : u[m] = <<"storeText", s[n][2]>>
    <3>1. \A m \in 1..(n - 1) : u[m] = s[m]
      BY <1>2, <1>3
    <3> QED
      BY <2>4, <3>1 DEF Part
  <2>5. ASSUME s[n][1] = "findTarget"
        PROVE  s[n][2] \in L \/ \E m \in (n + 1)..Len(u) : u[m] = <<"compareBranch", s[n][2]>>
    <3>1. CASE \E m \in (n + 1)..Len(s) : s[m] = <<"compareBranch", s[n][2]>>
      BY <3>1, <1>2, <1>3
    <3>2. CASE <<"compareBranch", s[n][2]>> \in H
      <4>1. PICK m \in 1..Len(t) : t[m] = <<"compareBranch", s[n][2]>>
        BY <3>2 DEF Part
      <4>2. u[Len(s) + m] = t[m] /\ Len(s) + m \in (n + 1)..Len(u)
        BY <1>2, <1>3
      <4> QED
        BY <4>1, <4>2
    <3> QED
      BY <2>5, <3>1, <3>2 DEF Part, With
  <2> QED
    BY <2>1, <2>2, <2>3, <2>4, <2>5, <1>2
<1>5. ASSUME NEW k \in 1..Len(t), NEW n, n = Len(s) + k
      PROVE  /\ u[n][1] \in A \ Inserted
             /\ u[n][1] \in Sends => Fed(u, n)
             /\ u[n][1] = "storeBox" => Skippable(u, n)
             /\ u[n][1] = "pushText" =>
                  u[n][2] \in D \/ \E m \in 1..(n - 1) : u[m] = <<"storeText", u[n][2]>>
             /\ u[n][1] = "findTarget" =>
                  u[n][2] \in L \/ \E m \in (n + 1)..Len(u) : u[m] = <<"compareBranch", u[n][2]>>
  <2>0. u[n] = t[k] /\ n \in Nat
    BY <1>5, <1>2, <1>3
  <2>1. u[n][1] \in A \ Inserted
    BY <2>0 DEF Part
  <2>2. ASSUME t[k][1] \in Sends PROVE Fed(u, n)
    <3>1. Fed(t, k)
      BY <2>2 DEF Part
    <3>2. CASE k > 1 /\ t[k - 1][1] \in Feeds /\ t[k - 1][2] = t[k][2]
      <4>1. u[n - 1] = t[k - 1] /\ n > 1
        BY <3>2, <1>5, <1>2, <1>3
      <4> QED
        BY <4>1, <3>2, <2>0 DEF Fed
    <3>3. CASE k > 2 /\ t[k - 1] = <<"locate", t[k][2]>> /\ t[k - 2] = <<"storeCopied", t[k][2]>>
      <4>1. /\ n > 2 /\ k - 1 \in 1..Len(t) /\ k - 2 \in 1..Len(t)
            /\ Len(s) + (k - 1) = n - 1 /\ Len(s) + (k - 2) = n - 2
        BY <3>3, <1>5, <1>3
      <4>2. u[n - 1] = t[k - 1] /\ u[n - 2] = t[k - 2]
        BY <4>1, <1>2
      <4> QED
        BY <4>1, <4>2, <3>3, <2>0 DEF Fed
    <3> QED
      BY <3>1, <3>2, <3>3 DEF Fed
  <2>3. ASSUME t[k][1] = "storeBox" PROVE Skippable(u, n)
    <3>1. Skippable(t, k)
      BY <2>3 DEF Part
    <3>0. k + 3 <= Len(t)
      BY <3>1 DEF Skippable
    <3>2. /\ k + 1 \in 1..Len(t) /\ k + 2 \in 1..Len(t) /\ k + 3 \in 1..Len(t)
          /\ Len(s) + (k + 1) = n + 1 /\ Len(s) + (k + 2) = n + 2 /\ Len(s) + (k + 3) = n + 3
          /\ n + 3 <= Len(u)
      BY <3>0, <1>5, <1>2, <1>3
    <3>3. /\ u[Len(s) + (k + 1)] = t[k + 1] /\ u[Len(s) + (k + 2)] = t[k + 2]
          /\ u[Len(s) + (k + 3)] = t[k + 3]
      BY <3>2, <1>2
    <3>4. u[n + 1] = t[k + 1] /\ u[n + 2] = t[k + 2] /\ u[n + 3] = t[k + 3]
      BY <3>2, <3>3
    <3> QED
      BY <3>1, <3>2, <3>4 DEF Skippable
  <2>4. ASSUME t[k][1] = "pushText"
        PROVE  t[k][2] \in D \/ \E m \in 1..(n - 1) : u[m] = <<"storeText", t[k][2]>>
    <3>1. CASE \E m \in 1..(k - 1) : t[m] = <<"storeText", t[k][2]>>
      <4>1. PICK m \in 1..(k - 1) : t[m] = <<"storeText", t[k][2]>>
        BY <3>1
      <4>2. u[Len(s) + m] = t[m] /\ Len(s) + m \in 1..(n - 1)
        BY <1>5, <1>2, <1>3
      <4> QED
        BY <4>1, <4>2
    <3>2. CASE <<"storeText", t[k][2]>> \in G
      <4>1. PICK m \in 1..Len(s) : s[m] = <<"storeText", t[k][2]>>
        BY <3>2 DEF Part
      <4>2. u[m] = s[m] /\ m \in 1..(n - 1)
        BY <1>5, <1>2, <1>3
      <4> QED
        BY <4>1, <4>2
    <3> QED
      BY <2>4, <3>1, <3>2 DEF Part, With
  <2>5. ASSUME t[k][1] = "findTarget"
        PROVE  t[k][2] \in L \/ \E m \in (n + 1)..Len(u) : u[m] = <<"compareBranch", t[k][2]>>
    <3>1. CASE \E m \in (k + 1)..Len(t) : t[m] = <<"compareBranch", t[k][2]>>
      <4>1. PICK m \in (k + 1)..Len(t) : t[m] = <<"compareBranch", t[k][2]>>
        BY <3>1
      <4>2. u[Len(s) + m] = t[m] /\ Len(s) + m \in (n + 1)..Len(u)
        BY <1>5, <1>2, <1>3
      <4> QED
        BY <4>1, <4>2
    <3> QED
      BY <2>5, <3>1 DEF Part
  <2> QED
    BY <2>0, <2>1, <2>2, <2>3, <2>4, <2>5
<1>6. ASSUME NEW h \in G \cup H PROVE \E n \in 1..Len(u) : u[n] = h
  <2>1. CASE h \in G
    BY <2>1, <1>2, <1>3 DEF Part
  <2>2. CASE h \in H
    <3>1. PICK n \in 1..Len(t) : t[n] = h
      BY <2>2 DEF Part
    <3>2. u[Len(s) + n] = h /\ Len(s) + n \in 1..Len(u)
      BY <3>1, <1>2, <1>3
    <3> QED
      BY <3>2
  <2> QED
    BY <2>1, <2>2
<1>7. ASSUME NEW n \in 1..Len(u), n > Len(s) PROVE n - Len(s) \in 1..Len(t) /\ n = Len(s) + (n - Len(s))
  BY <1>7, <1>2, <1>3
<1>8. Part(u, A, D, L, G \cup H)
  <2>1. ASSUME NEW n \in 1..Len(u)
        PROVE  /\ u[n][1] \in A \ Inserted
               /\ u[n][1] \in Sends => Fed(u, n)
               /\ u[n][1] = "storeBox" => Skippable(u, n)
               /\ u[n][1] = "pushText" =>
                    u[n][2] \in D \/ \E m \in 1..(n - 1) : u[m] = <<"storeText", u[n][2]>>
               /\ u[n][1] = "findTarget" =>
                    u[n][2] \in L \/ \E m \in (n + 1)..Len(u) : u[m] = <<"compareBranch", u[n][2]>>
    <3>1. CASE n <= Len(s)
      <4>1. n \in 1..Len(s)
        BY <3>1, <1>3
      <4> QED
        BY <4>1, <1>4
    <3>2. CASE n > Len(s)
      BY <3>2, <1>7, <1>5
    <3> QED
      BY <3>1, <3>2, <1>2, <1>3
  <2> QED
    BY <2>1, <1>2, <1>6 DEF Part
<1> QED
  BY <1>8 DEF u

\* A part that is there on a condition.
LEMMA PartWhen ==
    ASSUME NEW A, NEW D, NEW L, NEW H, NEW p \in BOOLEAN, NEW s, p => Part(s, A, D, L, H)
    PROVE  Part(When(p, s), A, D, L, {h \in H : p})
<1>1. CASE p
  BY <1>1 DEF When, Part
<1>2. CASE ~p
  BY <1>2 DEF When, Part
<1> QED
  BY <1>1, <1>2

-----------------------------------------------------------------------------
(***************************************************************************)
(* The lists requests begin with.                                          *)
(***************************************************************************)

Kinds == {"patch", "save", "provision", "setVars", "pushVars", "mirror", "jwt", "deploy", "boxes"}

Barred(kind) ==
    IF kind = "patch" THEN {"create", "writeOutcome", "build", "patchTarget", "storeBox",
                            "resolveApp", "findTarget", "upsert", "createApplication"}
    ELSE IF kind = "save" THEN {"create", "writeOutcome", "build", "storeBox", "resolveApp"}
    ELSE IF kind = "deploy" THEN {} ELSE {"build"}

Allowed(kind) == StepNames \ Barred(kind)

\* What the lemmas need of a request's input.
Asked(i) ==
    /\ i.kind \in Kinds /\ i.env \in Env /\ i.key \in SharedKeys
    /\ i.branches \in BranchInput
    /\ i.texts \in [Env -> Texts \cup {NoText}]
    /\ i.production \in BOOLEAN /\ i.merge \in BOOLEAN /\ i.push \in BOOLEAN

LEMMA BlankAsked == Asked(Blank)
  BY DEF Asked, Blank, Kinds, Env, SharedKeys, BranchInput

LEMMA InputsAsked == \A i \in Inputs : Asked(i)
<1> DEFINE
      S1 == {[Blank EXCEPT !.branches = b] : b \in BranchInputs}
      S2 == {WizardInput(k, b, t, p) :
               k \in {"save", "provision"}, b \in BranchInputs, t \in TextInputs, p \in BOOLEAN}
      S3 == {VarsInput(e, t, m, p) : e \in Env, t \in Texts, m \in BOOLEAN, p \in BOOLEAN}
      S4 == {[Blank EXCEPT !.kind = "mirror", !.key = k] : k \in SharedKeys}
      S5 == {EnvInput(k, e) : k \in {"pushVars", "jwt", "deploy", "boxes"}, e \in Env}
<1>1. \A i \in S1 : Asked(i)
  BY ConfigAssumption, BlankAsked DEF Asked, Blank
<1>2. \A i \in S2 : Asked(i)
  <2>1. \A k \in {"save", "provision"}, b \in BranchInputs, t \in TextInputs, p \in BOOLEAN :
            Asked(WizardInput(k, b, t, p))
    BY ConfigAssumption, BlankAsked DEF Asked, Blank, Kinds, WizardInput
  <2> QED
    BY <2>1
<1>3. \A i \in S3 : Asked(i)
  <2>1. ASSUME NEW e \in Env, NEW t \in Texts, NEW m \in BOOLEAN, NEW p \in BOOLEAN
        PROVE  Asked(VarsInput(e, t, m, p))
    <3>1. [Blank.texts EXCEPT ![e] = t] \in [Env -> Texts \cup {NoText}]
      BY DEF Blank
    <3> QED
      BY <3>1, BlankAsked DEF Asked, Blank, Kinds, VarsInput
  <2> QED
    BY <2>1
<1>4. \A i \in S4 : Asked(i)
  BY BlankAsked DEF Asked, Blank, Kinds
<1>5. \A i \in S5 : Asked(i)
  <2>1. \A k \in {"pushVars", "jwt", "deploy", "boxes"}, e \in Env : Asked(EnvInput(k, e))
    BY BlankAsked DEF Asked, Blank, Kinds, EnvInput
  <2> QED
    BY <2>1
<1>6. Inputs = S1 \cup S2 \cup S3 \cup S4 \cup S5
  BY DEF Inputs
<1> HIDE DEF S1, S2, S3, S4, S5
<1> QED
  BY <1>1, <1>2, <1>3, <1>4, <1>5, <1>6

LEMMA SyncPart ==
    ASSUME NEW e \in Env, NEW D, NEW L
    PROVE  Part(SyncServiceEnvironment(e), StepNames \ {"build"}, D, L, {})
  BY DEF Part, SyncServiceEnvironment, PlanStep, StepNames, Inserted, Sends, Fed, Feeds

LEMMA PatchPart ==
    Part(UpdateService, Allowed("patch"), {}, {},
         {<<"writeConfig", "staging">>, <<"compareBranch", "staging">>, <<"compareBranch", "production">>})
  BY DEF Part, UpdateService, PlanStep, StepNames, Allowed, Barred, Inserted, Sends, Env

LEMMA MirrorPart == Part(MirrorKey, Allowed("mirror"), {}, {}, {})
  BY DEF Part, MirrorKey, PlanStep, StepNames, Allowed, Barred, Inserted, Sends, Fed, Feeds, Env

LEMMA JwtPart ==
    ASSUME NEW e \in Env
    PROVE  Part(EnsureJwtSigningSecret(e), Allowed("jwt"), {}, {}, {})
  BY DEF Part, EnsureJwtSigningSecret, PlanStep, StepNames, Allowed, Barred, Inserted, Sends, Fed, Feeds, Env

\* One step in a list of its own, or two.
LEMMA FindPart ==
    ASSUME NEW e \in Env, NEW A, NEW D, NEW L, e \in L, {"patchTarget", "findTarget"} \subseteq A
    PROVE  Part(<< <<"patchTarget", e>>, <<"findTarget", e>> >>, A, D, L, {})
  BY DEF Part, PlanStep, StepNames, Inserted, Sends

LEMMA TextPart ==
    ASSUME NEW e \in Env, NEW A, NEW D, NEW L, {"storeText", "pushText"} \subseteq A
    PROVE  Part(<< <<"storeText", e>>, <<"pushText", e>> >>, A, D, L, {})
  BY DEF Part, PlanStep, StepNames, Inserted, Sends

LEMMA StepPart ==
    ASSUME NEW e \in Env, NEW name \in StepNames, NEW A, NEW D, NEW L,
           name \in A, name \notin Inserted, name \notin Sends, name # "storeBox",
           name = "pushText" => e \in D, name = "findTarget" => e \in L
    PROVE  Part(<< <<name, e>> >>, A, D, L, {<<name, e>>})
  BY DEF Part, PlanStep

LEMMA SavePart ==
    ASSUME NEW i, Asked(i), i.kind = "save"
    PROVE  Part(UpdateDeployment(i), Allowed("save"), {}, {}, {<<"writeConfig", "staging">>})
<1> DEFINE A == Allowed("save")
           P == i.production
           M == {e \in {"production"} : P}
           E == {"staging"} \cup M
           s0 == << <<"readColumn", "staging">>, <<"writeConfig", "staging">>,
                    <<"patchTarget", "staging">>, <<"findTarget", "staging">> >>
           t1 == When(P, << <<"patchTarget", "production">>, <<"findTarget", "production">> >>)
           t2 == When(i.texts["staging"] # NoText, << <<"storeText", "staging">>, <<"pushText", "staging">> >>)
           t3 == When(P /\ i.texts["production"] # NoText,
                      << <<"storeText", "production">>, <<"pushText", "production">> >>)
           t4 == << <<"compareBranch", "staging">> >>
           t5 == When(P, << <<"compareBranch", "production">> >>)
           W == {<<"writeConfig", "staging">>}
<1>0. P \in BOOLEAN
  BY DEF Asked
<1>1. Part(s0, A, {}, E, W)
  BY DEF Part, PlanStep, StepNames, Allowed, Barred, Inserted, Sends, Env
<1>2. Part(t1, A, {}, E, {h \in {} : P})
  <2>1. P => Part(<< <<"patchTarget", "production">>, <<"findTarget", "production">> >>, A, {}, E, {})
    BY FindPart DEF Env, Allowed, Barred, StepNames
  <2> QED
    BY <1>0, <2>1, PartWhen
<1>3. Part(t2, A, {}, E, {h \in {} : i.texts["staging"] # NoText})
  <2>1. Part(<< <<"storeText", "staging">>, <<"pushText", "staging">> >>, A, {}, E, {})
    BY TextPart DEF Env, Allowed, Barred, StepNames
  <2> QED
    BY <2>1, PartWhen
<1>4. Part(t3, A, {}, E, {h \in {} : P /\ i.texts["production"] # NoText})
  <2>1. Part(<< <<"storeText", "production">>, <<"pushText", "production">> >>, A, {}, E, {})
    BY TextPart DEF Env, Allowed, Barred, StepNames
  <2> QED
    BY <1>0, <2>1, PartWhen
<1>5. Part(t4, A, {}, M, {<<"compareBranch", "staging">>})
  BY StepPart DEF Env, Allowed, Barred, StepNames, Inserted, Sends
<1>6. Part(t5, A, {}, {}, {h \in {<<"compareBranch", "production">>} : P})
  <2>1. Part(<< <<"compareBranch", "production">> >>, A, {}, {}, {<<"compareBranch", "production">>})
    BY StepPart DEF Env, Allowed, Barred, StepNames, Inserted, Sends
  <2> QED
    BY <1>0, <2>1, PartWhen
<1>7. UpdateDeployment(i) = s0 \o t1 \o t2 \o t3 \o t4 \o t5
  BY DEF UpdateDeployment
<1>8. /\ E \subseteq With(M, "compareBranch", {<<"compareBranch", "staging">>})
      /\ M \subseteq With({}, "compareBranch", {h \in {<<"compareBranch", "production">>} : P})
      /\ E \subseteq With(E, "compareBranch", {})
  BY DEF With, Env
<1> HIDE DEF A, P, M, E, s0, t1, t2, t3, t4, t5, W
<1>11. Part(s0 \o t1, A, {}, E, W)
  BY <1>1, <1>2, PartsJoin DEF With
<1>12. Part(s0 \o t1 \o t2, A, {}, E, W)
  BY <1>11, <1>3, PartsJoin DEF With
<1>13. Part(s0 \o t1 \o t2 \o t3, A, {}, E, W)
  BY <1>12, <1>4, PartsJoin DEF With
<1>14. Part(s0 \o t1 \o t2 \o t3 \o t4, A, {}, M, W \cup {<<"compareBranch", "staging">>})
  BY <1>13, <1>5, <1>8, PartsJoin
<1>15. Part(s0 \o t1 \o t2 \o t3 \o t4 \o t5, A, {}, {},
            (W \cup {<<"compareBranch", "staging">>}) \cup {h \in {<<"compareBranch", "production">>} : P})
  BY <1>14, <1>6, <1>8, PartsJoin
<1> QED
  BY <1>15, <1>7 DEF Part, A, W

LEMMA ProvisionPart ==
    ASSUME NEW i, Asked(i), i.kind = "provision"
    PROVE  Part(ProvisionBundle(i), Allowed("provision"), {e \in Env : i.texts[e] = NoText}, {}, {})
<1> DEFINE A == Allowed("provision")
           P == i.production
           T == i.texts["production"] # NoText
           D == {e \in Env : i.texts[e] = NoText}
           M == {e \in {"production"} : P}
           E == {"staging"} \cup M
           R == D \cup {"staging"}
           t0 == << <<"create", "staging">>, <<"findTarget", "staging">> >>
           t1 == When(P, << <<"findTarget", "production">> >>)
           t2 == << <<"storeText", "staging">> >>
           t3 == When(T, << <<"storeText", "production">> >>)
           t4 == << <<"pushText", "staging">> >>
           t5 == When(P, << <<"pushText", "production">> >>)
           t6 == << <<"compareBranch", "staging">> >>
           t7 == When(P, << <<"compareBranch", "production">> >>)
           H1 == {h \in {<<"findTarget", "production">>} : P}
           H3 == {h \in {<<"storeText", "production">>} : T}
           H5 == {h \in {<<"pushText", "production">>} : P}
           H7 == {h \in {<<"compareBranch", "production">>} : P}
<1>0. P \in BOOLEAN /\ T \in BOOLEAN
  BY DEF Asked
<1>1. Part(t0, A, D, E, {})
  BY DEF Part, PlanStep, StepNames, Allowed, Barred, Inserted, Sends, Env
<1>2. Part(t1, A, D, E, H1)
  <2>1. P => Part(<< <<"findTarget", "production">> >>, A, D, E, {<<"findTarget", "production">>})
    BY StepPart DEF Env, Allowed, Barred, StepNames, Inserted, Sends
  <2> QED
    BY <1>0, <2>1, PartWhen
<1>3. Part(t2, A, D, E, {<<"storeText", "staging">>})
  BY StepPart DEF Env, Allowed, Barred, StepNames, Inserted, Sends
<1>4. Part(t3, A, R, E, H3)
  <2>1. Part(<< <<"storeText", "production">> >>, A, R, E, {<<"storeText", "production">>})
    BY StepPart DEF Env, Allowed, Barred, StepNames, Inserted, Sends
  <2> QED
    BY <1>0, <2>1, PartWhen
<1>5. Part(t4, A, R, E, {<<"pushText", "staging">>})
  BY StepPart DEF Env, Allowed, Barred, StepNames, Inserted, Sends
<1>6. Part(t5, A, Env, E, H5)
  <2>1. Part(<< <<"pushText", "production">> >>, A, Env, E, {<<"pushText", "production">>})
    BY StepPart DEF Env, Allowed, Barred, StepNames, Inserted, Sends
  <2> QED
    BY <1>0, <2>1, PartWhen
<1>7. Part(t6, A, D, M, {<<"compareBranch", "staging">>})
  BY StepPart DEF Env, Allowed, Barred, StepNames, Inserted, Sends
<1>8. Part(t7, A, D, {}, H7)
  <2>1. Part(<< <<"compareBranch", "production">> >>, A, D, {}, {<<"compareBranch", "production">>})
    BY StepPart DEF Env, Allowed, Barred, StepNames, Inserted, Sends
  <2> QED
    BY <1>0, <2>1, PartWhen
<1>9. ProvisionBundle(i) = t0 \o t1 \o t2 \o t3 \o t4 \o t5 \o t6 \o t7
  BY DEF ProvisionBundle
<1> DEFINE G2 == {} \cup H1 \cup {<<"storeText", "staging">>}
           G3 == G2 \cup H3
           G5 == G3 \cup {<<"pushText", "staging">>} \cup H5
           G6 == G5 \cup {<<"compareBranch", "staging">>}
<1>10. /\ \A H : E \subseteq With(E, "compareBranch", H)
       /\ E \subseteq With(M, "compareBranch", {<<"compareBranch", "staging">>})
       /\ M \subseteq With({}, "compareBranch", H7)
       /\ \A H : D \subseteq With(D, "storeText", H)
       /\ R \subseteq With(D, "storeText", G2)
       /\ R \subseteq With(D, "storeText", G3)
       /\ Env \subseteq With(D, "storeText", G3 \cup {<<"pushText", "staging">>})
  BY DEF With, Env
<1> HIDE DEF A, P, T, D, M, E, R, t0, t1, t2, t3, t4, t5, t6, t7, H1, H3, H5, H7
<1>11. Part(t0 \o t1, A, D, E, {} \cup H1)
  BY <1>1, <1>2, <1>10, PartsJoin
<1>12. Part(t0 \o t1 \o t2, A, D, E, G2)
  BY <1>11, <1>3, <1>10, PartsJoin
<1> HIDE DEF G2
<1>13. Part(t0 \o t1 \o t2 \o t3, A, D, E, G3)
  BY <1>12, <1>4, <1>10, PartsJoin
<1> HIDE DEF G3
<1>14. Part(t0 \o t1 \o t2 \o t3 \o t4, A, D, E, G3 \cup {<<"pushText", "staging">>})
  BY <1>13, <1>5, <1>10, PartsJoin
<1>15. Part(t0 \o t1 \o t2 \o t3 \o t4 \o t5, A, D, E, G5)
  BY <1>14, <1>6, <1>10, PartsJoin
<1> HIDE DEF G5
<1>16. Part(t0 \o t1 \o t2 \o t3 \o t4 \o t5 \o t6, A, D, M, G6)
  BY <1>15, <1>7, <1>10, PartsJoin
<1>17. Part(t0 \o t1 \o t2 \o t3 \o t4 \o t5 \o t6 \o t7, A, D, {}, G6 \cup H7)
  BY <1>16, <1>8, <1>10, PartsJoin
<1> QED
  BY <1>17, <1>9 DEF Part, A, D

LEMMA SetVarsPart ==
    ASSUME NEW i, Asked(i), i.kind = "setVars"
    PROVE  Part(SetServiceEnvVars(i), Allowed("setVars"), {}, {}, {})
<1> DEFINE A == Allowed("setVars")
           t0 == When(i.merge, << <<"readVault", i.env>> >>)
           t1 == << <<"storeMerged", i.env>> >>
           t2 == When(i.push, SyncServiceEnvironment(i.env))
           H0 == {h \in {<<"readVault", i.env>>} : i.merge}
           H1 == {<<"storeMerged", i.env>>}
           H2 == {h \in {} : i.push}
<1>0. i.merge \in BOOLEAN /\ i.push \in BOOLEAN /\ i.env \in Env
  BY DEF Asked
<1>1. Part(t0, A, {}, {}, H0)
  <2>1. Part(<< <<"readVault", i.env>> >>, A, {}, {}, {<<"readVault", i.env>>})
    BY <1>0, StepPart DEF Allowed, Barred, StepNames, Inserted, Sends
  <2> QED
    BY <1>0, <2>1, PartWhen
<1>2. Part(t1, A, {}, {}, H1)
  BY <1>0, StepPart DEF Allowed, Barred, StepNames, Inserted, Sends
<1>3. Part(t2, A, {}, {}, H2)
  <2>1. A = StepNames \ {"build"}
    BY DEF Allowed, Barred
  <2>2. Part(SyncServiceEnvironment(i.env), A, {}, {}, {})
    BY <1>0, <2>1, SyncPart
  <2> QED
    BY <1>0, <2>2, PartWhen
<1> HIDE DEF A, t0, t1, t2, H0, H1, H2
<1>4. Part(t0 \o t1, A, {}, {}, H0 \cup H1)
  BY <1>1, <1>2, PartsJoin
<1>5. Part(t0 \o t1 \o t2, A, {}, {}, H0 \cup H1 \cup H2)
  BY <1>3, <1>4, PartsJoin
<1> QED
  BY <1>5 DEF SetServiceEnvVars, Part, A, t0, t1, t2

\* Saving a box, which is skipped as a whole when it is empty.
LEMMA SaveVarsPart ==
    ASSUME NEW e \in Env
    PROVE  Part(SaveEnvVars(e), StepNames \ {"build"}, {}, {}, {})
<1> DEFINE s == << <<"storeBox", e>> >>
           t == SyncServiceEnvironment(e)
           u == s \o t
<1>1. s \in Seq(PlanStep) /\ Len(s) = 1 /\ s[1] = <<"storeBox", e>>
  BY DEF PlanStep, StepNames
<1>2. /\ t \in Seq(PlanStep) /\ Len(t) = 3
      /\ t[1] = <<"locate", e>> /\ t[2] = <<"loadVault", e>> /\ t[3] = <<"pushKeys", e>>
  BY DEF SyncServiceEnvironment, PlanStep, StepNames
<1> HIDE DEF s, t
<1>3. /\ u \in Seq(PlanStep) /\ Len(u) = 4 /\ u[1] = <<"storeBox", e>>
      /\ u[1 + 1] = <<"locate", e>> /\ u[1 + 2] = <<"loadVault", e>> /\ u[1 + 3] = <<"pushKeys", e>>
  <2>0. /\ u \in Seq(PlanStep) /\ Len(u) = Len(s) + Len(t)
        /\ \A n \in 1..Len(s) : u[n] = s[n]
        /\ \A n \in 1..Len(t) : u[Len(s) + n] = t[n]
    BY <1>1, <1>2, Joined
  <2> HIDE DEF u
  <2>1. /\ u \in Seq(PlanStep) /\ Len(u) = 4 /\ u[1] = s[1]
        /\ \A n \in 1..3 : u[1 + n] = t[n]
    BY <1>1, <1>2, <2>0
  <2>2. 1 \in 1..3 /\ 2 \in 1..3 /\ 3 \in 1..3
    OBVIOUS
  <2> QED
    BY <2>1, <2>2, <1>1, <1>2
<1> HIDE DEF u
<1>4. \A n \in 1..Len(u) : n = 1 \/ n = 2 \/ n = 3 \/ n = 4
  BY <1>3
<1>5. Part(u, StepNames \ {"build"}, {}, {}, {})
  BY <1>3, <1>4 DEF Part, StepNames, Inserted, Sends, Fed, Feeds, Skippable
<1> QED
  BY <1>5 DEF SaveEnvVars, u, s, t

LEMMA TypeAndSavePart == Part(TypeAndSave, StepNames \ {"build"}, {}, {}, {})
<1> DEFINE A == StepNames \ {"build"}
           t0 == << <<"typeBox", "staging">> >>
<1>1. Part(t0, A, {}, {}, {<<"typeBox", "staging">>})
  BY StepPart DEF StepNames, Inserted, Sends, Env
<1>2. Part(SaveEnvVars("staging"), A, {}, {}, {}) /\ Part(SaveEnvVars("production"), A, {}, {}, {})
  BY SaveVarsPart DEF Env
<1> HIDE DEF A, t0
<1>3. Part(t0 \o SaveEnvVars("staging"), A, {}, {}, {<<"typeBox", "staging">>} \cup {})
  BY <1>1, <1>2, PartsJoin
<1>4. Part(t0 \o SaveEnvVars("staging") \o SaveEnvVars("production"), A, {}, {},
           {<<"typeBox", "staging">>} \cup {} \cup {})
  BY <1>2, <1>3, PartsJoin
<1> QED
  BY <1>4 DEF TypeAndSave, Part, A, t0

LEMMA BoxesPart ==
    ASSUME NEW i, Asked(i)
    PROVE  Part(ConfigureService(i), Allowed("boxes"), {}, {}, {})
<1> DEFINE A == Allowed("boxes")
           t0 == << <<"showBox", i.env>>, <<"showBox", Other(i.env)>> >>
<1>1. Part(t0, A, {}, {}, {})
  BY DEF Part, PlanStep, StepNames, Allowed, Barred, Inserted, Sends, Asked, Env, Other
<1>2. Part(TypeAndSave, A, {}, {}, {})
  BY TypeAndSavePart DEF Allowed, Barred
<1> HIDE DEF A, t0
<1>3. Part(t0 \o TypeAndSave, A, {}, {}, {} \cup {})
  BY <1>1, <1>2, PartsJoin
<1> QED
  BY <1>3 DEF ConfigureService, Part, A, t0

\* A deploy does seven things, one after the other, in one environment.
DeploySteps == <<"resolveApp", "locate", "loadVault", "pushKeys", "build", "readColumn", "writeOutcome">>

DeployShape(s) ==
    \E e \in Env : /\ Len(s) <= 7
                   /\ \A n \in 1..Len(s) : s[n] = <<DeploySteps[7 - Len(s) + n], e>>

LEMMA BuildPart ==
    ASSUME NEW e \in Env, NEW D
    PROVE  /\ Part(BuildAndRecord(e), Allowed("deploy"), D, {}, {})
           /\ DeployShape(BuildAndRecord(e)) /\ Len(BuildAndRecord(e)) = 3
           /\ BuildAndRecord(e)[1] = <<"build", e>>
<1>1. Part(BuildAndRecord(e), Allowed("deploy"), D, {}, {})
  BY DEF Part, BuildAndRecord, PlanStep, StepNames, Allowed, Barred, Inserted, Sends
<1>2. DeployShape(BuildAndRecord(e)) /\ Len(BuildAndRecord(e)) = 3 /\ BuildAndRecord(e)[1] = <<"build", e>>
  BY DEF DeployShape, BuildAndRecord, DeploySteps
<1> QED
  BY <1>1, <1>2

LEMMA DeployPart ==
    ASSUME NEW e \in Env
    PROVE  /\ Part(Deploy(e), Allowed("deploy"), {}, {}, {})
           /\ DeployShape(Deploy(e)) /\ Len(Deploy(e)) = 7
<1> DEFINE r == << <<"resolveApp", e>> >>
           s == SyncServiceEnvironment(e)
           t == BuildAndRecord(e)
           u == r \o s
           v == u \o t
<1>1. r \in Seq(PlanStep) /\ Len(r) = 1 /\ r[1] = <<"resolveApp", e>>
  BY DEF PlanStep, StepNames
<1>2. /\ s \in Seq(PlanStep) /\ Len(s) = 3
      /\ s[1] = <<"locate", e>> /\ s[2] = <<"loadVault", e>> /\ s[3] = <<"pushKeys", e>>
  BY DEF SyncServiceEnvironment, PlanStep, StepNames
<1>3. /\ t \in Seq(PlanStep) /\ Len(t) = 3
      /\ t[1] = <<"build", e>> /\ t[2] = <<"readColumn", e>> /\ t[3] = <<"writeOutcome", e>>
  BY DEF BuildAndRecord, PlanStep, StepNames
<1> HIDE DEF r, s, t
<1>4. /\ u \in Seq(PlanStep) /\ Len(u) = 4 /\ u[1] = <<"resolveApp", e>>
      /\ u[1 + 1] = <<"locate", e>> /\ u[1 + 2] = <<"loadVault", e>> /\ u[1 + 3] = <<"pushKeys", e>>
  <2>0. /\ u \in Seq(PlanStep) /\ Len(u) = Len(r) + Len(s)
        /\ \A n \in 1..Len(r) : u[n] = r[n]
        /\ \A n \in 1..Len(s) : u[Len(r) + n] = s[n]
    BY <1>1, <1>2, Joined
  <2> HIDE DEF u
  <2>1. /\ u \in Seq(PlanStep) /\ Len(u) = 4 /\ u[1] = r[1]
        /\ \A n \in 1..3 : u[1 + n] = s[n]
    BY <1>1, <1>2, <2>0
  <2>2. 1 \in 1..3 /\ 2 \in 1..3 /\ 3 \in 1..3
    OBVIOUS
  <2> QED
    BY <2>1, <2>2, <1>1, <1>2
<1> HIDE DEF u
<1>5. /\ v \in Seq(PlanStep) /\ Len(v) = 7
      /\ v[1] = <<"resolveApp", e>> /\ v[2] = <<"locate", e>> /\ v[3] = <<"loadVault", e>>
      /\ v[4] = <<"pushKeys", e>>
      /\ v[4 + 1] = <<"build", e>> /\ v[4 + 2] = <<"readColumn", e>> /\ v[4 + 3] = <<"writeOutcome", e>>
  <2>0. /\ v \in Seq(PlanStep) /\ Len(v) = Len(u) + Len(t)
        /\ \A n \in 1..Len(u) : v[n] = u[n]
        /\ \A n \in 1..Len(t) : v[Len(u) + n] = t[n]
    BY <1>4, <1>3, Joined
  <2> HIDE DEF v
  <2>1. /\ v \in Seq(PlanStep) /\ Len(v) = 7
        /\ \A n \in 1..4 : v[n] = u[n]
        /\ \A n \in 1..3 : v[4 + n] = t[n]
    BY <1>4, <1>3, <2>0
  <2>2. 1 \in 1..4 /\ 2 \in 1..4 /\ 3 \in 1..4 /\ 4 \in 1..4 /\ 1 \in 1..3 /\ 2 \in 1..3 /\ 3 \in 1..3
    OBVIOUS
  <2> QED
    BY <2>1, <2>2, <1>4, <1>3
<1> HIDE DEF v
<1>6. \A n \in 1..Len(v) : n \in {1, 2, 3, 4, 5, 6, 7}
  BY <1>5
<1>7. Part(v, Allowed("deploy"), {}, {}, {})
  BY <1>5, <1>6 DEF Part, Allowed, Barred, StepNames, Inserted, Sends, Fed, Feeds
<1>8. DeployShape(v)
  BY <1>5, <1>6 DEF DeployShape, DeploySteps
<1> QED
  BY <1>5, <1>7, <1>8 DEF Deploy, v, u, r, s, t

\* Steps that a request is sure to have, when it saves the configuration.
Certain(kind) ==
    IF kind = "patch" THEN {<<"writeConfig", "staging">>, <<"compareBranch", "staging">>,
                            <<"compareBranch", "production">>}
    ELSE IF kind = "save" THEN {<<"writeConfig", "staging">>} ELSE {}

LEMMA PartWeaker ==
    ASSUME NEW A, NEW D, NEW L, NEW H, NEW E, NEW s, Part(s, A, D, L, H), D \subseteq E
    PROVE  Part(s, A, E, L, H)
  BY DEF Part

LEMMA StepsBegin ==
    ASSUME NEW i, Asked(i)
    PROVE  /\ Part(Steps(i), Allowed(i.kind), {e \in Env : i.texts[e] = NoText}, {}, Certain(i.kind))
           /\ i.kind = "deploy" => DeployShape(Steps(i)) /\ Len(Steps(i)) = 7
<1> DEFINE D == {e \in Env : i.texts[e] = NoText}
           A == Allowed(i.kind)
           C == Certain(i.kind)
<1>0. {} \subseteq D /\ i.env \in Env
  BY DEF Asked
<1> HIDE DEF D
<1>1. CASE i.kind = "patch"
  <2>1. Part(UpdateService, A, {}, {}, C) /\ Steps(i) = UpdateService
    BY <1>1, PatchPart DEF Certain, Steps
  <2> QED
    BY <1>0, <1>1, <2>1, PartWeaker DEF D
<1>2. CASE i.kind = "save"
  <2>1. Part(UpdateDeployment(i), A, {}, {}, C) /\ Steps(i) = UpdateDeployment(i)
    BY <1>2, SavePart DEF Certain, Steps
  <2> QED
    BY <1>0, <1>2, <2>1, PartWeaker DEF D
<1>3. CASE i.kind = "provision"
  <2>1. Part(ProvisionBundle(i), A, D, {}, C) /\ Steps(i) = ProvisionBundle(i)
    BY <1>3, ProvisionPart DEF Certain, Steps, D
  <2> QED
    BY <1>3, <2>1 DEF D
<1>4. CASE i.kind = "setVars"
  <2>1. Part(SetServiceEnvVars(i), A, {}, {}, C) /\ Steps(i) = SetServiceEnvVars(i)
    BY <1>4, SetVarsPart DEF Certain, Steps
  <2> QED
    BY <1>0, <1>4, <2>1, PartWeaker DEF D
<1>5. CASE i.kind = "pushVars"
  <2>1. Part(SyncServiceEnvironment(i.env), A, {}, {}, C) /\ Steps(i) = SyncServiceEnvironment(i.env)
    BY <1>0, <1>5, SyncPart DEF Certain, Steps, Allowed, Barred
  <2> QED
    BY <1>0, <1>5, <2>1, PartWeaker DEF D
<1>6. CASE i.kind = "mirror"
  <2>1. Part(MirrorKey, A, {}, {}, C) /\ Steps(i) = MirrorKey
    BY <1>6, MirrorPart DEF Certain, Steps
  <2> QED
    BY <1>0, <1>6, <2>1, PartWeaker DEF D
<1>7. CASE i.kind = "jwt"
  <2>1. Part(EnsureJwtSigningSecret(i.env), A, {}, {}, C) /\ Steps(i) = EnsureJwtSigningSecret(i.env)
    BY <1>0, <1>7, JwtPart DEF Certain, Steps
  <2> QED
    BY <1>0, <1>7, <2>1, PartWeaker DEF D
<1>8. CASE i.kind = "boxes"
  <2>1. Part(ConfigureService(i), A, {}, {}, C) /\ Steps(i) = ConfigureService(i)
    BY <1>8, BoxesPart DEF Certain, Steps
  <2> QED
    BY <1>0, <1>8, <2>1, PartWeaker DEF D
<1>9. CASE i.kind = "deploy"
  <2>1. Part(Deploy(i.env), A, {}, {}, C) /\ Steps(i) = Deploy(i.env)
    BY <1>0, <1>9, DeployPart DEF Certain, Steps
  <2> QED
    BY <1>0, <1>9, <2>1, PartWeaker, DeployPart DEF D
<1> QED
  BY <1>1, <1>2, <1>3, <1>4, <1>5, <1>6, <1>7, <1>8, <1>9 DEF Asked, Kinds

-----------------------------------------------------------------------------
(***************************************************************************)
(* What is left of a list.                                                 *)
(***************************************************************************)

Provisions == {"findTarget", "upsert", "createApplication"}

\* The steps left to a request of the kind, whose variables the vaults of the environments
\* in K have held, and so have those of T its texts.
Plan(s, kind, K, T) ==
    /\ s \in Seq(PlanStep)
    /\ \A n \in 1..Len(s) :
         /\ s[n][1] \in Allowed(kind)
         /\ n > 1 => s[n][1] \notin Inserted
         /\ s[n][1] \in Sends =>
              Fed(s, n) \/ (s[n][2] \in K /\ (n = 1 \/ (n = 2 /\ s[1][1] = "locate")))
         /\ s[n][1] = "storeBox" => Skippable(s, n)
         /\ s[n][1] = "pushText" =>
              s[n][2] \in T \/ \E m \in 1..(n - 1) : s[m] = <<"storeText", s[n][2]>>
         /\ s[n][1] \in Provisions => \E m \in (n + 1)..Len(s) : s[m] = <<"compareBranch", s[n][2]>>
    /\ kind = "deploy" => DeployShape(s)

LEMMA PlanFirst ==
    ASSUME NEW s, NEW kind, NEW K, NEW T, NEW H, Part(s, Allowed(kind), T, {}, H),
           kind = "deploy" => DeployShape(s)
    PROVE  Plan(s, kind, K, T)
  BY DEF Part, Plan, Provisions, Inserted

LEMMA PlanEnd == ASSUME NEW kind, NEW K, NEW T PROVE Plan(<<>>, kind, K, T)
  BY DEF Plan, DeployShape, Env

LEMMA PlanMore ==
    ASSUME NEW s, NEW kind, NEW K, NEW T, NEW J, NEW U, Plan(s, kind, K, T), K \subseteq J, T \subseteq U
    PROVE  Plan(s, kind, J, U)
  BY DEF Plan

LEMMA PlanHead ==
    ASSUME NEW s, NEW kind, NEW K, NEW T, Plan(s, kind, K, T), s # <<>>
    PROVE  /\ Head(s) = s[1] /\ s[1] \in PlanStep /\ s[1] = <<s[1][1], s[1][2]>>
           /\ s[1][1] \in Allowed(kind) /\ s[1][2] \in Env
           /\ Len(s) \in Nat /\ Len(s) >= 1 /\ 1 \in 1..Len(s)
<1>1. s \in Seq(PlanStep) /\ s # <<>>
  BY DEF Plan
<1>2. Head(s) = s[1] /\ s[1] \in PlanStep /\ Len(s) \in Nat /\ Len(s) >= 1 /\ 1 \in 1..Len(s)
  BY <1>1
<1> QED
  BY <1>2 DEF Plan, PlanStep

LEMMA TailOf ==
    ASSUME NEW s \in Seq(PlanStep), s # <<>>
    PROVE  /\ Tail(s) \in Seq(PlanStep)
           /\ Len(s) \in Nat \ {0} /\ Len(Tail(s)) = Len(s) - 1
           /\ \A n \in 1..Len(Tail(s)) : Tail(s)[n] = s[n + 1] /\ n + 1 \in 1..Len(s)
           /\ \A n \in 2..Len(s) : s[n] = Tail(s)[n - 1] /\ n - 1 \in 1..Len(Tail(s))
  OBVIOUS

\* The first step is done.
LEMMA PlanTail ==
    ASSUME NEW s, NEW kind, NEW K, NEW T, NEW J, NEW U, Plan(s, kind, K, T), s # <<>>,
           s[1][1] \in Feeds => s[1][2] \in J,
           s[1][1] = "locate" => K \subseteq J,
           s[1][1] = "storeText" => s[1][2] \in U,
           T \subseteq U
    PROVE  Plan(Tail(s), kind, J, U)
<1> DEFINE t == Tail(s)
<1>1. s \in Seq(PlanStep)
  BY DEF Plan
<1>2. /\ t \in Seq(PlanStep)
      /\ Len(s) \in Nat \ {0} /\ Len(t) = Len(s) - 1
      /\ \A n \in 1..Len(t) : t[n] = s[n + 1] /\ n + 1 \in 1..Len(s)
      /\ \A n \in 2..Len(s) : s[n] = t[n - 1] /\ n - 1 \in 1..Len(t)
  BY <1>1, TailOf
<1> HIDE DEF t
<1>3. ASSUME NEW n \in 1..Len(t)
      PROVE  /\ t[n][1] \in Allowed(kind)
             /\ t[n][1] \notin Inserted
             /\ t[n][1] \in Sends =>
                  Fed(t, n) \/ (t[n][2] \in J /\ (n = 1 \/ (n = 2 /\ t[1][1] = "locate")))
             /\ t[n][1] = "storeBox" => Skippable(t, n)
             /\ t[n][1] = "pushText" =>
                  t[n][2] \in U \/ \E m \in 1..(n - 1) : t[m] = <<"storeText", t[n][2]>>
             /\ t[n][1] \in Provisions => \E m \in (n + 1)..Len(t) : t[m] = <<"compareBranch", t[n][2]>>
  <2>1. t[n] = s[n + 1] /\ n + 1 \in 1..Len(s) /\ n + 1 > 1 /\ n \in Nat
    BY <1>2
  <2>2. t[n][1] \in Allowed(kind) /\ t[n][1] \notin Inserted
    BY <2>1 DEF Plan
  <2>3. ASSUME t[n][1] \in Sends
        PROVE  Fed(t, n) \/ (t[n][2] \in J /\ (n = 1 \/ (n = 2 /\ t[1][1] = "locate")))
    <3>1. CASE s[n][1] \in Feeds /\ s[n][2] = t[n][2]
      <4>1. CASE n = 1
        BY <3>1, <4>1
      <4>2. CASE n > 1
        <5>1. s[n] = t[n - 1]
          BY <4>2, <2>1, <1>2
        <5> QED
          BY <3>1, <4>2, <5>1 DEF Fed
      <4> QED
        BY <4>1, <4>2, <2>1
    <3>2. CASE n + 1 > 2 /\ s[n] = <<"locate", t[n][2]>> /\ s[n - 1] = <<"storeCopied", t[n][2]>>
      <4>1. s[n] = t[n - 1] /\ n > 1
        BY <3>2, <2>1, <1>2
      <4>2. CASE n = 2
        <5>1. t[1] = <<"locate", t[n][2]>> /\ s[1] = <<"storeCopied", t[n][2]>>
          BY <3>2, <4>1, <4>2
        <5> QED
          BY <4>2, <5>1 DEF Feeds
      <4>3. CASE n > 2
        <5>1. s[n - 1] = t[n - 2]
          BY <4>3, <2>1, <1>2
        <5> QED
          BY <3>2, <4>1, <4>3, <5>1 DEF Fed
      <4> QED
        BY <4>1, <4>2, <4>3, <2>1
    <3>3. CASE s[n + 1][2] \in K /\ n = 1 /\ s[1][1] = "locate"
      BY <3>3, <2>1
    <3>4. \/ Fed(s, n + 1)
          \/ s[n + 1][2] \in K /\ (n + 1 = 1 \/ (n + 1 = 2 /\ s[1][1] = "locate"))
      BY <2>1, <2>3 DEF Plan
    <3>5. (n + 1) - 1 = n /\ (n + 1) - 2 = n - 1 /\ n + 1 # 1 /\ (n + 1 = 2 => n = 1)
      BY <2>1
    <3>6. CASE Fed(s, n + 1)
      <4>1. \/ s[(n + 1) - 1][1] \in Feeds /\ s[(n + 1) - 1][2] = s[n + 1][2]
            \/ /\ n + 1 > 2 /\ s[(n + 1) - 1] = <<"locate", s[n + 1][2]>>
               /\ s[(n + 1) - 2] = <<"storeCopied", s[n + 1][2]>>
        BY <3>6 DEF Fed
      <4> QED
        BY <4>1, <3>1, <3>2, <3>5, <2>1
    <3> QED
      BY <3>3, <3>4, <3>5, <3>6
  <2>4. ASSUME t[n][1] = "storeBox" PROVE Skippable(t, n)
    <3>1. Skippable(s, n + 1)
      BY <2>1, <2>4 DEF Plan
    <3>2. n + 3 <= Len(t) /\ n + 1 \in 1..Len(t) /\ n + 2 \in 1..Len(t) /\ n + 3 \in 1..Len(t)
      BY <3>1, <2>1, <1>2 DEF Skippable
    <3>3. t[n + 1] = s[(n + 1) + 1] /\ t[n + 2] = s[(n + 1) + 2] /\ t[n + 3] = s[(n + 1) + 3]
      <4>1. (n + 1) + 2 = (n + 2) + 1 /\ (n + 1) + 3 = (n + 3) + 1
        BY <2>1
      <4> QED
        BY <4>1, <3>2, <1>2
    <3> QED
      BY <3>1, <3>2, <3>3 DEF Skippable
  <2>5. ASSUME t[n][1] = "pushText"
        PROVE  t[n][2] \in U \/ \E m \in 1..(n - 1) : t[m] = <<"storeText", t[n][2]>>
    <3>1. CASE t[n][2] \in T
      BY <3>1
    <3>2. CASE \E m \in 1..((n + 1) - 1) : s[m] = <<"storeText", t[n][2]>>
      <4>1. PICK m \in 1..((n + 1) - 1) : s[m] = <<"storeText", t[n][2]>>
        BY <3>2
      <4>2. CASE m = 1
        BY <4>1, <4>2
      <4>3. CASE m > 1
        <5>1. m - 1 \in 1..(n - 1) /\ t[m - 1] = s[m]
          BY <4>1, <4>3, <2>1, <1>2
        <5> QED
          BY <4>1, <5>1
      <4> QED
        BY <4>1, <4>2, <4>3, <2>1
    <3>3. s[n + 1][1] = "pushText" =>
             s[n + 1][2] \in T \/ \E m \in 1..((n + 1) - 1) : s[m] = <<"storeText", s[n + 1][2]>>
      BY <2>1 DEF Plan
    <3> QED
      BY <2>1, <2>5, <3>1, <3>2, <3>3
  <2>6. ASSUME t[n][1] \in Provisions
        PROVE  \E m \in (n + 1)..Len(t) : t[m] = <<"compareBranch", t[n][2]>>
    <3>0. s[n + 1][1] \in Provisions =>
             \E m \in ((n + 1) + 1)..Len(s) : s[m] = <<"compareBranch", s[n + 1][2]>>
      BY <2>1 DEF Plan
    <3>1. PICK m \in ((n + 1) + 1)..Len(s) : s[m] = <<"compareBranch", t[n][2]>>
      BY <3>0, <2>1, <2>6
    <3>2. m - 1 \in (n + 1)..Len(t) /\ t[m - 1] = s[m]
      BY <3>1, <2>1, <1>2
    <3> QED
      BY <3>1, <3>2
  <2> QED
    BY <2>2, <2>3, <2>4, <2>5, <2>6
<1>4. ASSUME kind = "deploy" PROVE DeployShape(t)
  <2>1. PICK e \in Env : /\ Len(s) <= 7
                         /\ \A n \in 1..Len(s) : s[n] = <<DeploySteps[7 - Len(s) + n], e>>
    BY <1>4 DEF Plan, DeployShape
  <2>2. ASSUME NEW n \in 1..Len(t) PROVE t[n] = <<DeploySteps[7 - Len(t) + n], e>>
    <3>1. t[n] = s[n + 1] /\ n + 1 \in 1..Len(s) /\ 7 - Len(s) + (n + 1) = 7 - Len(t) + n
      BY <1>2
    <3> QED
      BY <3>1, <2>1
  <2> QED
    BY <2>1, <2>2, <1>2 DEF DeployShape
<1> QED
  BY <1>2, <1>3, <1>4 DEF Plan, t

\* The first step puts another in its place.
LEMMA PlanThen ==
    ASSUME NEW s, NEW kind, NEW K, NEW T, NEW J, Plan(s, kind, K, T), s # <<>>, NEW name \in StepNames,
           \/ s[1][1] \in {"findTarget", "upsert"} /\ name \in {"upsert", "createApplication"}
           \/ s[1][1] \in {"compareBranch", "updateBranch"} /\ name \in {"updateBranch", "pushBranch"}
           \/ s[1][1] = "pushText" /\ name = "pushKeys" /\ s[1][2] \in J
    PROVE  /\ Plan(<< <<name, s[1][2]>> >> \o Tail(s), kind, J, T)
           /\ Len(<< <<name, s[1][2]>> >> \o Tail(s)) = Len(s)
           /\ (<< <<name, s[1][2]>> >> \o Tail(s))[1] = <<name, s[1][2]>>
           /\ \A n \in 2..Len(s) : (<< <<name, s[1][2]>> >> \o Tail(s))[n] = s[n]
<1> DEFINE x == <<name, s[1][2]>>
           t == <<x>> \o Tail(s)
<1>1. s \in Seq(PlanStep) /\ Len(s) \in Nat \ {0} /\ s[1] \in PlanStep /\ s[1] = <<s[1][1], s[1][2]>>
  <2>1. s \in Seq(PlanStep)
    BY DEF Plan
  <2> QED
    BY <2>1, PlanHead
<1>2. x \in PlanStep /\ x[1] = name /\ x[2] = s[1][2]
  BY <1>1 DEF PlanStep
<1> HIDE DEF x
<1>3. t \in Seq(PlanStep) /\ Len(t) = Len(s) /\ t[1] = x /\ \A n \in 2..Len(s) : t[n] = s[n]
  BY <1>1, <1>2
<1> HIDE DEF t
<1>4. name \in Allowed(kind)
  <2>1. s[1][1] \in Allowed(kind)
    BY <1>1 DEF Plan
  <2> QED
    BY <2>1 DEF Allowed, Barred
<1>5. kind # "deploy"
  <2>1. ASSUME kind = "deploy" PROVE FALSE
    <3>1. PICK e \in Env : /\ Len(s) <= 7
                           /\ \A n \in 1..Len(s) : s[n] = <<DeploySteps[7 - Len(s) + n], e>>
      BY <2>1 DEF Plan, DeployShape
    <3>2. s[1] = <<DeploySteps[7 - Len(s) + 1], e>> /\ 7 - Len(s) + 1 \in 1..7
      BY <3>1, <1>1
    <3>3. s[1][1] \in {DeploySteps[m] : m \in 1..7}
      BY <3>2
    <3>4. \A m \in 1..7 : DeploySteps[m] \in
              {"resolveApp", "locate", "loadVault", "pushKeys", "build", "readColumn", "writeOutcome"}
      BY DEF DeploySteps
    <3> QED
      BY <3>3, <3>4
  <2> QED
    BY <2>1
<1>6. ASSUME NEW n \in 2..Len(s)
      PROVE  /\ t[n][1] \in Allowed(kind)
             /\ t[n][1] \notin Inserted
             /\ t[n][1] \in Sends => Fed(t, n)
             /\ t[n][1] = "storeBox" => Skippable(t, n)
             /\ t[n][1] = "pushText" =>
                  t[n][2] \in T \/ \E m \in 1..(n - 1) : t[m] = <<"storeText", t[n][2]>>
             /\ t[n][1] \in Provisions => \E m \in (n + 1)..Len(t) : t[m] = <<"compareBranch", t[n][2]>>
  <2>1. t[n] = s[n] /\ n \in 1..Len(s) /\ n > 1 /\ n \in Nat
    BY <1>3, <1>1
  <2>2. t[n][1] \in Allowed(kind) /\ t[n][1] \notin Inserted
    BY <2>1 DEF Plan
  <2>3. ASSUME t[n][1] \in Sends PROVE Fed(t, n)
    <3>1. Fed(s, n)
      BY <2>1, <2>3 DEF Plan
    <3>2. CASE s[n - 1][1] \in Feeds /\ s[n - 1][2] = s[n][2]
      <4>1. n # 2
        BY <3>2 DEF Feeds
      <4>2. n - 1 \in 2..Len(s)
        BY <4>1, <2>1
      <4>3. t[n - 1] = s[n - 1]
        BY <4>2, <1>3
      <4> QED
        BY <3>2, <4>3, <2>1 DEF Fed
    <3>3. CASE n > 2 /\ s[n - 1] = <<"locate", s[n][2]>> /\ s[n - 2] = <<"storeCopied", s[n][2]>>
      <4>1. n # 3
        BY <3>3
      <4>2. n - 1 \in 2..Len(s) /\ n - 2 \in 2..Len(s)
        BY <3>3, <4>1, <2>1
      <4>3. t[n - 1] = s[n - 1] /\ t[n - 2] = s[n - 2]
        BY <4>2, <1>3
      <4> QED
        BY <3>3, <4>3, <2>1 DEF Fed
    <3> QED
      BY <3>1, <3>2, <3>3 DEF Fed
  <2>4. ASSUME t[n][1] = "storeBox" PROVE Skippable(t, n)
    <3>1. Skippable(s, n)
      BY <2>1, <2>4 DEF Plan
    <3>2. n + 1 \in 2..Len(s) /\ n + 2 \in 2..Len(s) /\ n + 3 \in 2..Len(s)
      BY <3>1, <2>1, <1>1 DEF Skippable
    <3>3. t[n + 1] = s[n + 1] /\ t[n + 2] = s[n + 2] /\ t[n + 3] = s[n + 3]
      BY <3>2, <1>3
    <3> QED
      BY <3>1, <3>3, <1>3 DEF Skippable
  <2>5. ASSUME t[n][1] = "pushText"
        PROVE  t[n][2] \in T \/ \E m \in 1..(n - 1) : t[m] = <<"storeText", t[n][2]>>
    <3>1. CASE \E m \in 1..(n - 1) : s[m] = <<"storeText", s[n][2]>>
      <4>1. PICK m \in 1..(n - 1) : s[m] = <<"storeText", s[n][2]>>
        BY <3>1
      <4>2. m # 1
        BY <4>1
      <4>3. m \in 2..Len(s)
        BY <4>1, <4>2, <2>1
      <4> QED
        BY <4>1, <4>3, <1>3, <2>1
    <3> QED
      BY <2>1, <2>5, <3>1 DEF Plan
  <2>6. ASSUME t[n][1] \in Provisions
        PROVE  \E m \in (n + 1)..Len(t) : t[m] = <<"compareBranch", t[n][2]>>
    <3>1. PICK m \in (n + 1)..Len(s) : s[m] = <<"compareBranch", s[n][2]>>
      BY <2>1, <2>6 DEF Plan
    <3>2. m \in 2..Len(s)
      BY <3>1, <2>1
    <3> QED
      BY <3>1, <3>2, <1>3, <2>1
  <2> QED
    BY <2>2, <2>3, <2>4, <2>5, <2>6
<1>7. /\ t[1][1] \in Allowed(kind)
      /\ t[1][1] \in Sends => t[1][2] \in J
      /\ t[1][1] # "storeBox" /\ t[1][1] # "pushText"
  BY <1>2, <1>3, <1>4 DEF Sends
<1>8. ASSUME t[1][1] \in Provisions PROVE \E m \in 2..Len(t) : t[m] = <<"compareBranch", t[1][2]>>
  <2>1. s[1][1] \in Provisions
    BY <1>8, <1>2, <1>3 DEF Provisions
  <2>0. 1 \in 1..Len(s)
    BY <1>1
  <2>2. \E m \in (1 + 1)..Len(s) : s[m] = <<"compareBranch", s[1][2]>>
    BY <2>0, <2>1 DEF Plan
  <2> QED
    BY <2>2, <1>2, <1>3
<1>9. Plan(t, kind, J, T)
  <2>1. ASSUME NEW n \in 1..Len(t)
        PROVE  /\ t[n][1] \in Allowed(kind)
               /\ n > 1 => t[n][1] \notin Inserted
               /\ t[n][1] \in Sends =>
                    Fed(t, n) \/ (t[n][2] \in J /\ (n = 1 \/ (n = 2 /\ t[1][1] = "locate")))
               /\ t[n][1] = "storeBox" => Skippable(t, n)
               /\ t[n][1] = "pushText" =>
                    t[n][2] \in T \/ \E m \in 1..(n - 1) : t[m] = <<"storeText", t[n][2]>>
               /\ t[n][1] \in Provisions => \E m \in (n + 1)..Len(t) : t[m] = <<"compareBranch", t[n][2]>>
    <3>1. CASE n = 1
      BY <3>1, <1>7, <1>8
    <3>2. CASE n > 1
      <4>1. n \in 2..Len(s)
        BY <3>2, <1>3, <1>1
      <4> QED
        BY <4>1, <1>6
    <3> QED
      BY <3>1, <3>2, <1>3, <1>1
  <2> QED
    BY <2>1, <1>3, <1>5 DEF Plan
<1> QED
  BY <1>9, <1>3 DEF t, x

\* An empty box is skipped.
LEMMA PlanSkip ==
    ASSUME NEW s, NEW kind, NEW K, NEW T, NEW J, Plan(s, kind, K, T), s # <<>>, s[1][1] = "storeBox"
    PROVE  Plan(SubSeq(s, 5, Len(s)), kind, J, T)
<1> DEFINE t == SubSeq(s, 5, Len(s))
<1>1. s \in Seq(PlanStep) /\ Len(s) \in Nat \ {0} /\ 1 \in 1..Len(s)
  <2>1. s \in Seq(PlanStep)
    BY DEF Plan
  <2> QED
    BY <2>1
<1>2. Skippable(s, 1)
  BY <1>1 DEF Plan
<1>3. Len(s) >= 4 /\ s[2][1] = "locate" /\ s[3][1] = "loadVault" /\ s[4][1] = "pushKeys"
  BY <1>1, <1>2 DEF Skippable
<1>4. t \in Seq(PlanStep) /\ Len(t) = Len(s) - 4 /\ \A n \in 1..Len(t) : t[n] = s[n + 4]
  <2>1. CASE Len(s) = 4
    <3>1. t = <<>>
      BY <1>1, <2>1
    <3> QED
      BY <2>1, <3>1
  <2>2. CASE Len(s) > 4
    BY <1>1, <2>2
  <2>3. Len(s) = 4 \/ Len(s) > 4
    <3>1. Len(s) \in Nat
      BY <1>1
    <3>2. Len(s) >= 4
      BY <1>3
    <3> DEFINE l == Len(s)
    <3> HIDE DEF l
    <3>3. l \in Nat /\ l >= 4 => l = 4 \/ l > 4
      OBVIOUS
    <3> QED
      BY <3>1, <3>2, <3>3 DEF l
  <2> QED
    BY <2>1, <2>2, <2>3
<1> HIDE DEF t
<1>5. kind # "deploy"
  <2>1. ASSUME kind = "deploy" PROVE FALSE
    <3>1. PICK e \in Env : /\ Len(s) <= 7
                           /\ \A n \in 1..Len(s) : s[n] = <<DeploySteps[7 - Len(s) + n], e>>
      BY <2>1 DEF Plan, DeployShape
    <3>2. s[1] = <<DeploySteps[7 - Len(s) + 1], e>> /\ 7 - Len(s) + 1 \in 1..7
      BY <3>1, <1>1
    <3>3. \A m \in 1..7 : DeploySteps[m] # "storeBox"
      BY DEF DeploySteps
    <3> QED
      BY <3>2, <3>3
  <2> QED
    BY <2>1
<1>6. ASSUME NEW n \in 1..Len(t)
      PROVE  /\ t[n][1] \in Allowed(kind)
             /\ t[n][1] \notin Inserted
             /\ t[n][1] \in Sends => Fed(t, n)
             /\ t[n][1] = "storeBox" => Skippable(t, n)
             /\ t[n][1] = "pushText" =>
                  t[n][2] \in T \/ \E m \in 1..(n - 1) : t[m] = <<"storeText", t[n][2]>>
             /\ t[n][1] \in Provisions => \E m \in (n + 1)..Len(t) : t[m] = <<"compareBranch", t[n][2]>>
  <2>1. t[n] = s[n + 4] /\ n + 4 \in 1..Len(s) /\ n + 4 > 4 /\ n \in Nat /\ n >= 1
    BY <1>4, <1>1
  <2>2. t[n][1] \in Allowed(kind) /\ t[n][1] \notin Inserted
    BY <2>1 DEF Plan
  <2>3. ASSUME t[n][1] \in Sends PROVE Fed(t, n)
    <3>1. Fed(s, n + 4)
      BY <2>1, <2>3 DEF Plan
    <3>2. (n + 4) - 1 = n + 3 /\ (n + 4) - 2 = n + 2
      BY <2>1
    <3>3. \/ s[n + 3][1] \in Feeds /\ s[n + 3][2] = t[n][2]
          \/ s[n + 3] = <<"locate", t[n][2]>> /\ s[n + 2] = <<"storeCopied", t[n][2]>>
      BY <3>1, <3>2, <2>1 DEF Fed
    <3>4. n # 1
      <4>1. n = 1 => s[n + 3][1] = "pushKeys"
        BY <1>3
      <4> QED
        BY <4>1, <3>3 DEF Feeds
    <3>5. t[n - 1] = s[n + 3] /\ n > 1
      <4>1. n - 1 \in 1..Len(t) /\ (n - 1) + 4 = n + 3 /\ n > 1
        BY <3>4, <2>1, <1>4
      <4> QED
        BY <4>1, <1>4
    <3>6. CASE s[n + 3][1] \in Feeds /\ s[n + 3][2] = t[n][2]
      BY <3>5, <3>6 DEF Fed
    <3>7. CASE s[n + 3] = <<"locate", t[n][2]>> /\ s[n + 2] = <<"storeCopied", t[n][2]>>
      <4>1. n # 2
        <5>1. n = 2 => s[n + 2][1] = "pushKeys"
          BY <1>3
        <5> QED
          BY <5>1, <3>7
      <4>2. n - 2 \in 1..Len(t) /\ (n - 2) + 4 = n + 2 /\ n > 2
        BY <3>4, <4>1, <2>1, <1>4
      <4>3. t[n - 2] = s[n + 2]
        BY <4>2, <1>4
      <4> QED
        BY <3>5, <3>7, <4>2, <4>3 DEF Fed
    <3> QED
      BY <3>3, <3>6, <3>7
  <2>4. ASSUME t[n][1] = "storeBox" PROVE Skippable(t, n)
    <3>1. Skippable(s, n + 4)
      BY <2>1, <2>4 DEF Plan
    <3>0. (n + 4) + 3 <= Len(s)
      BY <3>1 DEF Skippable
    <3>2. /\ n + 3 <= Len(t) /\ n + 1 \in 1..Len(t) /\ n + 2 \in 1..Len(t) /\ n + 3 \in 1..Len(t)
          /\ (n + 4) + 1 = (n + 1) + 4 /\ (n + 4) + 2 = (n + 2) + 4 /\ (n + 4) + 3 = (n + 3) + 4
      BY <3>0, <2>1, <1>1, <1>4
    <3>4. t[n + 1] = s[(n + 1) + 4] /\ t[n + 2] = s[(n + 2) + 4] /\ t[n + 3] = s[(n + 3) + 4]
      BY <3>2, <1>4
    <3>3. t[n + 1] = s[(n + 4) + 1] /\ t[n + 2] = s[(n + 4) + 2] /\ t[n + 3] = s[(n + 4) + 3]
      BY <3>2, <3>4
    <3> QED
      BY <3>1, <3>2, <3>3 DEF Skippable
  <2>5. ASSUME t[n][1] = "pushText"
        PROVE  t[n][2] \in T \/ \E m \in 1..(n - 1) : t[m] = <<"storeText", t[n][2]>>
    <3>1. s[n + 4][1] = "pushText" =>
             s[n + 4][2] \in T \/ \E m \in 1..((n + 4) - 1) : s[m] = <<"storeText", s[n + 4][2]>>
      BY <2>1 DEF Plan
    <3>2. CASE \E m \in 1..((n + 4) - 1) : s[m] = <<"storeText", t[n][2]>>
      <4>1. PICK m \in 1..((n + 4) - 1) : s[m] = <<"storeText", t[n][2]>>
        BY <3>2
      <4>2. m # 1 /\ m # 2 /\ m # 3 /\ m # 4
        BY <4>1, <1>3
      <4>3. m - 4 \in 1..(n - 1) /\ m - 4 \in 1..Len(t) /\ (m - 4) + 4 = m
        BY <4>1, <4>2, <2>1, <1>4, <1>1
      <4>4. t[m - 4] = s[m]
        BY <4>3, <1>4
      <4> QED
        BY <4>1, <4>3, <4>4
    <3> QED
      BY <2>1, <2>5, <3>1, <3>2
  <2>6. ASSUME t[n][1] \in Provisions
        PROVE  \E m \in (n + 1)..Len(t) : t[m] = <<"compareBranch", t[n][2]>>
    <3>0. s[n + 4][1] \in Provisions =>
             \E m \in ((n + 4) + 1)..Len(s) : s[m] = <<"compareBranch", s[n + 4][2]>>
      BY <2>1 DEF Plan
    <3>1. PICK m \in ((n + 4) + 1)..Len(s) : s[m] = <<"compareBranch", t[n][2]>>
      BY <3>0, <2>1, <2>6
    <3>2. m - 4 \in (n + 1)..Len(t) /\ m - 4 \in 1..Len(t) /\ (m - 4) + 4 = m
      BY <3>1, <2>1, <1>4, <1>1
    <3>3. t[m - 4] = s[m]
      BY <3>2, <1>4
    <3> QED
      BY <3>1, <3>2, <3>3
  <2> QED
    BY <2>2, <2>3, <2>4, <2>5, <2>6
<1> QED
  BY <1>4, <1>5, <1>6 DEF Plan, t

-----------------------------------------------------------------------------
(***************************************************************************)
(* The configuration: the inductive invariant.                             *)
(***************************************************************************)

Working(j) == j.todo # <<>>
Name(j)  == j.todo[1][1]
Place(j) == j.todo[1][2]

\* The environments whose vault has held the variables a request is about to send.
KnownVars(j) ==
    {e \in Env : \A k \in Keys : j.vars[k] # NoValue =>
         <<e, k, j.vars[k]>> \in stored \/ j.vars[k][3] = "derived"}

\* The environments whose vault has held the request's text.
KnownTexts(q, j) ==
    {e \in Env : \A k \in Keys :
         ParseEnvText(q, j.texts[e], e)[k] # NoValue =>
             <<e, k, ParseEnvText(q, j.texts[e], e)[k]>> \in stored}

Planned(q, j) == Plan(j.todo, j.kind, KnownVars(j), KnownTexts(q, j))

Prepared(j) ==
    /\ ~j.started => ~Working(j)
    /\ j.kind # "patch" => \A e \in Env : j.branches[e] \in Branches
    /\ Working(j) /\ Name(j) = "updateBranch" => j.branches[Place(j)] \in Branches
    /\ Working(j) /\ Name(j) = "createApplication" => target[Place(j)].branch \in Branches
    /\ Working(j) /\ j.kind = "deploy" /\ Len(j.todo) < 7 => j.apps[Place(j)] \in AppIds

\* A request that ran alone and has met no failure.
Clean(j) == j.started /\ j.alone /\ ~j.failed

\* What of the vault the application has, and what it is about to get.
Carrying(j, e, a) ==
    \A k \in Keys : vault[e][k] # NoValue =>
        \/ j.vars[k] = vault[e][k]
        \/ j.vars[k] = NoValue /\ app[e][a].vars[k] = vault[e][k]

\* A clean deploy, at each of its steps.
Carries(j) ==
    Clean(j) /\ j.kind = "deploy" /\ Working(j) =>
        /\ Name(j) = "locate" => target[Place(j)].app = j.apps[Place(j)]
        /\ Name(j) \in {"loadVault", "pushKeys"} => j.row.app = j.apps[Place(j)]
        /\ Name(j) = "pushKeys" => Carrying(j, Place(j), j.apps[Place(j)])
        /\ Name(j) = "build" =>
             \A k \in Keys : vault[Place(j)][k] # NoValue =>
                 app[Place(j)][j.apps[Place(j)]].vars[k] = vault[Place(j)][k]

Remains(s, step) == \E n \in 1..Len(s) : s[n] = step

\* A clean save: what it has not still to do, it has done.
CardSaved(j) ==
    \/ Remains(j.todo, <<"writeConfig", "staging">>)
    \/ \A e \in Env : j.branches[e] # NoBranch => column.envs[e].branch = j.branches[e]

TargetSaved(j, e) ==
    \/ Remains(j.todo, <<"compareBranch", e>>)
    \/ Working(j) /\ j.todo[1] = <<"updateBranch", e>>
    \/ target[e].status = "absent" \/ target[e].branch = j.branches[e]
    \/ j.branches[e] = NoBranch
    \/ j.kind = "save" /\ j.apps[e] = NoApp

Saves(j) ==
    Clean(j) /\ j.kind \in {"patch", "save"} => CardSaved(j) /\ \A e \in Env : TargetSaved(j, e)

JobInv(q, j) == Planned(q, j) /\ Prepared(j) /\ Carries(j) /\ Saves(j)

\* Whoever is alone is.
Solitary ==
    \A q \in Requests : job[q].started /\ job[q].alone => \A p \in Requests \ {q} : ~Busy(p)

VaultKnown ==
    \A e \in Env, k \in Keys : vault[e][k] # NoValue => <<e, k, vault[e][k]>> \in stored

ConfigInv ==
    /\ ConfigTypeOK
    /\ PushedWasStored
    /\ DeployCarriesVault
    /\ VaultKnown
    /\ Solitary
    /\ \A q \in Requests : JobInv(q, job[q])

-----------------------------------------------------------------------------
(***************************************************************************)
(* What a step is, for the request and for the others.                     *)
(***************************************************************************)

LEMMA StartTypes ==
    /\ NoVars \in Vars /\ EmptyBoxes \in [Env -> Vars] /\ NoTarget \in Target
    /\ NoApplication \in Application
    /\ EmptyColumn \in Column
    /\ Idle \in Job
<1>1. NoVars \in Vars
  BY DEF NoVars, Vars
<1>2. EmptyBoxes \in [Env -> Vars] /\ NoTarget \in Target /\ NoApplication \in Application
  BY <1>1 DEF EmptyBoxes, NoTarget, Target, NoApplication, Application
<1>3. EmptyColumn \in Column
  <2> DEFINE b == [branch |-> NoBranch, staging |-> NoBranch, production |-> NoBranch]
             envs == [e \in Env |-> [branch |-> ResolveBranch(b, e), commit |-> NoCommit, status |-> "idle"]]
  <2>1. \A e \in Env : ResolveBranch(b, e) \in Branches
    BY ConfigAssumption DEF ResolveBranch, Named, DefaultBranch, Env
  <2>2. envs \in [Env -> EnvRow]
    BY <2>1 DEF EnvRow
  <2>3. FreshColumn(b) = [exists |-> TRUE, ahead |-> FALSE, envs |-> envs]
    BY DEF FreshColumn
  <2> HIDE DEF b, envs
  <2>4. FreshColumn(b) \in Column
    BY <2>2, <2>3 DEF Column
  <2>5. EmptyColumn = [FreshColumn(b) EXCEPT !.exists = FALSE]
    BY DEF EmptyColumn, b
  <2> QED
    BY <2>4, <2>5 DEF Column
<1>4. <<>> \in Seq(StepNames \X Env)
  OBVIOUS
<1>5. Idle \in Job
  BY <1>1, <1>2, <1>3, <1>4 DEF Idle, Job, SharedKeys
<1> QED
  BY <1>1, <1>2, <1>3, <1>5

LEMMA EndedTypes ==
    ASSUME NEW j \in Job
    PROVE  /\ Ended(j) \in Job /\ Ended(j).todo = <<>> /\ Ended(j).started
           /\ Ended(j).kind = j.kind /\ Ended(j).branches = j.branches /\ Ended(j).apps = j.apps
           /\ Ended(j).alone = j.alone /\ Ended(j).failed = j.failed
<1>1. Idle \in Job
  BY StartTypes
<1>2. /\ j.kind \in {"patch", "save", "provision", "setVars", "pushVars", "mirror", "jwt", "deploy", "boxes"}
      /\ j.branches \in [Env -> Branches \cup {NoBranch}]
      /\ j.apps \in [Env -> AppIds \cup {NoApp}]
      /\ j.alone \in BOOLEAN /\ j.failed \in BOOLEAN
  BY DEF Job
<1>3. Ended(j) \in Job
  BY <1>1, <1>2 DEF Ended, Job
<1>4. Idle.todo = <<>>
  BY DEF Idle
<1> QED
  BY <1>1, <1>3, <1>4 DEF Ended, Job

\* A step of q changes the row of no other request.
LEMMA Becomes ==
    ASSUME ConfigTypeOK, NEW q \in Requests, NEW j \in Job, Become(q, j)
    PROVE  /\ job' \in [Requests -> Job]
           /\ \A p \in Requests \ {q} : job'[p] = job[p]
           /\ \/ job'[q] = j /\ Working(j)
              \/ job'[q] = Ended(j) /\ ~Working(j)
<1>1. Ended(j) \in Job
  BY EndedTypes
<1>2. job \in [Requests -> Job]
  BY DEF ConfigTypeOK
<1>3. CASE j.todo = <<>>
  <2>1. job' = [job EXCEPT ![q] = Ended(j)]
    BY <1>3 DEF Become
  <2> QED
    BY <1>1, <1>2, <1>3, <2>1 DEF Working
<1>4. CASE j.todo # <<>>
  <2>1. job' = [job EXCEPT ![q] = j]
    BY <1>4 DEF Become
  <2> QED
    BY <1>2, <1>4, <2>1 DEF Working
<1> QED
  BY <1>3, <1>4

\* The others, while q takes a step.
LEMMA Bystanders ==
    ASSUME ConfigInv, NEW q \in Requests, Busy(q),
           \A p \in Requests \ {q} : job'[p] = job[p],
           stored \subseteq stored',
           \A e \in Env : target[e].branch \in Branches => target'[e].branch \in Branches,
           NEW p \in Requests \ {q}
    PROVE  JobInv(p, job[p])'
<1>1. ~Clean(job[p])
  BY DEF ConfigInv, Solitary, Clean
<1>2. job'[p] = job[p]
  OBVIOUS
<1>3. Carries(job[p])' /\ Saves(job[p])'
  BY <1>1, <1>2 DEF Carries, Saves, Clean
<1>4. Plan(job[p].todo, job[p].kind, KnownVars(job[p]), KnownTexts(p, job[p]))
  BY DEF ConfigInv, JobInv, Planned
<1>5. KnownVars(job[p]) \subseteq KnownVars(job[p])' /\ KnownTexts(p, job[p]) \subseteq KnownTexts(p, job[p])'
  BY <1>2 DEF KnownVars, KnownTexts
<1>6. Planned(p, job[p])'
  <2> DEFINE K == KnownVars(job[p])
             T == KnownTexts(p, job[p])
  <2>1. Plan(job'[p].todo, job'[p].kind, K, T)
    BY <1>2, <1>4
  <2>2. K \subseteq K' /\ T \subseteq T'
    BY <1>5
  <2> HIDE DEF K, T
  <2>3. Plan(job'[p].todo, job'[p].kind, K', T')
    BY <2>1, <2>2, PlanMore
  <2> QED
    BY <2>3 DEF Planned, K, T
<1>7. Prepared(job[p])'
  <2>1. Prepared(job[p]) /\ job[p] \in Job
    BY DEF ConfigInv, JobInv, ConfigTypeOK
  <2>2. Working(job[p]) => Place(job[p]) \in Env
    BY <1>4, PlanHead DEF Working, Place
  <2> QED
    BY <1>2, <2>1, <2>2 DEF Prepared, Working, Name, Place
<1> QED
  BY <1>3, <1>6, <1>7 DEF JobInv

\* What has to be shown of a step of q.
LEMMA Stepped ==
    ASSUME ConfigInv, NEW q \in Requests, Busy(q), NEW j \in Job, Become(q, j),
           j.started, j.alone = job[q].alone,
           stored \subseteq stored',
           \A e \in Env : target[e].branch \in Branches => target'[e].branch \in Branches,
           column' \in Column, target' \in [Env -> Target],
           \A e \in Env : target'[e].status # "absent" => target'[e].branch \in Branches,
           app' \in [Env -> [AppIds -> Application]],
           vault' \in [Env -> Vars], stored' \subseteq Env \X Keys \X Value,
           deployed' \in [Env -> [clean : BOOLEAN, vars : Vars, vault : Vars]],
           PushedWasStored', DeployCarriesVault', VaultKnown',
           JobInv(q, j)'
    PROVE  ConfigInv'
<1>1. /\ job' \in [Requests -> Job]
      /\ \A p \in Requests \ {q} : job'[p] = job[p]
      /\ \/ job'[q] = j /\ Working(j)
         \/ job'[q] = Ended(j) /\ ~Working(j)
  BY Becomes DEF ConfigInv
<1>2. ConfigTypeOK'
  BY <1>1 DEF ConfigTypeOK
<1>3. /\ Ended(j).todo = <<>> /\ Ended(j).started
      /\ Ended(j).kind = j.kind /\ Ended(j).branches = j.branches /\ Ended(j).apps = j.apps
      /\ Ended(j).alone = j.alone /\ Ended(j).failed = j.failed
  BY EndedTypes
<1>4. JobInv(q, job[q])'
  <2>1. CASE job'[q] = j
    <3>1. Planned(q, job[q])'
      BY <2>1 DEF JobInv, Planned, KnownVars, KnownTexts
    <3>2. Prepared(job[q])'
      BY <2>1 DEF JobInv, Prepared, Working, Name, Place
    <3>3. Carries(job[q])'
      BY <2>1 DEF JobInv, Carries, Clean, Carrying, Working, Name, Place
    <3>4. Saves(job[q])'
      BY <2>1 DEF JobInv, Saves, Clean, Working, CardSaved, TargetSaved
    <3> QED
      BY <3>1, <3>2, <3>3, <3>4 DEF JobInv
  <2>2. CASE job'[q] = Ended(j) /\ ~Working(j)
    <3>1. job'[q].todo = <<>> /\ j.todo = <<>> /\ ~Working(job[q])'
      BY <2>2, <1>3 DEF Working
    <3>2. Planned(q, job[q])'
      BY <3>1, PlanEnd DEF Planned
    <3>3. Prepared(job[q])'
      BY <3>1, <1>3, <2>2 DEF Prepared, JobInv
    <3>4. Carries(job[q])'
      BY <3>1 DEF Carries
    <3>5. Saves(job[q])'
      <4>1. Saves(j)'
        BY DEF JobInv
      <4>2. job'[q].kind = j.kind /\ job'[q].branches = j.branches /\ job'[q].apps = j.apps
        BY <1>3, <2>2
      <4>3. Clean(job[q])' = Clean(j)
        BY <1>3, <2>2 DEF Clean
      <4> QED
        BY <3>1, <4>1, <4>2, <4>3 DEF Saves, CardSaved, TargetSaved, Working, Clean
    <3> QED
      BY <3>2, <3>3, <3>4, <3>5 DEF JobInv
  <2> QED
    BY <1>1, <2>1, <2>2
<1>5. \A p \in Requests \ {q} : JobInv(p, job[p])'
  BY <1>1, Bystanders
<1>6. Solitary'
  <2>1. ASSUME NEW p \in Requests, job'[p].started /\ job'[p].alone, NEW r \in Requests \ {p}
        PROVE  job'[r].todo = <<>>
    <3>1. CASE p = q
      <4>1. job[q].started
        BY DEF ConfigInv, JobInv, Prepared, Busy, Working
      <4>2. job[q].alone
        BY <1>1, <1>3, <2>1, <3>1
      <4> QED
        BY <3>1, <4>1, <4>2, <1>1 DEF ConfigInv, Solitary, Busy
    <3>2. CASE p # q
      BY <2>1, <3>2, <1>1 DEF ConfigInv, Solitary
    <3> QED
      BY <3>1, <3>2
  <2> QED
    BY <2>1 DEF Solitary, Busy
<1> QED
  BY <1>2, <1>4, <1>5, <1>6 DEF ConfigInv

\* A step that changes nothing but the request.
LEMMA Quietly ==
    ASSUME ConfigInv, NEW q \in Requests, Busy(q), NEW j \in Job, Become(q, j),
           UNCHANGED <<column, target, app, vault, stored, deployed>>,
           j.started, j.alone = job[q].alone, JobInv(q, j)'
    PROVE  ConfigInv'
<1>1. PushedWasStored' /\ DeployCarriesVault' /\ VaultKnown'
  BY DEF ConfigInv, PushedWasStored, DeployCarriesVault, VaultKnown
<1> QED
  BY <1>1, Stepped DEF ConfigInv, ConfigTypeOK

\* Whose turn it is.
LEMMA Turn ==
    ASSUME ConfigInv, NEW q \in Requests, Busy(q)
    PROVE  /\ job[q] \in Job /\ JobInv(q, job[q]) /\ job[q].started /\ Working(job[q])
           /\ Plan(job[q].todo, job[q].kind, KnownVars(job[q]), KnownTexts(q, job[q]))
           /\ job[q].todo \in Seq(PlanStep) /\ job[q].todo # <<>>
           /\ Head(job[q].todo) = job[q].todo[1]
           /\ job[q].todo[1] = <<Name(job[q]), Place(job[q])>>
           /\ Name(job[q]) \in Allowed(job[q].kind) /\ Place(job[q]) \in Env
           /\ Len(job[q].todo) \in Nat /\ Len(job[q].todo) >= 1
<1>1. job[q] \in Job /\ JobInv(q, job[q]) /\ job[q].todo # <<>>
  BY DEF ConfigInv, ConfigTypeOK, Busy
<1>2. Plan(job[q].todo, job[q].kind, KnownVars(job[q]), KnownTexts(q, job[q]))
  BY <1>1 DEF JobInv, Planned
<1>3. job[q].todo \in Seq(PlanStep)
  BY <1>2 DEF Plan
<1>4. job[q].started
  BY <1>1 DEF JobInv, Prepared, Working
<1> QED
  BY <1>1, <1>2, <1>3, <1>4, PlanHead DEF Working, Name, Place

LEMMA AtTurn ==
    ASSUME ConfigInv, NEW q \in Requests, NEW e \in Env, NEW name, At(q, name, e)
    PROVE  Busy(q) /\ Name(job[q]) = name /\ Place(job[q]) = e /\ job[q].todo[1] = <<name, e>>
<1>1. Busy(q) /\ Head(job[q].todo) = <<name, e>>
  BY DEF At
<1> QED
  BY <1>1, Turn DEF Name, Place

\* Where a deploy is.
After(a, b, s) == s[1][1] = a /\ Tail(s)[1] = <<b, s[1][2]>>

LEMMA DeployTurn ==
    ASSUME NEW s \in Seq(PlanStep), s # <<>>, DeployShape(s)
    PROVE  /\ s[1][1] \in {"resolveApp", "locate", "loadVault", "pushKeys", "build", "readColumn", "writeOutcome"}
           /\ s[1][1] # "resolveApp" => Len(s) < 7
           /\ Tail(s) = <<>> \/ After("resolveApp", "locate", s) \/ After("locate", "loadVault", s)
              \/ After("loadVault", "pushKeys", s) \/ After("pushKeys", "build", s)
              \/ After("build", "readColumn", s) \/ After("readColumn", "writeOutcome", s)
<1>1. PICK e \in Env : /\ Len(s) <= 7
                       /\ \A n \in 1..Len(s) : s[n] = <<DeploySteps[7 - Len(s) + n], e>>
  BY DEF DeployShape
<1>2. Len(s) \in Nat /\ Len(s) # 0 /\ (Len(s) > 1 => Tail(s)[1] = s[2]) /\ (Len(s) = 1 => Tail(s) = <<>>)
  OBVIOUS
<1>3. /\ DeploySteps[1] = "resolveApp" /\ DeploySteps[2] = "locate" /\ DeploySteps[3] = "loadVault"
      /\ DeploySteps[4] = "pushKeys" /\ DeploySteps[5] = "build" /\ DeploySteps[6] = "readColumn"
      /\ DeploySteps[7] = "writeOutcome"
  BY DEF DeploySteps
<1> DEFINE l == Len(s)
<1>4. l = 1 \/ l = 2 \/ l = 3 \/ l = 4 \/ l = 5 \/ l = 6 \/ l = 7
  <2>1. l \in Nat /\ l # 0 /\ l <= 7
    BY <1>1, <1>2
  <2> HIDE DEF l
  <2> QED
    BY <2>1
<1>5. s[1] = <<DeploySteps[8 - l], e>> /\ (l > 1 => s[2] = <<DeploySteps[9 - l], e>>)
  <2>1. 1 \in 1..l /\ 7 - l + 1 = 8 - l /\ (l > 1 => 2 \in 1..l /\ 7 - l + 2 = 9 - l)
    BY <1>4
  <2> QED
    BY <2>1, <1>1
<1> HIDE DEF l
<1>6. CASE l = 1
  BY <1>2, <1>3, <1>5, <1>6 DEF l
<1>7. CASE l = 2
  BY <1>2, <1>3, <1>5, <1>7 DEF l, After
<1>8. CASE l = 3
  BY <1>2, <1>3, <1>5, <1>8 DEF l, After
<1>9. CASE l = 4
  BY <1>2, <1>3, <1>5, <1>9 DEF l, After
<1>10. CASE l = 5
  BY <1>2, <1>3, <1>5, <1>10 DEF l, After
<1>11. CASE l = 6
  BY <1>2, <1>3, <1>5, <1>11 DEF l, After
<1>12. CASE l = 7
  BY <1>2, <1>3, <1>5, <1>12 DEF l, After
<1> QED
  BY <1>4, <1>6, <1>7, <1>8, <1>9, <1>10, <1>11, <1>12

LEMMA NotDeploying ==
    ASSUME ConfigInv, NEW q \in Requests, Busy(q),
           Name(job[q]) \notin {"resolveApp", "locate", "loadVault", "pushKeys", "build",
                                "readColumn", "writeOutcome"}
    PROVE  job[q].kind # "deploy"
<1>1. job[q].kind = "deploy" => DeployShape(job[q].todo)
  BY Turn DEF Plan
<1> QED
  BY <1>1, Turn, DeployTurn DEF Name

LEMMA RemainsTail ==
    ASSUME NEW s \in Seq(PlanStep), s # <<>>, NEW step, Remains(s, step), step # s[1]
    PROVE  Remains(Tail(s), step)
<1>1. PICK n \in 1..Len(s) : s[n] = step
  BY DEF Remains
<1>2. n \in 2..Len(s)
  BY <1>1
<1>3. s[n] = Tail(s)[n - 1] /\ n - 1 \in 1..Len(Tail(s))
  BY <1>2, TailOf
<1> QED
  BY <1>1, <1>3 DEF Remains

\* The request goes on to its next step.
LEMMA Goes ==
    ASSUME ConfigInv, NEW q \in Requests, Busy(q), NEW j \in Job, j.todo = Tail(job[q].todo),
           j.started, j.kind = job[q].kind, j.branches = job[q].branches, j.texts = job[q].texts,
           j.alone = job[q].alone,
           stored \subseteq stored',
           Name(job[q]) \in Feeds => Place(job[q]) \in KnownVars(j)',
           Name(job[q]) = "locate" => KnownVars(job[q]) \subseteq KnownVars(j)',
           Name(job[q]) = "storeText" => Place(job[q]) \in KnownTexts(q, j)',
           j.kind = "deploy" => Carries(j)' /\ (Working(j) => j.apps[Place(j)] \in AppIds),
           Saves(j)'
    PROVE  JobInv(q, j)'
<1> DEFINE s == job[q].todo
<1>1. /\ Plan(s, job[q].kind, KnownVars(job[q]), KnownTexts(q, job[q]))
      /\ s \in Seq(PlanStep) /\ s # <<>> /\ Name(job[q]) = s[1][1] /\ Place(job[q]) = s[1][2]
  BY Turn DEF Name, Place
<1>2. KnownTexts(q, job[q]) \subseteq KnownTexts(q, j)'
  BY DEF KnownTexts
<1>3. Planned(q, j)'
  <2> DEFINE K == KnownVars(job[q])
             T == KnownTexts(q, job[q])
             J == KnownVars(j)'
             U == KnownTexts(q, j)'
  <2>1. /\ Plan(s, j.kind, K, T) /\ s # <<>> /\ T \subseteq U
        /\ s[1][1] \in Feeds => s[1][2] \in J
        /\ s[1][1] = "locate" => K \subseteq J
        /\ s[1][1] = "storeText" => s[1][2] \in U
    BY <1>1, <1>2
  <2> HIDE DEF s, K, T, J, U
  <2>2. Plan(Tail(s), j.kind, J, U)
    BY <2>1, PlanTail
  <2> QED
    BY <2>2 DEF Planned, s, J, U
<1>4. Working(j) => j.todo[1][1] \notin Inserted
  <2>1. ASSUME Tail(s) # <<>> PROVE Tail(s)[1][1] \notin Inserted
    <3>1. Tail(s)[1] = s[2] /\ 2 \in 1..Len(s)
      BY <1>1, <2>1
    <3> HIDE DEF s
    <3>2. s[2][1] \notin Inserted
      BY <3>1, <1>1 DEF Plan
    <3> QED
      BY <3>1, <3>2
  <2> QED
    BY <2>1 DEF Working
<1>5. Prepared(j)'
  BY <1>4, Turn DEF Prepared, JobInv, Working, Name, Place, Inserted
<1>6. Carries(j)'
  BY DEF Carries
<1> QED
  BY <1>3, <1>5, <1>6 DEF JobInv

\* The saved configuration stays saved.
LEMMA StaySaved ==
    ASSUME ConfigInv, NEW q \in Requests, Busy(q), NEW j \in Job,
           j.started, j.kind = job[q].kind, j.branches = job[q].branches,
           j.alone = job[q].alone, j.failed = job[q].failed,
           Name(job[q]) \notin {"writeConfig", "compareBranch", "updateBranch"},
           column' = column,
           \A step \in {"writeConfig", "compareBranch"} \X Env :
               Remains(job[q].todo, step) => Remains(j.todo, step),
           \A e \in Env : \/ target'[e] = target[e] /\ j.apps[e] = job[q].apps[e]
                          \/ Remains(j.todo, <<"compareBranch", e>>)
    PROVE  Saves(j)'
<1>1. SUFFICES ASSUME Clean(j), j.kind \in {"patch", "save"}
               PROVE  CardSaved(j)' /\ \A e \in Env : TargetSaved(j, e)'
  BY DEF Saves, Clean
<1>2. /\ Saves(job[q]) /\ Clean(job[q])
      /\ job[q].todo[1] = <<Name(job[q]), Place(job[q])>>
  BY <1>1, Turn DEF JobInv, Clean
<1>3. CardSaved(job[q]) /\ \A e \in Env : TargetSaved(job[q], e)
  BY <1>1, <1>2 DEF Saves
<1>4. CardSaved(j)'
  BY <1>3 DEF CardSaved, Env
<1>5. ASSUME NEW e \in Env PROVE TargetSaved(j, e)'
  <2>1. job[q].todo[1] # <<"updateBranch", e>>
    BY <1>2
  <2>2. CASE Remains(j.todo, <<"compareBranch", e>>)
    BY <2>2 DEF TargetSaved
  <2>3. CASE ~Remains(j.todo, <<"compareBranch", e>>)
    BY <1>3, <2>1, <2>3 DEF TargetSaved
  <2> QED
    BY <2>2, <2>3
<1> QED
  BY <1>4, <1>5

\* What remains after the first step, when it is no step that saves.
LEMMA StillRemains ==
    ASSUME ConfigInv, NEW q \in Requests, Busy(q),
           Name(job[q]) \notin {"writeConfig", "compareBranch"}
    PROVE  \A step \in {"writeConfig", "compareBranch"} \X Env :
               Remains(job[q].todo, step) => Remains(Tail(job[q].todo), step)
<1> TAKE step \in {"writeConfig", "compareBranch"} \X Env
<1>1. job[q].todo \in Seq(PlanStep) /\ job[q].todo # <<>> /\ step # job[q].todo[1]
  BY Turn
<1> QED
  BY <1>1, RemainsTail

\* The common case: a step that is no deploy's, saves nothing and provisions nothing.
LEMMA Proceeds ==
    ASSUME ConfigInv, NEW q \in Requests, Busy(q), NEW j \in Job, j.todo = Tail(job[q].todo),
           j.started, j.kind = job[q].kind, j.branches = job[q].branches, j.texts = job[q].texts,
           j.alone = job[q].alone, j.failed = job[q].failed, j.apps = job[q].apps,
           stored \subseteq stored', target' = target, column' = column,
           Name(job[q]) \notin {"writeConfig", "compareBranch", "updateBranch"},
           Name(job[q]) \in Feeds => Place(job[q]) \in KnownVars(j)',
           Name(job[q]) = "locate" => KnownVars(job[q]) \subseteq KnownVars(j)',
           Name(job[q]) = "storeText" => Place(job[q]) \in KnownTexts(q, j)',
           j.kind = "deploy" => Carries(j)' /\ (Working(j) => j.apps[Place(j)] \in AppIds)
    PROVE  JobInv(q, j)'
<1>1. Saves(j)'
  BY StillRemains, StaySaved
<1> QED
  BY <1>1, Goes

\* A request that met a failure, and stops.
LEMMA Stops ==
    ASSUME ConfigInv, NEW q \in Requests, Busy(q)
    PROVE  /\ Stopped(job[q]) \in Job
           /\ Stopped(job[q]).started /\ Stopped(job[q]).alone = job[q].alone
           /\ \A j \in Job : j = Stopped(job[q]) => JobInv(q, j)'
<1>1. job[q] \in Job /\ job[q].started /\ Prepared(job[q])
  BY Turn DEF JobInv
<1>2. /\ Stopped(job[q]) \in Job /\ Stopped(job[q]).started /\ Stopped(job[q]).failed
      /\ Stopped(job[q]).alone = job[q].alone /\ Stopped(job[q]).todo = <<>>
      /\ Stopped(job[q]).kind = job[q].kind /\ Stopped(job[q]).branches = job[q].branches
  <2>1. <<>> \in Seq(StepNames \X Env) /\ TRUE \in BOOLEAN
    OBVIOUS
  <2> QED
    BY <1>1, <2>1 DEF Stopped, Job
<1>3. ASSUME NEW j \in Job, j = Stopped(job[q]) PROVE JobInv(q, j)'
  <2>1. Planned(q, j)'
    BY <1>2, <1>3, PlanEnd DEF Planned
  <2>2. Prepared(j)'
    BY <1>1, <1>2, <1>3 DEF Prepared, Working
  <2>3. Carries(j)' /\ Saves(j)'
    BY <1>2, <1>3 DEF Carries, Saves, Clean
  <2> QED
    BY <2>1, <2>2, <2>3 DEF JobInv
<1> QED
  BY <1>2, <1>3

\* The request puts a step before the rest.
LEMMA GoesThen ==
    ASSUME ConfigInv, NEW q \in Requests, Busy(q), NEW j \in Job, NEW name \in StepNames,
           j.todo = << <<name, Place(job[q])>> >> \o Tail(job[q].todo),
           j.started, j.kind = job[q].kind, j.branches = job[q].branches, j.texts = job[q].texts,
           stored \subseteq stored',
           \/ Name(job[q]) \in {"findTarget", "upsert"} /\ name \in {"upsert", "createApplication"}
           \/ Name(job[q]) \in {"compareBranch", "updateBranch"} /\ name \in {"updateBranch", "pushBranch"}
           \/ Name(job[q]) = "pushText" /\ name = "pushKeys" /\ Place(job[q]) \in KnownVars(j)',
           name = "updateBranch" => j.branches[Place(job[q])] \in Branches,
           name = "createApplication" => target'[Place(job[q])].branch \in Branches,
           Saves(j)'
    PROVE  JobInv(q, j)' /\ Working(j) /\ j.todo[1] = <<name, Place(job[q])>>
<1> DEFINE s == job[q].todo
<1>1. /\ Plan(s, job[q].kind, KnownVars(job[q]), KnownTexts(q, job[q]))
      /\ s \in Seq(PlanStep) /\ s # <<>> /\ Name(job[q]) = s[1][1] /\ Place(job[q]) = s[1][2]
      /\ Len(s) \in Nat /\ Len(s) >= 1
  BY Turn DEF Name, Place
<1>2. KnownTexts(q, job[q]) \subseteq KnownTexts(q, j)'
  BY DEF KnownTexts
<1>3. Planned(q, j)' /\ Len(j.todo) = Len(s) /\ j.todo[1] = <<name, Place(job[q])>>
  <2> DEFINE K == KnownVars(job[q])
             T == KnownTexts(q, job[q])
             J == KnownVars(j)'
             U == KnownTexts(q, j)'
  <2>1. /\ Plan(s, j.kind, K, T) /\ s # <<>> /\ T \subseteq U
        /\ \/ s[1][1] \in {"findTarget", "upsert"} /\ name \in {"upsert", "createApplication"}
           \/ s[1][1] \in {"compareBranch", "updateBranch"} /\ name \in {"updateBranch", "pushBranch"}
           \/ s[1][1] = "pushText" /\ name = "pushKeys" /\ s[1][2] \in J
    BY <1>1, <1>2
  <2>2. j.todo = << <<name, s[1][2]>> >> \o Tail(s)
    BY <1>1
  <2> HIDE DEF s, K, T, J, U
  <2>3. /\ Plan(<< <<name, s[1][2]>> >> \o Tail(s), j.kind, J, T)
        /\ Len(<< <<name, s[1][2]>> >> \o Tail(s)) = Len(s)
        /\ (<< <<name, s[1][2]>> >> \o Tail(s))[1] = <<name, s[1][2]>>
    <3> DEFINE kind == j.kind
    <3>1. Plan(s, kind, K, T)
      BY <2>1
    <3> HIDE DEF kind
    <3>2. /\ Plan(<< <<name, s[1][2]>> >> \o Tail(s), kind, J, T)
          /\ Len(<< <<name, s[1][2]>> >> \o Tail(s)) = Len(s)
          /\ (<< <<name, s[1][2]>> >> \o Tail(s))[1] = <<name, s[1][2]>>
      <4>1. CASE s[1][1] \in {"findTarget", "upsert"} /\ name \in {"upsert", "createApplication"}
        BY <2>1, <3>1, <4>1, PlanThen
      <4>2. CASE s[1][1] \in {"compareBranch", "updateBranch"} /\ name \in {"updateBranch", "pushBranch"}
        BY <2>1, <3>1, <4>2, PlanThen
      <4>3. CASE s[1][1] = "pushText" /\ name = "pushKeys" /\ s[1][2] \in J
        BY <2>1, <3>1, <4>3, PlanThen
      <4> QED
        BY <2>1, <4>1, <4>2, <4>3
    <3> QED
      BY <3>2 DEF kind
  <2>5. Plan(j.todo, j.kind, J, T) /\ Len(j.todo) = Len(s) /\ j.todo[1] = <<name, s[1][2]>>
    BY <2>2, <2>3
  <2>4. Plan(j.todo, j.kind, J, U)
    BY <2>1, <2>5, PlanMore
  <2> QED
    BY <2>5, <2>4, <1>1 DEF Planned, J, U
<1>4. Working(j)
  BY <1>1, <1>3 DEF Working
<1>5. j.kind # "deploy"
  BY NotDeploying
<1>6. Prepared(j)'
  <2>1. Name(j) = name /\ Place(j) = Place(job[q])
    BY <1>3 DEF Name, Place
  <2> QED
    BY <2>1, <1>4, <1>5, Turn DEF Prepared, JobInv
<1>7. Carries(j)'
  BY <1>5 DEF Carries
<1> QED
  BY <1>3, <1>4, <1>6, <1>7 DEF JobInv

\* And what then remains.
LEMMA ThenRemains ==
    ASSUME ConfigInv, NEW q \in Requests, Busy(q), NEW name \in StepNames, NEW step,
           Remains(job[q].todo, step), step # job[q].todo[1]
    PROVE  Remains(<< <<name, Place(job[q])>> >> \o Tail(job[q].todo), step)
<1> DEFINE s == job[q].todo
           x == <<name, Place(job[q])>>
<1>1. s \in Seq(PlanStep) /\ s # <<>> /\ x \in PlanStep /\ Len(s) \in Nat /\ Len(s) >= 1
  BY Turn DEF PlanStep
<1>2. PICK n \in 1..Len(s) : s[n] = step
  BY DEF Remains
<1> HIDE DEF s, x
<1>3. n \in 2..Len(s)
  BY <1>1, <1>2 DEF s
<1>4. Len(<<x>> \o Tail(s)) = Len(s) /\ (<<x>> \o Tail(s))[n] = s[n]
  BY <1>1, <1>3
<1>5. Remains(<<x>> \o Tail(s), step)
  BY <1>2, <1>4 DEF Remains
<1> QED
  BY <1>5 DEF s, x

\* After a step that provisions, the branch is still to be compared.
LEMMA Compares ==
    ASSUME ConfigInv, NEW q \in Requests, Busy(q), Name(job[q]) \in Provisions
    PROVE  Remains(Tail(job[q].todo), <<"compareBranch", Place(job[q])>>)
           /\ Remains(job[q].todo, <<"compareBranch", Place(job[q])>>)
<1> DEFINE s == job[q].todo
           x == <<"compareBranch", Place(job[q])>>
<1>1. /\ Plan(s, job[q].kind, KnownVars(job[q]), KnownTexts(q, job[q]))
      /\ s \in Seq(PlanStep) /\ s # <<>> /\ Name(job[q]) = s[1][1] /\ Place(job[q]) = s[1][2]
      /\ Len(s) \in Nat /\ Len(s) >= 1
  BY Turn DEF Name, Place
<1>2. 1 \in 1..Len(s)
  BY <1>1
<1>3. \E m \in (1 + 1)..Len(s) : s[m] = x
  BY <1>1, <1>2 DEF Plan
<1>4. Remains(s, x) /\ x # s[1]
  BY <1>1, <1>3 DEF Remains, Provisions
<1> QED
  BY <1>1, <1>4, RemainsTail

\* A step that changes rows of the configuration.
LEMMA Rows ==
    ASSUME ConfigInv, NEW q \in Requests, Busy(q), NEW j \in Job, Become(q, j),
           UNCHANGED <<app, vault, stored, deployed>>,
           column' \in Column, target' \in [Env -> Target],
           \A e \in Env : target[e].branch \in Branches => target'[e].branch \in Branches,
           \A e \in Env : target'[e].status # "absent" => target'[e].branch \in Branches,
           j.started, j.alone = job[q].alone, JobInv(q, j)'
    PROVE  ConfigInv'
<1>1. PushedWasStored' /\ DeployCarriesVault' /\ VaultKnown'
  BY DEF ConfigInv, PushedWasStored, DeployCarriesVault, VaultKnown
<1> QED
  BY <1>1, Stepped DEF ConfigInv, ConfigTypeOK

\* What a step that is done leaves of the request.
Rest(j, d) ==
    /\ d.todo = Tail(j.todo) /\ d.started = j.started /\ d.kind = j.kind /\ d.key = j.key
    /\ d.branches = j.branches /\ d.texts = j.texts /\ d.copy = j.copy /\ d.row = j.row
    /\ d.vars = j.vars /\ d.value = j.value /\ d.boxes = j.boxes /\ d.apps = j.apps
    /\ d.alone = j.alone /\ d.failed = j.failed

LEMMA DoneJob ==
    ASSUME ConfigInv, NEW q \in Requests, Busy(q)
    PROVE  /\ Done(job[q]) \in Job /\ job[q] \in Job /\ job[q].started
           /\ Rest(job[q], Done(job[q]))
<1>1. Tail(job[q].todo) \in Seq(StepNames \X Env)
  BY Turn, TailOf DEF PlanStep
<1>2. job[q] \in Job /\ job[q].started
  BY Turn
<1> QED
  BY <1>1, <1>2 DEF Done, Job, Rest

\* Other fields of a request.
LEMMA Fields ==
    ASSUME NEW d \in Job
    PROVE  /\ \A c \in Column : [d EXCEPT !.copy = c] \in Job
           /\ \A r \in Target : [d EXCEPT !.row = r] \in Job
           /\ \A v \in Vars : [d EXCEPT !.vars = v] \in Job
           /\ \A v \in Value \cup {NoValue} : [d EXCEPT !.value = v] \in Job
           /\ \A b \in [Env -> Vars] : [d EXCEPT !.boxes = b] \in Job
           /\ \A a \in [Env -> AppIds \cup {NoApp}] : [d EXCEPT !.apps = a] \in Job
           /\ \A t \in Seq(StepNames \X Env) : [d EXCEPT !.todo = t] \in Job
           /\ [d EXCEPT !.failed = TRUE] \in Job
  BY DEF Job

-----------------------------------------------------------------------------
(***************************************************************************)
(* The steps, one by one.                                                  *)
(***************************************************************************)

LEMMA FreshTypes ==
    ASSUME NEW b, b.staging \in Branches \cup {NoBranch}, b.production \in Branches \cup {NoBranch},
           b.branch \in Branches \cup {NoBranch}, b["staging"] = b.staging, b["production"] = b.production
    PROVE  FreshColumn(b) \in Column
<1> DEFINE envs == [e \in Env |-> [branch |-> ResolveBranch(b, e), commit |-> NoCommit, status |-> "idle"]]
<1>1. \A e \in Env : ResolveBranch(b, e) \in Branches
  BY ConfigAssumption DEF ResolveBranch, Named, DefaultBranch, Env
<1>2. envs \in [Env -> EnvRow]
  BY <1>1 DEF EnvRow
<1>3. FreshColumn(b) = [exists |-> TRUE, ahead |-> FALSE, envs |-> envs]
  BY DEF FreshColumn
<1> HIDE DEF envs
<1> QED
  BY <1>2, <1>3 DEF Column

LEMMA ToRecordTypes ==
    ASSUME NEW c \in Column
    PROVE  ToRecord(c) \in Column /\ ToRecord(c).envs = c.envs
<1>1. AheadOfProd(c.envs) \in BOOLEAN
  BY DEF AheadOfProd
<1> QED
  BY <1>1 DEF ToRecord, Column

LEMMA CreateKeeps ==
    ASSUME ConfigInv, NEW q \in Requests, NEW e \in Env, Create(q, e)
    PROVE  ConfigInv'
<1>1. At(q, "create", e) /\ Become(q, Done(job[q])) /\ UNCHANGED <<target, app, vault, stored, deployed>>
  BY DEF Create
<1>2. Busy(q) /\ Name(job[q]) = "create"
  BY <1>1, AtTurn
<1>3. PICK j \in Job : j = Done(job[q])
  BY <1>2, DoneJob
<1>4. /\ j.todo = Tail(job[q].todo) /\ j.started /\ j.kind = job[q].kind /\ j.branches = job[q].branches
      /\ j.texts = job[q].texts /\ j.alone = job[q].alone
  BY <1>2, <1>3, DoneJob DEF Rest
<1>5. j.kind \notin {"patch", "save"}
  BY <1>2, <1>4, Turn DEF Allowed, Barred
<1>6. j.kind # "deploy"
  BY <1>2, <1>4, NotDeploying
<1>7. Saves(j)'
  BY <1>5 DEF Saves
<1>8. JobInv(q, j)'
  BY <1>1, <1>2, <1>4, <1>6, <1>7, Goes DEF Feeds
<1>9. column' \in Column
  <2> DEFINE b == [branch |-> NoBranch, staging |-> job[q].branches["staging"],
                   production |-> job[q].branches["production"]]
  <2>1. job[q].branches \in [Env -> Branches \cup {NoBranch}]
    BY <1>2, Turn DEF Job
  <2>2. FreshColumn(b) \in Column
    BY <2>1, FreshTypes DEF Env
  <2>3. column' = IF column.exists THEN column ELSE FreshColumn(b)
    BY DEF Create
  <2> HIDE DEF b
  <2> QED
    BY <2>2, <2>3 DEF ConfigInv, ConfigTypeOK
<1> QED
  BY <1>1, <1>2, <1>3, <1>4, <1>8, <1>9, Rows DEF ConfigInv, ConfigTypeOK

LEMMA ReadColumnKeeps ==
    ASSUME ConfigInv, NEW q \in Requests, NEW e \in Env, ReadColumn(q, e)
    PROVE  ConfigInv'
<1>1. /\ At(q, "readColumn", e) /\ UNCHANGED <<column, target, app, vault, stored, deployed>>
      /\ Become(q, IF column.exists THEN [Done(job[q]) EXCEPT !.copy = ToRecord(column)] ELSE Stopped(job[q]))
  BY DEF ReadColumn
<1>2. Busy(q) /\ Name(job[q]) = "readColumn" /\ job[q].todo[1] = <<"readColumn", e>>
  BY <1>1, AtTurn
<1>3. CASE column.exists
  <2>1. ToRecord(column) \in Column
    BY ToRecordTypes DEF ConfigInv, ConfigTypeOK
  <2>2. PICK j \in Job : j = [Done(job[q]) EXCEPT !.copy = ToRecord(column)]
    <3>1. PICK d \in Job : d = Done(job[q])
      BY <1>2, DoneJob
    <3> QED
      BY <2>1, <3>1, Fields
  <2>3. /\ j.todo = Tail(job[q].todo) /\ j.started /\ j.kind = job[q].kind /\ j.branches = job[q].branches
        /\ j.texts = job[q].texts /\ j.alone = job[q].alone /\ j.failed = job[q].failed
        /\ j.apps = job[q].apps
    BY <1>2, <2>2, DoneJob DEF Job, Rest
  <2>4. j.kind = "deploy" => Carries(j)' /\ (Working(j) => j.apps[Place(j)] \in AppIds)
    <3>1. ASSUME j.kind = "deploy", Working(j)
          PROVE  Name(j) = "writeOutcome" /\ Place(j) = Place(job[q]) /\ Len(job[q].todo) < 7
      <4>1. DeployShape(job[q].todo) /\ job[q].todo \in Seq(PlanStep) /\ job[q].todo # <<>>
        BY <1>2, <2>3, <3>1, Turn DEF Plan
      <4> QED
        BY <1>2, <2>3, <3>1, <4>1, DeployTurn DEF Name, Place, Working, After
    <3> QED
      BY <1>2, <2>3, <3>1, Turn DEF Carries, JobInv, Prepared
  <2>5. JobInv(q, j)'
    BY <1>1, <1>2, <2>3, <2>4, Proceeds DEF Feeds
  <2> QED
    BY <1>1, <1>2, <1>3, <2>2, <2>3, <2>5, Quietly
<1>4. CASE ~column.exists
  BY <1>1, <1>2, <1>4, Stops, Quietly
<1> QED
  BY <1>3, <1>4

LEMMA WriteConfigKeeps ==
    ASSUME ConfigInv, NEW q \in Requests, NEW e \in Env, WriteConfig(q, e)
    PROVE  ConfigInv'
<1> DEFINE New == WithBranches(job[q].copy.envs, job[q].branches)
<1>1. /\ At(q, "writeConfig", e) /\ UNCHANGED <<target, app, vault, stored, deployed>>
      /\ column' = [job[q].copy EXCEPT !.envs = New]
      /\ Become(q, [Done(job[q]) EXCEPT !.copy = EmptyColumn])
  BY DEF WriteConfig
<1>2. Busy(q) /\ Name(job[q]) = "writeConfig" /\ job[q].todo[1] = <<"writeConfig", e>>
  BY <1>1, AtTurn
<1>3. PICK j \in Job : j = [Done(job[q]) EXCEPT !.copy = EmptyColumn]
  <2>1. PICK d \in Job : d = Done(job[q])
    BY <1>2, DoneJob
  <2> QED
    BY <2>1, StartTypes, Fields
<1>4. /\ j.todo = Tail(job[q].todo) /\ j.started /\ j.kind = job[q].kind /\ j.branches = job[q].branches
      /\ j.texts = job[q].texts /\ j.alone = job[q].alone /\ j.failed = job[q].failed
      /\ j.apps = job[q].apps
  BY <1>2, <1>3, DoneJob DEF Job, Rest
<1>5. job[q].copy \in Column /\ job[q].branches \in [Env -> Branches \cup {NoBranch}]
  BY <1>2, Turn DEF Job
<1>6. New \in [Env -> EnvRow] /\ \A f \in Env : job[q].branches[f] # NoBranch => New[f].branch = job[q].branches[f]
  BY <1>5 DEF Column, EnvRow, WithBranches
<1> HIDE DEF New
<1>7. column' \in Column /\ column'.envs = New
  BY <1>1, <1>5, <1>6 DEF Column
<1>8. Saves(j)'
  <2>1. CardSaved(j)'
    BY <1>4, <1>6, <1>7 DEF CardSaved
  <2>2. ASSUME Clean(j), j.kind \in {"patch", "save"}, NEW f \in Env PROVE TargetSaved(j, f)'
    <3>1. TargetSaved(job[q], f)
      BY <1>2, <1>4, <2>2, Turn DEF JobInv, Saves, Clean
    <3>2. Remains(job[q].todo, <<"compareBranch", f>>) => Remains(j.todo, <<"compareBranch", f>>)
      BY <1>2, <1>4, Turn, RemainsTail
    <3> QED
      BY <1>1, <1>2, <1>4, <3>1, <3>2 DEF TargetSaved
  <2> QED
    BY <2>1, <2>2 DEF Saves, Clean
<1>9. JobInv(q, j)'
  BY <1>1, <1>2, <1>4, <1>8, NotDeploying, Goes DEF Feeds
<1> QED
  BY <1>1, <1>2, <1>3, <1>4, <1>7, <1>9, Rows DEF ConfigInv, ConfigTypeOK

LEMMA WriteOutcomeKeeps ==
    ASSUME ConfigInv, NEW q \in Requests, NEW e \in Env, WriteOutcome(q, e)
    PROVE  ConfigInv'
<1>1. /\ At(q, "writeOutcome", e) /\ UNCHANGED <<target, app, vault, stored, deployed>>
      /\ \E status \in {"active", "error"}, commit \in Commits \cup {NoCommit} :
           column' = ToRecord([job[q].copy EXCEPT !.envs[e].status = status, !.envs[e].commit = commit])
      /\ Become(q, [Done(job[q]) EXCEPT !.copy = EmptyColumn])
  BY DEF WriteOutcome
<1>2. Busy(q) /\ Name(job[q]) = "writeOutcome" /\ job[q].todo[1] = <<"writeOutcome", e>>
  BY <1>1, AtTurn
<1>3. PICK j \in Job : j = [Done(job[q]) EXCEPT !.copy = EmptyColumn]
  <2>1. PICK d \in Job : d = Done(job[q])
    BY <1>2, DoneJob
  <2> QED
    BY <2>1, StartTypes, Fields
<1>4. /\ j.todo = Tail(job[q].todo) /\ j.started /\ j.kind = job[q].kind /\ j.branches = job[q].branches
      /\ j.texts = job[q].texts /\ j.alone = job[q].alone /\ j.failed = job[q].failed
      /\ j.apps = job[q].apps
  BY <1>2, <1>3, DoneJob DEF Job, Rest
<1>5. column' \in Column
  <2>1. PICK status \in {"active", "error"}, commit \in Commits \cup {NoCommit} :
           column' = ToRecord([job[q].copy EXCEPT !.envs[e].status = status, !.envs[e].commit = commit])
    BY <1>1
  <2>2. PICK c \in Column : c = job[q].copy
    BY <1>2, Turn DEF Job
  <2>3. [c EXCEPT !.envs[e].status = status, !.envs[e].commit = commit] \in Column
    <3>1. [c.envs EXCEPT ![e].status = status, ![e].commit = commit] \in [Env -> EnvRow]
      BY DEF Column, EnvRow
    <3> QED
      BY <3>1 DEF Column
  <2> QED
    BY <2>1, <2>2, <2>3, ToRecordTypes
<1>6. j.kind \notin {"patch", "save"}
  BY <1>2, <1>4, Turn DEF Allowed, Barred
<1>7. j.kind = "deploy" => ~Working(j)
  <2>1. ASSUME j.kind = "deploy" PROVE Tail(job[q].todo) = <<>>
    <3>1. DeployShape(job[q].todo) /\ job[q].todo \in Seq(PlanStep) /\ job[q].todo # <<>>
      BY <1>2, <1>4, <2>1, Turn DEF Plan
    <3> QED
      BY <1>2, <3>1, DeployTurn DEF After
  <2> QED
    BY <1>4, <2>1 DEF Working
<1>8. JobInv(q, j)'
  BY <1>1, <1>2, <1>4, <1>6, <1>7, Goes DEF Feeds, Saves, Carries
<1> QED
  BY <1>1, <1>2, <1>3, <1>4, <1>5, <1>8, Rows DEF ConfigInv, ConfigTypeOK

LEMMA PatchTargetKeeps ==
    ASSUME ConfigInv, NEW q \in Requests, NEW e \in Env, PatchTarget(q, e)
    PROVE  ConfigInv'
<1>1. /\ At(q, "patchTarget", e) /\ UNCHANGED <<column, app, vault, stored, deployed>>
      /\ target' = IF target[e].status = "absent" THEN target
                   ELSE [target EXCEPT ![e].branch = job[q].branches[e]]
      /\ Become(q, Done(job[q]))
  BY DEF PatchTarget
<1>2. Busy(q) /\ Name(job[q]) = "patchTarget" /\ job[q].todo[1] = <<"patchTarget", e>>
  BY <1>1, AtTurn
<1>3. PICK j \in Job : j = Done(job[q])
  BY <1>2, DoneJob
<1>4. /\ j.todo = Tail(job[q].todo) /\ j.started /\ j.kind = job[q].kind /\ j.branches = job[q].branches
      /\ j.texts = job[q].texts /\ j.alone = job[q].alone /\ j.failed = job[q].failed
      /\ j.apps = job[q].apps
  BY <1>2, <1>3, DoneJob DEF Job, Rest
<1>5. job[q].branches[e] \in Branches
  BY <1>2, Turn DEF Allowed, Barred, JobInv, Prepared
<1>6. /\ target' \in [Env -> Target]
      /\ \A f \in Env : target'[f] = target[f]
                        \/ /\ f = e /\ target'[f].branch = job[q].branches[f]
      /\ \A f \in Env : target'[f].status = target[f].status
  BY <1>1, <1>5 DEF ConfigInv, ConfigTypeOK, Target
<1>7. Saves(j)'
  <2>1. ASSUME Clean(j), j.kind \in {"patch", "save"} PROVE CardSaved(j)' /\ \A f \in Env : TargetSaved(j, f)'
    <3>1. CardSaved(job[q]) /\ \A f \in Env : TargetSaved(job[q], f)
      BY <1>2, <1>4, <2>1, Turn DEF JobInv, Saves, Clean
    <3>2. \A step \in {"writeConfig", "compareBranch"} \X Env :
              Remains(job[q].todo, step) => Remains(j.todo, step)
      BY <1>2, <1>4, StillRemains
    <3>3. CardSaved(j)'
      BY <1>1, <1>4, <3>1, <3>2 DEF CardSaved, Env
    <3>4. ASSUME NEW f \in Env PROVE TargetSaved(j, f)'
      BY <1>2, <1>4, <1>6, <3>1, <3>2 DEF TargetSaved
    <3> QED
      BY <3>3, <3>4
  <2> QED
    BY <2>1 DEF Saves, Clean
<1>8. JobInv(q, j)'
  BY <1>1, <1>2, <1>4, <1>7, NotDeploying, Goes DEF Feeds
<1>9. /\ \A f \in Env : target[f].branch \in Branches => target'[f].branch \in Branches
      /\ \A f \in Env : target'[f].status # "absent" => target'[f].branch \in Branches
  BY <1>5, <1>6 DEF ConfigInv, ConfigTypeOK
<1> QED
  BY <1>1, <1>2, <1>3, <1>4, <1>6, <1>8, <1>9, Rows DEF ConfigInv, ConfigTypeOK

LEMMA FindTargetKeeps ==
    ASSUME ConfigInv, NEW q \in Requests, NEW e \in Env, FindTarget(q, e)
    PROVE  ConfigInv'
<1>1. /\ At(q, "findTarget", e) /\ UNCHANGED <<column, target, app, vault, stored, deployed>>
      /\ Become(q, IF target[e].status = "ready" /\ target[e].app # NoApp
                   THEN [Done(job[q]) EXCEPT !.apps[e] = target[e].app]
                   ELSE Then(job[q], "upsert", e))
  BY DEF FindTarget
<1>2. Busy(q) /\ Name(job[q]) = "findTarget" /\ Place(job[q]) = e /\ job[q].todo[1] = <<"findTarget", e>>
  BY <1>1, AtTurn
<1>3. /\ Remains(Tail(job[q].todo), <<"compareBranch", e>>)
      /\ Remains(job[q].todo, <<"compareBranch", e>>)
  BY <1>2, Compares DEF Provisions
<1>4. CASE target[e].status = "ready" /\ target[e].app # NoApp
  <2>1. PICK d \in Job : d = Done(job[q])
    BY <1>2, DoneJob
  <2>2. [d.apps EXCEPT ![e] = target[e].app] \in [Env -> AppIds \cup {NoApp}]
    BY DEF Job, ConfigInv, ConfigTypeOK, Target
  <2>3. PICK j \in Job : j = [d EXCEPT !.apps[e] = target[e].app]
    BY <2>2, Fields
  <2>4. /\ j.todo = Tail(job[q].todo) /\ j.started /\ j.kind = job[q].kind /\ j.branches = job[q].branches
        /\ j.texts = job[q].texts /\ j.alone = job[q].alone /\ j.failed = job[q].failed
        /\ \A f \in Env \ {e} : j.apps[f] = job[q].apps[f]
    BY <1>2, <2>1, <2>3, DoneJob DEF Job, Rest
  <2>5. Saves(j)'
    <3>1. \A step \in {"writeConfig", "compareBranch"} \X Env :
              Remains(job[q].todo, step) => Remains(j.todo, step)
      BY <1>2, <2>4, StillRemains
    <3>2. \A f \in Env : \/ target'[f] = target[f] /\ j.apps[f] = job[q].apps[f]
                         \/ Remains(j.todo, <<"compareBranch", f>>)
      BY <1>1, <1>3, <2>4
    <3> QED
      BY <1>1, <1>2, <2>4, <3>1, <3>2, StaySaved
  <2>6. JobInv(q, j)'
    BY <1>1, <1>2, <2>4, <2>5, NotDeploying, Goes DEF Feeds
  <2> QED
    BY <1>1, <1>2, <1>4, <2>1, <2>3, <2>4, <2>6, Quietly
<1>5. CASE ~(target[e].status = "ready" /\ target[e].app # NoApp)
  <2>1. << <<"upsert", e>> >> \o Tail(job[q].todo) \in Seq(StepNames \X Env)
    BY <1>2, Turn, TailOf DEF PlanStep, StepNames
  <2>2. PICK j \in Job : j = Then(job[q], "upsert", e)
    BY <1>2, <2>1, Turn, Fields DEF Then
  <2>3. /\ j.todo = << <<"upsert", e>> >> \o Tail(job[q].todo)
        /\ j.started /\ j.kind = job[q].kind /\ j.branches = job[q].branches
        /\ j.texts = job[q].texts /\ j.alone = job[q].alone /\ j.failed = job[q].failed
        /\ j.apps = job[q].apps
    BY <1>2, <2>2, Turn DEF Job, Then
  <2>4. Saves(j)'
    <3>1. \A step \in {"writeConfig", "compareBranch"} \X Env :
              Remains(job[q].todo, step) => Remains(j.todo, step)
      <4> TAKE step \in {"writeConfig", "compareBranch"} \X Env
      <4>1. step # job[q].todo[1] /\ "upsert" \in StepNames
        BY <1>2 DEF StepNames
      <4> QED
        BY <1>2, <2>3, <4>1, ThenRemains
    <3> QED
      BY <1>1, <1>2, <2>3, <3>1, StaySaved
  <2>5. JobInv(q, j)'
    BY <1>1, <1>2, <2>3, <2>4, GoesThen DEF StepNames
  <2> QED
    BY <1>1, <1>2, <1>5, <2>2, <2>3, <2>5, Quietly
<1> QED
  BY <1>4, <1>5

\* What a step that puts another in its place leaves of the request.
ThenRest(j, d, name, e) ==
    /\ d.todo = << <<name, e>> >> \o Tail(j.todo) /\ d.started = j.started /\ d.kind = j.kind /\ d.key = j.key
    /\ d.branches = j.branches /\ d.texts = j.texts /\ d.copy = j.copy /\ d.row = j.row
    /\ d.vars = j.vars /\ d.value = j.value /\ d.boxes = j.boxes /\ d.apps = j.apps
    /\ d.alone = j.alone /\ d.failed = j.failed

LEMMA ThenJob ==
    ASSUME ConfigInv, NEW q \in Requests, Busy(q), NEW e \in Env, NEW name \in StepNames
    PROVE  /\ Then(job[q], name, e) \in Job /\ job[q] \in Job /\ job[q].started
           /\ ThenRest(job[q], Then(job[q], name, e), name, e)
<1>1. << <<name, e>> >> \o Tail(job[q].todo) \in Seq(StepNames \X Env)
  BY Turn, TailOf DEF PlanStep
<1>2. job[q] \in Job /\ job[q].started
  BY Turn
<1> QED
  BY <1>1, <1>2 DEF Then, Job, ThenRest

LEMMA UpsertKeeps ==
    ASSUME ConfigInv, NEW q \in Requests, NEW e \in Env, Upsert(q, e)
    PROVE  ConfigInv'
<1>1. /\ At(q, "upsert", e) /\ UNCHANGED <<column, app, vault, stored, deployed>>
      /\ target' = [target EXCEPT ![e].status = "provisioning", ![e].branch = job[q].branches[e]]
      /\ Become(q, [Then(job[q], "createApplication", e) EXCEPT !.apps[e] = target[e].app])
  BY DEF Upsert
<1>2. Busy(q) /\ Name(job[q]) = "upsert" /\ Place(job[q]) = e /\ job[q].todo[1] = <<"upsert", e>>
  BY <1>1, AtTurn
<1>3. Remains(job[q].todo, <<"compareBranch", e>>)
  BY <1>2, Compares DEF Provisions
<1>4. job[q].branches[e] \in Branches
  BY <1>2, Turn DEF Allowed, Barred, JobInv, Prepared
<1>5. /\ target' \in [Env -> Target]
      /\ \A f \in Env \ {e} : target'[f] = target[f]
      /\ target'[e].branch = job[q].branches[e]
  BY <1>1, <1>4 DEF ConfigInv, ConfigTypeOK, Target
<1>6. "createApplication" \in StepNames
  BY DEF StepNames
<1>7. PICK d \in Job : d = Then(job[q], "createApplication", e)
  BY <1>2, <1>6, ThenJob
<1>8. [d.apps EXCEPT ![e] = target[e].app] \in [Env -> AppIds \cup {NoApp}]
  BY DEF Job, ConfigInv, ConfigTypeOK, Target
<1>9. PICK j \in Job : j = [d EXCEPT !.apps[e] = target[e].app]
  BY <1>8, Fields
<1>10. /\ j.todo = << <<"createApplication", e>> >> \o Tail(job[q].todo)
       /\ j.started /\ j.kind = job[q].kind /\ j.branches = job[q].branches
       /\ j.texts = job[q].texts /\ j.alone = job[q].alone /\ j.failed = job[q].failed
       /\ \A f \in Env \ {e} : j.apps[f] = job[q].apps[f]
  <2>1. ThenRest(job[q], d, "createApplication", e) /\ job[q].started
    BY <1>2, <1>6, <1>7, ThenJob
  <2> QED
    BY <1>9, <2>1 DEF Job, ThenRest
<1>11. Saves(j)'
  <2>1. \A step \in {"writeConfig", "compareBranch"} \X Env :
            Remains(job[q].todo, step) => Remains(j.todo, step)
    <3> TAKE step \in {"writeConfig", "compareBranch"} \X Env
    <3>1. step # job[q].todo[1]
      BY <1>2
    <3> QED
      BY <1>2, <1>6, <1>10, <3>1, ThenRemains
  <2>2. Remains(j.todo, <<"compareBranch", e>>)
    BY <1>3, <2>1
  <2>3. \A f \in Env : \/ target'[f] = target[f] /\ j.apps[f] = job[q].apps[f]
                       \/ Remains(j.todo, <<"compareBranch", f>>)
    BY <1>5, <1>10, <2>2
  <2> QED
    BY <1>1, <1>2, <1>10, <2>1, <2>3, StaySaved
<1>12. JobInv(q, j)'
  BY <1>1, <1>2, <1>4, <1>5, <1>6, <1>10, <1>11, GoesThen
<1>13. /\ \A f \in Env : target[f].branch \in Branches => target'[f].branch \in Branches
       /\ \A f \in Env : target'[f].status # "absent" => target'[f].branch \in Branches
  BY <1>4, <1>5 DEF ConfigInv, ConfigTypeOK
<1> QED
  BY <1>1, <1>2, <1>5, <1>7, <1>9, <1>10, <1>12, <1>13, Rows DEF ConfigInv, ConfigTypeOK

\* A step that changes applications: they get what the vault has held, or an address
\* made from it.
LEMMA Applications ==
    ASSUME ConfigInv, NEW q \in Requests, Busy(q), NEW j \in Job, Become(q, j),
           UNCHANGED <<column, vault, stored, deployed>>,
           target' \in [Env -> Target],
           \A e \in Env : target[e].branch \in Branches => target'[e].branch \in Branches,
           \A e \in Env : target'[e].status # "absent" => target'[e].branch \in Branches,
           app' \in [Env -> [AppIds -> Application]],
           \A e \in Env, a \in AppIds, k \in Keys :
               app'[e][a].vars[k] # NoValue =>
                   \/ app'[e][a].vars[k] = app[e][a].vars[k]
                   \/ <<e, k, app'[e][a].vars[k]>> \in stored
                   \/ app'[e][a].vars[k][3] = "derived",
           j.started, j.alone = job[q].alone, JobInv(q, j)'
    PROVE  ConfigInv'
<1>1. PushedWasStored'
  <2> SUFFICES ASSUME NEW e \in Env, NEW a \in AppIds, NEW k \in Keys, app'[e][a].vars[k] # NoValue
               PROVE  \/ <<e, k, app'[e][a].vars[k]>> \in stored
                      \/ app'[e][a].vars[k][3] = "derived"
    BY DEF PushedWasStored
  <2>1. app[e][a].vars[k] # NoValue =>
            \/ <<e, k, app[e][a].vars[k]>> \in stored
            \/ app[e][a].vars[k][3] = "derived"
    BY DEF ConfigInv, PushedWasStored
  <2> QED
    BY <2>1
<1>2. DeployCarriesVault' /\ VaultKnown'
  BY DEF ConfigInv, DeployCarriesVault, VaultKnown
<1> QED
  BY <1>1, <1>2, Stepped DEF ConfigInv, ConfigTypeOK

\* An application's branch.
LEMMA Branching ==
    ASSUME ConfigInv, NEW e \in Env, NEW a, NEW b \in Branches \cup {NoBranch}
    PROVE  /\ [app EXCEPT ![e][a].branch = b] \in [Env -> [AppIds -> Application]]
           /\ \A f \in Env, c \in AppIds : [app EXCEPT ![e][a].branch = b][f][c].vars = app[f][c].vars
<1>1. app \in [Env -> [AppIds -> Application]]
  BY DEF ConfigInv, ConfigTypeOK
<1> DEFINE changed == [app[e] EXCEPT ![a].branch = b]
<1>2. changed \in [AppIds -> Application] /\ \A c \in AppIds : changed[c].vars = app[e][c].vars
  <2>1. PICK f \in [AppIds -> Application] : f = app[e]
    BY <1>1
  <2>2. \A r \in Application : [r EXCEPT !.branch = b] \in Application /\ [r EXCEPT !.branch = b].vars = r.vars
    BY DEF Application
  <2>3. [f EXCEPT ![a] = [f[a] EXCEPT !.branch = b]] \in [AppIds -> Application]
    BY <2>2
  <2>4. \A c \in AppIds : [f EXCEPT ![a] = [f[a] EXCEPT !.branch = b]][c].vars = f[c].vars
    BY <2>2
  <2>5. changed = [f EXCEPT ![a] = [f[a] EXCEPT !.branch = b]]
    BY <2>1
  <2> QED
    BY <2>1, <2>3, <2>4, <2>5
<1>3. [app EXCEPT ![e][a].branch = b] = [app EXCEPT ![e] = changed]
  OBVIOUS
<1> HIDE DEF changed
<1> QED
  BY <1>1, <1>2, <1>3

LEMMA CreateApplicationKeeps ==
    ASSUME ConfigInv, NEW q \in Requests, NEW e \in Env, CreateApplication(q, e)
    PROVE  ConfigInv'
<1>1. At(q, "createApplication", e) /\ UNCHANGED <<column, vault, stored, deployed>>
  BY DEF CreateApplication
<1>2. /\ Busy(q) /\ Name(job[q]) = "createApplication" /\ Place(job[q]) = e
      /\ job[q].todo[1] = <<"createApplication", e>>
  BY <1>1, AtTurn
<1>3. Remains(Tail(job[q].todo), <<"compareBranch", e>>)
  BY <1>2, Compares DEF Provisions
<1>4. target[e].branch \in Branches
  BY <1>2, Turn DEF JobInv, Prepared
<1>5. PICK d \in Job : d = Done(job[q])
  BY <1>2, DoneJob
<1>6. Rest(job[q], d) /\ job[q].started
  BY <1>2, <1>5, DoneJob
<1>7. job[q].branches[e] \in Branches \cup {NoBranch}
  BY <1>2, Turn DEF Job

\* Wherever it ends, a request that goes on keeps what it must.
<1>8. ASSUME NEW j \in Job, j.todo = d.todo, j.started, j.kind = d.kind, j.branches = d.branches,
             j.texts = d.texts, j.alone = d.alone, j.failed = d.failed,
             \A f \in Env \ {e} : j.apps[f] = d.apps[f],
             \A f \in Env \ {e} : target'[f] = target[f]
      PROVE  JobInv(q, j)'
  <2>1. /\ j.todo = Tail(job[q].todo) /\ j.kind = job[q].kind /\ j.branches = job[q].branches
        /\ j.texts = job[q].texts /\ j.alone = job[q].alone /\ j.failed = job[q].failed
        /\ \A f \in Env \ {e} : j.apps[f] = job[q].apps[f]
    BY <1>6, <1>8 DEF Rest
  <2>2. \A step \in {"writeConfig", "compareBranch"} \X Env :
            Remains(job[q].todo, step) => Remains(j.todo, step)
    BY <1>2, <2>1, StillRemains
  <2>3. \A f \in Env : \/ target'[f] = target[f] /\ j.apps[f] = job[q].apps[f]
                       \/ Remains(j.todo, <<"compareBranch", f>>)
    BY <1>3, <1>8, <2>1
  <2>4. Saves(j)'
    BY <1>1, <1>2, <1>8, <2>1, <2>2, <2>3, StaySaved
  <2> QED
    BY <1>1, <1>2, <1>8, <2>1, <2>4, NotDeploying, Goes DEF Feeds
<1>9. ASSUME NEW status \in {"ready", "error"}, target' = [target EXCEPT ![e].status = status]
      PROVE  /\ target' \in [Env -> Target]
             /\ \A f \in Env \ {e} : target'[f] = target[f]
             /\ \A f \in Env : target'[f].branch = target[f].branch
             /\ \A f \in Env : target'[f].status # "absent" => target'[f].branch \in Branches
  BY <1>4, <1>9 DEF ConfigInv, ConfigTypeOK, Target
<1>10. ASSUME target' = [target EXCEPT ![e].status = "ready"], Become(q, Done(job[q])), UNCHANGED app
       PROVE  ConfigInv'
  <2>1. JobInv(q, d)'
    BY <1>6, <1>8, <1>9, <1>10 DEF Rest
  <2> QED
    BY <1>1, <1>2, <1>5, <1>6, <1>9, <1>10, <2>1, Rows DEF Rest, ConfigInv, ConfigTypeOK
<1>11. ASSUME app' = [app EXCEPT ![e][q].branch = job[q].branches[e]],
              target' = [target EXCEPT ![e].status = "ready", ![e].app = q],
              Become(q, [Done(job[q]) EXCEPT !.apps[e] = q])
       PROVE  ConfigInv'
  <2>1. q \in AppIds
    BY DEF AppIds
  <2>2. /\ target' \in [Env -> Target]
        /\ \A f \in Env \ {e} : target'[f] = target[f]
        /\ \A f \in Env : target'[f].branch = target[f].branch
        /\ \A f \in Env : target'[f].status # "absent" => target'[f].branch \in Branches
    <3>1. PICK t \in Target : t = target[e]
      BY DEF ConfigInv, ConfigTypeOK
    <3> DEFINE r == [t EXCEPT !.status = "ready", !.app = q]
    <3>2. r \in Target /\ r.branch = t.branch
      BY <2>1 DEF Target
    <3>3. target' = [target EXCEPT ![e] = r]
      BY <1>11, <3>1
    <3> HIDE DEF r
    <3> QED
      BY <1>4, <3>1, <3>2, <3>3 DEF ConfigInv, ConfigTypeOK
  <2>3. [d.apps EXCEPT ![e] = q] \in [Env -> AppIds \cup {NoApp}]
    BY <2>1 DEF Job
  <2>4. PICK j \in Job : j = [d EXCEPT !.apps[e] = q]
    BY <2>3, Fields
  <2>5. /\ j.todo = d.todo /\ j.started /\ j.kind = d.kind /\ j.branches = d.branches
        /\ j.texts = d.texts /\ j.alone = d.alone /\ j.failed = d.failed
        /\ \A f \in Env \ {e} : j.apps[f] = d.apps[f]
    BY <1>6, <2>4 DEF Job, Rest
  <2>6. JobInv(q, j)'
    BY <1>8, <2>2, <2>5
  <2>7. /\ app' \in [Env -> [AppIds -> Application]]
        /\ \A f \in Env, c \in AppIds : app'[f][c].vars = app[f][c].vars
    <3> DEFINE b == job[q].branches[e]
    <3>1. app' = [app EXCEPT ![e][q].branch = b] /\ b \in Branches \cup {NoBranch}
      BY <1>7, <1>11
    <3> HIDE DEF b
    <3>2. /\ [app EXCEPT ![e][q].branch = b] \in [Env -> [AppIds -> Application]]
          /\ \A f \in Env, c \in AppIds : [app EXCEPT ![e][q].branch = b][f][c].vars = app[f][c].vars
      BY <3>1, Branching
    <3> QED
      BY <3>1, <3>2
  <2>8. /\ Busy(q) /\ Become(q, j) /\ UNCHANGED <<column, vault, stored, deployed>>
        /\ j.started /\ j.alone = job[q].alone
        /\ \A f \in Env : target[f].branch \in Branches => target'[f].branch \in Branches
    BY <1>1, <1>2, <1>5, <1>6, <1>11, <2>2, <2>4, <2>5 DEF Rest
  <2>9. \A f \in Env, a \in AppIds, k \in Keys : app'[f][a].vars[k] = app[f][a].vars[k]
    BY <2>7
  <2> QED
    BY <2>2, <2>6, <2>7, <2>8, <2>9, Applications
<1>12. ASSUME target' = [target EXCEPT ![e].status = "error"], Become(q, Stopped(job[q])), UNCHANGED app
       PROVE  ConfigInv'
  BY <1>1, <1>2, <1>9, <1>12, Stops, Rows DEF ConfigInv, ConfigTypeOK
<1> QED
  BY <1>10, <1>11, <1>12 DEF CreateApplication

LEMMA ThenFirst ==
    ASSUME NEW x \in PlanStep, NEW t \in Seq(PlanStep)
    PROVE  <<x>> \o t # <<>> /\ (<<x>> \o t)[1] = x
  OBVIOUS

\* A step of comparing a branch, for the other environment and for the card.
LEMMA ComparesOn ==
    ASSUME ConfigInv, NEW q \in Requests, Busy(q), NEW e \in Env, NEW j \in Job,
           job[q].todo[1] \in {<<"compareBranch", e>>, <<"updateBranch", e>>},
           j.started, j.kind = job[q].kind, j.branches = job[q].branches, j.apps = job[q].apps,
           j.alone = job[q].alone, j.failed = job[q].failed,
           column' = column, \A f \in Env \ {e} : target'[f] = target[f],
           \A step \in {"writeConfig", "compareBranch"} \X Env :
               step # job[q].todo[1] /\ Remains(job[q].todo, step) => Remains(j.todo, step),
           TargetSaved(j, e)'
    PROVE  Saves(j)'
<1>1. SUFFICES ASSUME Clean(j), j.kind \in {"patch", "save"}
               PROVE  CardSaved(j)' /\ \A f \in Env : TargetSaved(j, f)'
  BY DEF Saves, Clean
<1>2. CardSaved(job[q]) /\ \A f \in Env : TargetSaved(job[q], f)
  BY <1>1, Turn DEF JobInv, Clean, Saves
<1>3. CardSaved(j)'
  <2>1. <<"writeConfig", "staging">> # job[q].todo[1]
        /\ <<"writeConfig", "staging">> \in {"writeConfig", "compareBranch"} \X Env
    BY DEF Env
  <2> QED
    BY <1>2, <2>1 DEF CardSaved
<1>4. ASSUME NEW f \in Env PROVE TargetSaved(j, f)'
  <2>1. CASE f = e
    BY <2>1
  <2>2. CASE f # e
    <3>1. <<"compareBranch", f>> # job[q].todo[1] /\ <<"updateBranch", f>> # job[q].todo[1]
      BY <2>2
    <3>2. Remains(job[q].todo, <<"compareBranch", f>>) => Remains(j.todo, <<"compareBranch", f>>)
      BY <3>1
    <3>3. TargetSaved(job[q], f) /\ target'[f] = target[f]
      BY <1>2, <2>2
    <3> QED
      BY <3>1, <3>2, <3>3 DEF TargetSaved
  <2> QED
    BY <2>1, <2>2
<1> QED
  BY <1>3, <1>4

LEMMA CompareBranchKeeps ==
    ASSUME ConfigInv, NEW q \in Requests, NEW e \in Env, CompareBranch(q, e)
    PROVE  ConfigInv'
<1> DEFINE Same == job[q].branches[e] = NoBranch \/ target[e].status = "absent"
                   \/ target[e].branch = job[q].branches[e]
<1>1. /\ At(q, "compareBranch", e) /\ UNCHANGED <<column, target, app, vault, stored, deployed>>
      /\ Become(q, IF Same THEN Done(job[q])
                   ELSE [Then(job[q], "updateBranch", e) EXCEPT !.row = target[e]])
  BY DEF CompareBranch
<1>2. /\ Busy(q) /\ Name(job[q]) = "compareBranch" /\ Place(job[q]) = e
      /\ job[q].todo[1] = <<"compareBranch", e>>
  BY <1>1, AtTurn
<1>3. CASE Same
  <2>1. PICK j \in Job : j = Done(job[q])
    BY <1>2, DoneJob
  <2>2. /\ j.todo = Tail(job[q].todo) /\ j.started /\ j.kind = job[q].kind /\ j.branches = job[q].branches
        /\ j.texts = job[q].texts /\ j.alone = job[q].alone /\ j.failed = job[q].failed
        /\ j.apps = job[q].apps
    BY <1>2, <2>1, DoneJob DEF Rest
  <2>3. Saves(j)'
    <3>1. TargetSaved(j, e)'
      BY <1>1, <1>3, <2>2 DEF TargetSaved
    <3>2. \A step \in {"writeConfig", "compareBranch"} \X Env :
              step # job[q].todo[1] /\ Remains(job[q].todo, step) => Remains(j.todo, step)
      BY <1>2, <2>2, Turn, RemainsTail
    <3> QED
      BY <1>1, <1>2, <2>2, <3>1, <3>2, ComparesOn
  <2>4. JobInv(q, j)'
    BY <1>1, <1>2, <2>2, <2>3, NotDeploying, Goes DEF Feeds
  <2> QED
    BY <1>1, <1>2, <1>3, <2>1, <2>2, <2>4, Quietly
<1>4. CASE ~Same
  <2>0. "updateBranch" \in StepNames
    BY DEF StepNames
  <2>1. PICK d \in Job : d = Then(job[q], "updateBranch", e)
    BY <1>2, <2>0, ThenJob
  <2>2. PICK j \in Job : j = [d EXCEPT !.row = target[e]]
    BY Fields DEF ConfigInv, ConfigTypeOK
  <2>3. /\ j.todo = << <<"updateBranch", e>> >> \o Tail(job[q].todo)
        /\ j.started /\ j.kind = job[q].kind /\ j.branches = job[q].branches
        /\ j.texts = job[q].texts /\ j.alone = job[q].alone /\ j.failed = job[q].failed
        /\ j.apps = job[q].apps
    <3>1. ThenRest(job[q], d, "updateBranch", e) /\ job[q].started
      BY <1>2, <2>0, <2>1, ThenJob
    <3> QED
      BY <2>2, <3>1 DEF Job, ThenRest
  <2>4. Saves(j)'
    <3>1. j.todo # <<>> /\ j.todo[1] = <<"updateBranch", e>>
      BY <1>2, <2>0, <2>3, Turn, TailOf, ThenFirst DEF PlanStep
    <3>2. TargetSaved(j, e)'
      BY <3>1 DEF TargetSaved, Working
    <3>3. \A step \in {"writeConfig", "compareBranch"} \X Env :
              step # job[q].todo[1] /\ Remains(job[q].todo, step) => Remains(j.todo, step)
      BY <1>2, <2>0, <2>3, ThenRemains
    <3> QED
      BY <1>1, <1>2, <2>3, <3>2, <3>3, ComparesOn
  <2>5. job[q].branches[e] \in Branches
    BY <1>2, <1>4, Turn DEF Job
  <2>6. JobInv(q, j)'
    BY <1>1, <1>2, <2>0, <2>3, <2>4, <2>5, GoesThen
  <2> QED
    BY <1>1, <1>2, <1>4, <2>1, <2>2, <2>3, <2>6, Quietly
<1> QED
  BY <1>3, <1>4

LEMMA UpdateBranchKeeps ==
    ASSUME ConfigInv, NEW q \in Requests, NEW e \in Env, UpdateBranch(q, e)
    PROVE  ConfigInv'
<1>1. /\ At(q, "updateBranch", e) /\ UNCHANGED <<column, app, vault, stored, deployed>>
      /\ target' = [target EXCEPT ![e].branch = job[q].branches[e]]
      /\ Become(q, IF job[q].row.app = NoApp THEN [Done(job[q]) EXCEPT !.row = NoTarget]
                   ELSE Then(job[q], "pushBranch", e))
  BY DEF UpdateBranch
<1>2. /\ Busy(q) /\ Name(job[q]) = "updateBranch" /\ Place(job[q]) = e
      /\ job[q].todo[1] = <<"updateBranch", e>>
  BY <1>1, AtTurn
<1>3. job[q].branches[e] \in Branches
  BY <1>2, Turn DEF JobInv, Prepared
<1>4. /\ target' \in [Env -> Target]
      /\ \A f \in Env \ {e} : target'[f] = target[f]
      /\ target'[e].branch = job[q].branches[e]
      /\ \A f \in Env : target'[f].status = target[f].status
  BY <1>1, <1>3 DEF ConfigInv, ConfigTypeOK, Target
<1>5. /\ \A f \in Env : target[f].branch \in Branches => target'[f].branch \in Branches
      /\ \A f \in Env : target'[f].status # "absent" => target'[f].branch \in Branches
  BY <1>3, <1>4 DEF ConfigInv, ConfigTypeOK
<1>6. CASE job[q].row.app = NoApp
  <2>1. PICK d \in Job : d = Done(job[q])
    BY <1>2, DoneJob
  <2>2. PICK j \in Job : j = [d EXCEPT !.row = NoTarget]
    BY StartTypes, Fields
  <2>3. /\ j.todo = Tail(job[q].todo) /\ j.started /\ j.kind = job[q].kind /\ j.branches = job[q].branches
        /\ j.texts = job[q].texts /\ j.alone = job[q].alone /\ j.failed = job[q].failed
        /\ j.apps = job[q].apps
    BY <1>2, <2>1, <2>2, DoneJob DEF Job, Rest
  <2>4. Saves(j)'
    <3>1. TargetSaved(j, e)'
      BY <1>4, <2>3 DEF TargetSaved
    <3>2. \A step \in {"writeConfig", "compareBranch"} \X Env :
              step # job[q].todo[1] /\ Remains(job[q].todo, step) => Remains(j.todo, step)
      BY <1>2, <2>3, Turn, RemainsTail
    <3> QED
      BY <1>1, <1>2, <1>4, <2>3, <3>1, <3>2, ComparesOn
  <2>5. JobInv(q, j)'
    BY <1>1, <1>2, <2>3, <2>4, NotDeploying, Goes DEF Feeds
  <2> QED
    BY <1>1, <1>2, <1>4, <1>5, <1>6, <2>1, <2>2, <2>3, <2>5, Rows DEF ConfigInv, ConfigTypeOK
<1>7. CASE job[q].row.app # NoApp
  <2>0. "pushBranch" \in StepNames
    BY DEF StepNames
  <2>1. PICK j \in Job : j = Then(job[q], "pushBranch", e)
    BY <1>2, <2>0, ThenJob
  <2>2. /\ j.todo = << <<"pushBranch", e>> >> \o Tail(job[q].todo)
        /\ j.started /\ j.kind = job[q].kind /\ j.branches = job[q].branches
        /\ j.texts = job[q].texts /\ j.alone = job[q].alone /\ j.failed = job[q].failed
        /\ j.apps = job[q].apps
    BY <1>2, <2>0, <2>1, ThenJob DEF ThenRest
  <2>3. Saves(j)'
    <3>1. TargetSaved(j, e)'
      BY <1>4, <2>2 DEF TargetSaved
    <3>2. \A step \in {"writeConfig", "compareBranch"} \X Env :
              step # job[q].todo[1] /\ Remains(job[q].todo, step) => Remains(j.todo, step)
      BY <1>2, <2>0, <2>2, ThenRemains
    <3> QED
      BY <1>1, <1>2, <1>4, <2>2, <3>1, <3>2, ComparesOn
  <2>4. JobInv(q, j)'
    BY <1>1, <1>2, <2>0, <2>2, <2>3, GoesThen
  <2> QED
    BY <1>1, <1>2, <1>4, <1>5, <1>7, <2>1, <2>2, <2>4, Rows DEF ConfigInv, ConfigTypeOK
<1> QED
  BY <1>6, <1>7

LEMMA PushBranchKeeps ==
    ASSUME ConfigInv, NEW q \in Requests, NEW e \in Env, PushBranch(q, e)
    PROVE  ConfigInv'
<1>1. At(q, "pushBranch", e) /\ UNCHANGED <<column, target, vault, stored, deployed>>
  BY DEF PushBranch
<1>2. /\ Busy(q) /\ Name(job[q]) = "pushBranch" /\ Place(job[q]) = e
      /\ job[q].todo[1] = <<"pushBranch", e>>
  BY <1>1, AtTurn
<1>3. PICK d \in Job : d = Done(job[q])
  BY <1>2, DoneJob
<1>4. PICK j \in Job : j = [d EXCEPT !.row = NoTarget]
  BY StartTypes, Fields
<1>5. Rest(job[q], d) /\ job[q].started
  BY <1>2, <1>3, DoneJob
<1>6. /\ j.todo = Tail(job[q].todo) /\ j.started /\ j.kind = job[q].kind /\ j.branches = job[q].branches
      /\ j.texts = job[q].texts /\ j.alone = job[q].alone /\ j.failed = job[q].failed
      /\ j.apps = job[q].apps
  BY <1>4, <1>5 DEF Job, Rest
<1>7. j.kind # "deploy"
  BY <1>2, <1>6, NotDeploying
<1>8. ASSUME app' = [app EXCEPT ![e][job[q].row.app].branch = job[q].branches[e]],
             Become(q, [Done(job[q]) EXCEPT !.row = NoTarget])
      PROVE  ConfigInv'
  <2>1. JobInv(q, j)'
    BY <1>1, <1>2, <1>6, <1>7, Proceeds DEF Feeds
  <2>2. /\ app' \in [Env -> [AppIds -> Application]]
        /\ \A f \in Env, c \in AppIds : app'[f][c].vars = app[f][c].vars
    <3> DEFINE b == job[q].branches[e]
               a == job[q].row.app
    <3>1. app' = [app EXCEPT ![e][a].branch = b] /\ b \in Branches \cup {NoBranch}
      BY <1>2, <1>8, Turn DEF Job
    <3> HIDE DEF b, a
    <3>2. /\ [app EXCEPT ![e][a].branch = b] \in [Env -> [AppIds -> Application]]
          /\ \A f \in Env, c \in AppIds : [app EXCEPT ![e][a].branch = b][f][c].vars = app[f][c].vars
      BY <3>1, Branching
    <3> QED
      BY <3>1, <3>2
  <2>3. \A f \in Env, a \in AppIds, k \in Keys : app'[f][a].vars[k] = app[f][a].vars[k]
    BY <2>2
  <2>4. /\ target' \in [Env -> Target]
        /\ \A f \in Env : target[f].branch \in Branches => target'[f].branch \in Branches
        /\ \A f \in Env : target'[f].status # "absent" => target'[f].branch \in Branches
    BY <1>1 DEF ConfigInv, ConfigTypeOK
  <2>5. Become(q, j) /\ UNCHANGED <<column, vault, stored, deployed>>
    BY <1>1, <1>3, <1>4, <1>8
  <2> QED
    BY <1>2, <1>6, <2>1, <2>2, <2>3, <2>4, <2>5, Applications
<1>9. ASSUME UNCHANGED app, Become(q, [Done(job[q]) EXCEPT !.row = NoTarget, !.failed = TRUE])
      PROVE  ConfigInv'
  <2>1. PICK h \in Job : h = [d EXCEPT !.row = NoTarget, !.failed = TRUE]
    BY <1>4, Fields
  <2>2. /\ h.todo = Tail(job[q].todo) /\ h.started /\ h.kind = job[q].kind /\ h.branches = job[q].branches
        /\ h.texts = job[q].texts /\ h.alone = job[q].alone /\ h.failed
    BY <1>5, <2>1 DEF Job, Rest
  <2>3. Saves(h)'
    BY <2>2 DEF Saves, Clean
  <2>4. JobInv(q, h)'
    BY <1>1, <1>2, <1>6, <1>7, <2>2, <2>3, Goes DEF Feeds
  <2> QED
    BY <1>1, <1>2, <1>3, <1>9, <2>1, <2>2, <2>4, Quietly
<1> QED
  BY <1>8, <1>9 DEF PushBranch

\* Texts and variables.
LEMMA ParsedTypes ==
    ASSUME NEW q \in Requests, NEW e \in Env, NEW t
    PROVE  ParseEnvText(q, t, e) \in Vars
<1>1. <<e, q, "typed">> \in Value
  BY DEF Value, AppIds
<1> QED
  BY <1>1 DEF ParseEnvText, Vars

LEMMA DerivedTypes ==
    ASSUME NEW v \in Vars
    PROVE  /\ WithDerivedSpaUrl(v) \in Vars
           /\ \A k \in Keys : v[k] # NoValue => WithDerivedSpaUrl(v)[k] = v[k]
           /\ \A k \in Keys : WithDerivedSpaUrl(v)[k] # NoValue =>
                WithDerivedSpaUrl(v)[k] = v[k] \/ WithDerivedSpaUrl(v)[k][3] = "derived"
<1> DEFINE d == <<v["baseURL"][1], v["baseURL"][2], "derived">>
<1>1. "baseURL" \in Keys /\ "BUBBLBOOK_SPA_URL" \in Keys
  BY DEF Keys
<1>2. CASE v["BUBBLBOOK_SPA_URL"] = NoValue /\ v["baseURL"] # NoValue
  <2>1. v["baseURL"] \in Value
    BY <1>1, <1>2 DEF Vars
  <2>2. d \in Value /\ d[3] = "derived"
    BY <2>1 DEF Value
  <2>3. WithDerivedSpaUrl(v) = [v EXCEPT !["BUBBLBOOK_SPA_URL"] = d]
    BY <1>2 DEF WithDerivedSpaUrl
  <2> HIDE DEF d
  <2> QED
    BY <1>1, <1>2, <2>2, <2>3 DEF Vars
<1>3. CASE ~(v["BUBBLBOOK_SPA_URL"] = NoValue /\ v["baseURL"] # NoValue)
  BY <1>3 DEF WithDerivedSpaUrl
<1> QED
  BY <1>2, <1>3

\* The vault of an environment is replaced.
LEMMA Stored ==
    ASSUME ConfigInv, NEW e \in Env, NEW envs \in Vars, StoreVault(e, envs)
    PROVE  /\ stored \subseteq stored' /\ stored' \subseteq Env \X Keys \X Value
           /\ \A k \in Keys : envs[k] # NoValue => <<e, k, envs[k]>> \in stored'
           /\ vault' \in [Env -> Vars] /\ vault'[e] = envs
           /\ VaultKnown'
<1>1. vault' = [vault EXCEPT ![e] = envs] /\ vault \in [Env -> Vars]
  BY DEF StoreVault, ConfigInv, ConfigTypeOK
<1>2. stored' = stored \cup {<<e, k, envs[k]>> : k \in {k \in Keys : envs[k] # NoValue}}
  BY DEF StoreVault, Entries
<1>3. \A k \in Keys : envs[k] # NoValue => <<e, k, envs[k]>> \in Env \X Keys \X Value
  BY DEF Vars
<1>4. stored \subseteq stored' /\ stored' \subseteq Env \X Keys \X Value
  BY <1>2, <1>3 DEF ConfigInv, ConfigTypeOK
<1>5. \A k \in Keys : envs[k] # NoValue => <<e, k, envs[k]>> \in stored'
  BY <1>2
<1>6. vault' \in [Env -> Vars] /\ vault'[e] = envs
  BY <1>1
<1>7. VaultKnown'
  BY <1>1, <1>4, <1>5 DEF ConfigInv, VaultKnown
<1> QED
  BY <1>4, <1>5, <1>6, <1>7

LEMMA Storing ==
    ASSUME ConfigInv, NEW q \in Requests, Busy(q), NEW j \in Job, Become(q, j),
           NEW e \in Env, NEW envs \in Vars, StoreVault(e, envs),
           UNCHANGED <<column, target, app, deployed>>,
           j.started, j.alone = job[q].alone, JobInv(q, j)'
    PROVE  ConfigInv'
<1>1. /\ stored \subseteq stored' /\ stored' \subseteq Env \X Keys \X Value
      /\ vault' \in [Env -> Vars] /\ VaultKnown'
  BY Stored
<1>2. PushedWasStored' /\ DeployCarriesVault'
  BY <1>1 DEF ConfigInv, PushedWasStored, DeployCarriesVault
<1> QED
  BY <1>1, <1>2, Stepped DEF ConfigInv, ConfigTypeOK

LEMMA StoreTextKeeps ==
    ASSUME ConfigInv, NEW q \in Requests, NEW e \in Env, StoreText(q, e)
    PROVE  ConfigInv'
<1> DEFINE envs == ParseEnvText(q, job[q].texts[e], e)
<1>1. /\ At(q, "storeText", e) /\ UNCHANGED <<column, target, app, deployed>>
      /\ StoreVault(e, envs) /\ Become(q, Done(job[q]))
  BY DEF StoreText
<1>2. Busy(q) /\ Name(job[q]) = "storeText" /\ Place(job[q]) = e
  BY <1>1, AtTurn
<1>3. envs \in Vars
  BY ParsedTypes
<1>4. PICK j \in Job : j = Done(job[q])
  BY <1>2, DoneJob
<1>5. /\ j.todo = Tail(job[q].todo) /\ j.started /\ j.kind = job[q].kind /\ j.branches = job[q].branches
      /\ j.texts = job[q].texts /\ j.alone = job[q].alone /\ j.failed = job[q].failed
      /\ j.apps = job[q].apps
  BY <1>2, <1>4, DoneJob DEF Rest
<1>6. stored \subseteq stored' /\ \A k \in Keys : envs[k] # NoValue => <<e, k, envs[k]>> \in stored'
  BY <1>1, <1>3, Stored
<1>7. e \in KnownTexts(q, j)'
  BY <1>5, <1>6 DEF KnownTexts
<1>8. JobInv(q, j)'
  BY <1>1, <1>2, <1>5, <1>6, <1>7, NotDeploying, Proceeds DEF Feeds
<1> HIDE DEF envs
<1> QED
  BY <1>1, <1>2, <1>3, <1>4, <1>5, <1>8, Storing

LEMMA PushTextKeeps ==
    ASSUME ConfigInv, NEW q \in Requests, NEW e \in Env, PushText(q, e)
    PROVE  ConfigInv'
<1> DEFINE envs == ParseEnvText(q, job[q].texts[e], e)
           r == [NoTarget EXCEPT !.app = job[q].apps[e]]
<1>1. /\ At(q, "pushText", e) /\ UNCHANGED <<column, target, app, vault, stored, deployed>>
      /\ Become(q, [Then(job[q], "pushKeys", e) EXCEPT !.row = r, !.vars = envs])
  BY DEF PushText
<1>2. /\ Busy(q) /\ Name(job[q]) = "pushText" /\ Place(job[q]) = e
      /\ job[q].todo[1] = <<"pushText", e>> /\ "pushKeys" \in StepNames
  BY <1>1, AtTurn DEF StepNames
<1>3. envs \in Vars /\ r \in Target
  <2>1. job[q].apps[e] \in AppIds \cup {NoApp}
    BY <1>2, Turn DEF Job
  <2> QED
    BY <2>1, ParsedTypes, StartTypes DEF Target
<1>4. PICK d \in Job : d = Then(job[q], "pushKeys", e)
  BY <1>2, ThenJob
<1>5. PICK c \in Job : c = [d EXCEPT !.row = r]
  BY <1>3, Fields
<1>6. PICK j \in Job : j = [c EXCEPT !.vars = envs]
  BY <1>3, Fields
<1>7. /\ j.todo = << <<"pushKeys", e>> >> \o Tail(job[q].todo)
      /\ j.started /\ j.kind = job[q].kind /\ j.branches = job[q].branches
      /\ j.texts = job[q].texts /\ j.alone = job[q].alone /\ j.failed = job[q].failed
      /\ j.apps = job[q].apps /\ j.vars = envs
  <2>1. ThenRest(job[q], d, "pushKeys", e) /\ job[q].started
    BY <1>2, <1>4, ThenJob
  <2> HIDE DEF envs, r
  <2> QED
    BY <1>5, <1>6, <2>1 DEF Job, ThenRest
<1>8. e \in KnownTexts(q, job[q])
  <2>1. /\ Plan(job[q].todo, job[q].kind, KnownVars(job[q]), KnownTexts(q, job[q]))
        /\ 1 \in 1..Len(job[q].todo)
    BY <1>2, Turn
  <2>2. ~\E m \in 1..(1 - 1) : job[q].todo[m] = <<"storeText", job[q].todo[1][2]>>
    OBVIOUS
  <2> QED
    BY <1>2, <2>1, <2>2 DEF Plan
<1>9. e \in KnownVars(j)'
  BY <1>1, <1>7, <1>8 DEF KnownVars, KnownTexts
<1> HIDE DEF envs, r
<1>10. Saves(j)'
  <2>1. \A step \in {"writeConfig", "compareBranch"} \X Env :
            Remains(job[q].todo, step) => Remains(j.todo, step)
    <3> TAKE step \in {"writeConfig", "compareBranch"} \X Env
    <3>1. step # job[q].todo[1]
      BY <1>2
    <3> QED
      BY <1>2, <1>7, <3>1, ThenRemains
  <2> QED
    BY <1>1, <1>2, <1>7, <2>1, StaySaved
<1>11. JobInv(q, j)'
  BY <1>1, <1>2, <1>7, <1>9, <1>10, GoesThen
<1>12. Become(q, j)
  BY <1>1, <1>4, <1>5, <1>6
<1> QED
  BY <1>1, <1>2, <1>7, <1>11, <1>12, Quietly

LEMMA ReadVaultKeeps ==
    ASSUME ConfigInv, NEW q \in Requests, NEW e \in Env, ReadVault(q, e)
    PROVE  ConfigInv'
<1>1. /\ At(q, "readVault", e) /\ UNCHANGED <<column, target, app, vault, stored, deployed>>
      /\ Become(q, IF job[q].kind = "jwt" /\ vault[e]["secret"] # NoValue
                   THEN [job[q] EXCEPT !.todo = <<>>]
                   ELSE [Done(job[q]) EXCEPT !.vars = vault[e]])
  BY DEF ReadVault
<1>2. Busy(q) /\ Name(job[q]) = "readVault" /\ Place(job[q]) = e
  BY <1>1, AtTurn
<1>3. CASE job[q].kind = "jwt" /\ vault[e]["secret"] # NoValue
  <2>1. job[q] \in Job /\ job[q].started /\ Prepared(job[q]) /\ <<>> \in Seq(StepNames \X Env)
    BY <1>2, Turn DEF JobInv
  <2>2. PICK j \in Job : j = [job[q] EXCEPT !.todo = <<>>]
    BY <2>1, Fields
  <2>3. j.todo = <<>> /\ j.started /\ j.kind = "jwt" /\ j.branches = job[q].branches
        /\ j.alone = job[q].alone
    BY <1>3, <2>1, <2>2 DEF Job
  <2>4. Planned(q, j)'
    BY <2>3, PlanEnd DEF Planned
  <2>5. Prepared(j)' /\ Carries(j)' /\ Saves(j)'
    BY <1>3, <2>1, <2>3 DEF Prepared, Working, Carries, Saves
  <2> QED
    BY <1>1, <1>2, <1>3, <2>2, <2>3, <2>4, <2>5, Quietly DEF JobInv
<1>4. CASE ~(job[q].kind = "jwt" /\ vault[e]["secret"] # NoValue)
  <2>1. PICK d \in Job : d = Done(job[q])
    BY <1>2, DoneJob
  <2>2. PICK j \in Job : j = [d EXCEPT !.vars = vault[e]]
    BY Fields DEF ConfigInv, ConfigTypeOK
  <2>3. /\ j.todo = Tail(job[q].todo) /\ j.started /\ j.kind = job[q].kind /\ j.branches = job[q].branches
        /\ j.texts = job[q].texts /\ j.alone = job[q].alone /\ j.failed = job[q].failed
        /\ j.apps = job[q].apps
    BY <1>2, <2>1, <2>2, DoneJob DEF Job, Rest
  <2>4. JobInv(q, j)'
    BY <1>1, <1>2, <2>3, NotDeploying, Proceeds DEF Feeds
  <2> QED
    BY <1>1, <1>2, <1>4, <2>1, <2>2, <2>3, <2>4, Quietly
<1> QED
  BY <1>3, <1>4

LEMMA StoreMergedKeeps ==
    ASSUME ConfigInv, NEW q \in Requests, NEW e \in Env, StoreMerged(q, e)
    PROVE  ConfigInv'
<1> DEFINE envs == Merged(job[q].vars, ParseEnvText(q, job[q].texts[e], e))
<1>1. /\ At(q, "storeMerged", e) /\ UNCHANGED <<column, target, app, deployed>>
      /\ StoreVault(e, envs) /\ Become(q, [Done(job[q]) EXCEPT !.vars = NoVars])
  BY DEF StoreMerged
<1>2. Busy(q) /\ Name(job[q]) = "storeMerged" /\ Place(job[q]) = e
  BY <1>1, AtTurn
<1>3. envs \in Vars
  <2>1. job[q].vars \in Vars /\ ParseEnvText(q, job[q].texts[e], e) \in Vars
    BY <1>2, Turn, ParsedTypes DEF Job
  <2> QED
    BY <2>1 DEF Merged, Vars
<1> HIDE DEF envs
<1>4. PICK d \in Job : d = Done(job[q])
  BY <1>2, DoneJob
<1>5. PICK j \in Job : j = [d EXCEPT !.vars = NoVars]
  BY StartTypes, Fields
<1>6. /\ j.todo = Tail(job[q].todo) /\ j.started /\ j.kind = job[q].kind /\ j.branches = job[q].branches
      /\ j.texts = job[q].texts /\ j.alone = job[q].alone /\ j.failed = job[q].failed
      /\ j.apps = job[q].apps
  BY <1>2, <1>4, <1>5, DoneJob DEF Job, Rest
<1>7. stored \subseteq stored'
  BY <1>1, <1>3, Stored
<1>8. JobInv(q, j)'
  BY <1>1, <1>2, <1>6, <1>7, NotDeploying, Proceeds DEF Feeds
<1> QED
  BY <1>1, <1>2, <1>3, <1>4, <1>5, <1>6, <1>8, Storing

LEMMA ShowBoxKeeps ==
    ASSUME ConfigInv, NEW q \in Requests, NEW e \in Env, ShowBox(q, e)
    PROVE  ConfigInv'
<1>1. /\ At(q, "showBox", e) /\ UNCHANGED <<column, target, app, vault, stored, deployed>>
      /\ Become(q, [Done(job[q]) EXCEPT !.boxes[e] = vault[e]])
  BY DEF ShowBox
<1>2. Busy(q) /\ Name(job[q]) = "showBox" /\ Place(job[q]) = e
  BY <1>1, AtTurn
<1>3. PICK d \in Job : d = Done(job[q])
  BY <1>2, DoneJob
<1>4. [d.boxes EXCEPT ![e] = vault[e]] \in [Env -> Vars]
  BY DEF Job, ConfigInv, ConfigTypeOK
<1>5. PICK j \in Job : j = [d EXCEPT !.boxes[e] = vault[e]]
  BY <1>4, Fields
<1>6. /\ j.todo = Tail(job[q].todo) /\ j.started /\ j.kind = job[q].kind /\ j.branches = job[q].branches
      /\ j.texts = job[q].texts /\ j.alone = job[q].alone /\ j.failed = job[q].failed
      /\ j.apps = job[q].apps
  BY <1>2, <1>3, <1>5, DoneJob DEF Job, Rest
<1>7. JobInv(q, j)'
  BY <1>1, <1>2, <1>6, NotDeploying, Proceeds DEF Feeds
<1> QED
  BY <1>1, <1>2, <1>3, <1>5, <1>6, <1>7, Quietly

LEMMA TypeBoxKeeps ==
    ASSUME ConfigInv, NEW q \in Requests, NEW e \in Env, TypeBox(q, e)
    PROVE  ConfigInv'
<1>1. /\ At(q, "typeBox", e) /\ UNCHANGED <<column, target, app, vault, stored, deployed>>
      /\ \E f \in Env, k \in BoxKeys :
           \E v \in {job[q].boxes[f][k], NoValue, <<f, q, "typed">>} :
              Become(q, [Done(job[q]) EXCEPT !.boxes[f][k] = v])
  BY DEF TypeBox
<1>2. Busy(q) /\ Name(job[q]) = "typeBox" /\ Place(job[q]) = e
  BY <1>1, AtTurn
<1>3. PICK f \in Env, k \in BoxKeys :
           \E v \in {job[q].boxes[f][k], NoValue, <<f, q, "typed">>} :
              Become(q, [Done(job[q]) EXCEPT !.boxes[f][k] = v])
  BY <1>1
<1>4. PICK v \in {job[q].boxes[f][k], NoValue, <<f, q, "typed">>} :
              Become(q, [Done(job[q]) EXCEPT !.boxes[f][k] = v])
  BY <1>3
<1>5. PICK d \in Job : d = Done(job[q])
  BY <1>2, DoneJob
<1>6. v \in Value \cup {NoValue}
  <2>1. k \in Keys /\ job[q].boxes \in [Env -> Vars] /\ <<f, q, "typed">> \in Value
    BY <1>2, Turn, ConfigAssumption DEF Job, Value, AppIds
  <2> QED
    BY <2>1 DEF Vars
<1>7. [d.boxes EXCEPT ![f][k] = v] \in [Env -> Vars]
  <2>1. d.boxes[f] \in Vars /\ d.boxes \in [Env -> Vars]
    BY DEF Job
  <2>2. [d.boxes[f] EXCEPT ![k] = v] \in Vars
    BY <1>6, <2>1 DEF Vars
  <2> QED
    BY <2>1, <2>2
<1>8. PICK j \in Job : j = [d EXCEPT !.boxes[f][k] = v]
  BY <1>7, Fields
<1>9. /\ j.todo = Tail(job[q].todo) /\ j.started /\ j.kind = job[q].kind /\ j.branches = job[q].branches
      /\ j.texts = job[q].texts /\ j.alone = job[q].alone /\ j.failed = job[q].failed
      /\ j.apps = job[q].apps
  BY <1>2, <1>5, <1>8, DoneJob DEF Job, Rest
<1>10. JobInv(q, j)'
  BY <1>1, <1>2, <1>9, NotDeploying, Proceeds DEF Feeds
<1> QED
  BY <1>1, <1>2, <1>4, <1>5, <1>8, <1>9, <1>10, Quietly

\* What remains when the save of an empty box is passed over.
LEMMA SkipStarts ==
    ASSUME NEW s \in Seq(PlanStep), Len(s) > 4
    PROVE  SubSeq(s, 5, Len(s)) # <<>> => SubSeq(s, 5, Len(s))[1] = s[5] /\ 5 \in 1..Len(s)
<1>1. Len(s) \in Nat
  OBVIOUS
<1> QED
  BY <1>1

LEMMA StoreBoxKeeps ==
    ASSUME ConfigInv, NEW q \in Requests, NEW e \in Env, StoreBox(q, e)
    PROVE  ConfigInv'
<1>1. At(q, "storeBox", e) /\ UNCHANGED <<column, target, app, deployed>>
  BY DEF StoreBox
<1>2. Busy(q) /\ Name(job[q]) = "storeBox" /\ Place(job[q]) = e /\ job[q].todo[1][1] = "storeBox"
  BY <1>1, AtTurn DEF Name
<1>3. job[q].kind \notin {"patch", "save", "deploy"}
  BY <1>2, Turn, NotDeploying DEF Allowed, Barred
<1>4. CASE job[q].boxes[e] = NoVars
  <2> DEFINE s == job[q].todo
             t == SubSeq(s, 5, Len(s))
  <2>1. Become(q, [job[q] EXCEPT !.todo = t]) /\ UNCHANGED <<vault, stored>>
    BY <1>4 DEF StoreBox
  <2>2. /\ s \in Seq(PlanStep) /\ s # <<>> /\ s[1][1] = "storeBox" /\ job[q] \in Job /\ job[q].started
        /\ Plan(s, job[q].kind, KnownVars(job[q]), KnownTexts(q, job[q]))
    BY <1>2, Turn
  <2>3. Plan(t, job[q].kind, KnownVars(job[q]), KnownTexts(q, job[q]))
    <3> DEFINE K == KnownVars(job[q])
               T == KnownTexts(q, job[q])
               kind == job[q].kind
    <3>1. Plan(s, kind, K, T) /\ s # <<>> /\ s[1][1] = "storeBox"
      BY <2>2
    <3> HIDE DEF K, T, kind, s
    <3>2. Plan(t, kind, K, T)
      BY <3>1, PlanSkip
    <3> QED
      BY <3>2 DEF K, T, kind
  <2>4. t \in Seq(StepNames \X Env)
    BY <2>3 DEF Plan, PlanStep
  <2>5. t # <<>> => t[1][1] \notin Inserted
    <3>1. Len(s) \in Nat /\ 1 \in 1..Len(s)
      BY <2>2
    <3>2. Skippable(s, 1)
      BY <2>2, <3>1 DEF Plan
    <3>3. Len(s) >= 4
      BY <3>1, <3>2 DEF Skippable
    <3>4. ASSUME t # <<>> PROVE t[1] = s[5] /\ 5 \in 1..Len(s)
      <4> HIDE DEF s
      <4>1. Len(s) > 4
        BY <2>2, <3>1, <3>3, <3>4
      <4> QED
        BY <2>2, <3>4, <4>1, SkipStarts
    <3>5. ASSUME NEW n \in 1..Len(s), n > 1 PROVE s[n][1] \notin Inserted
      BY <2>2, <3>5 DEF Plan
    <3> HIDE DEF s, t
    <3>6. ASSUME t # <<>> PROVE t[1][1] \notin Inserted
      <4>1. s[5][1] \notin Inserted
        BY <3>1, <3>4, <3>5, <3>6
      <4> QED
        BY <3>4, <3>6, <4>1
    <3> QED
      BY <3>6
  <2> HIDE DEF t
  <2>6. PICK j \in Job : j = [job[q] EXCEPT !.todo = t]
    BY <2>2, <2>4, Fields
  <2>7. /\ j.todo = t /\ j.started /\ j.kind = job[q].kind /\ j.branches = job[q].branches
        /\ j.texts = job[q].texts /\ j.alone = job[q].alone /\ j.vars = job[q].vars
    BY <2>2, <2>6 DEF Job
  <2>8. Planned(q, j)'
    <3>1. KnownVars(j)' = KnownVars(job[q]) /\ KnownTexts(q, j)' = KnownTexts(q, job[q])
      BY <2>1, <2>7 DEF KnownVars, KnownTexts
    <3> QED
      BY <2>3, <2>7, <3>1 DEF Planned
  <2>9. Prepared(j)' /\ Carries(j)' /\ Saves(j)'
    BY <1>2, <1>3, <2>5, <2>7, Turn DEF JobInv, Prepared, Working, Name, Place, Inserted, Carries, Saves
  <2> QED
    BY <1>1, <1>2, <2>1, <2>6, <2>7, <2>8, <2>9, Quietly DEF JobInv
<1>5. CASE job[q].boxes[e] # NoVars
  <2>1. StoreVault(e, job[q].boxes[e]) /\ Become(q, [Done(job[q]) EXCEPT !.boxes[e] = NoVars])
    BY <1>5 DEF StoreBox
  <2>2. PICK envs \in Vars : envs = job[q].boxes[e]
    BY <1>2, Turn DEF Job
  <2>3. PICK d \in Job : d = Done(job[q])
    BY <1>2, DoneJob
  <2>4. [d.boxes EXCEPT ![e] = NoVars] \in [Env -> Vars]
    BY StartTypes DEF Job
  <2>5. PICK j \in Job : j = [d EXCEPT !.boxes[e] = NoVars]
    BY <2>4, Fields
  <2>6. /\ j.todo = Tail(job[q].todo) /\ j.started /\ j.kind = job[q].kind /\ j.branches = job[q].branches
        /\ j.texts = job[q].texts /\ j.alone = job[q].alone /\ j.failed = job[q].failed
        /\ j.apps = job[q].apps
    BY <1>2, <2>3, <2>5, DoneJob DEF Job, Rest
  <2>7. StoreVault(e, envs) /\ Become(q, j)
    BY <2>1, <2>2, <2>3, <2>5
  <2>8. stored \subseteq stored'
    BY <2>7, Stored
  <2>9. JobInv(q, j)'
    BY <1>1, <1>2, <1>3, <2>6, <2>8, Proceeds DEF Feeds
  <2> QED
    BY <1>1, <1>2, <2>6, <2>7, <2>9, Storing
<1> QED
  BY <1>4, <1>5

\* The value that is copied.
LEMMA CopiedTypes ==
    ASSUME ConfigInv, NEW q \in Requests
    PROVE  CopiedValue(q) \in Value \cup {NoValue}
<1>1. vault["production"] \in Vars /\ job[q].vars \in Vars /\ job[q].key \in Keys
  BY DEF ConfigInv, ConfigTypeOK, Job, Env, SharedKeys, Keys
<1>2. CASE job[q].kind = "mirror"
  BY <1>1, <1>2 DEF CopiedValue, Vars
<1>3. CASE job[q].kind # "mirror"
  <2> DEFINE c == <<job[q].vars["ADMIN_SECRET"], vault["production"]["secret"],
                    vault["production"]["ADMIN_SECRET"]>>
  <2>1. c[1] \in Value \cup {NoValue} /\ c[2] \in Value \cup {NoValue} /\ c[3] \in Value \cup {NoValue}
    BY <1>1 DEF Vars, Keys
  <2>2. Len(c) = 3 /\ 1..Len(c) = {1, 2, 3}
    OBVIOUS
  <2>3. CopiedValue(q) = FirstOf(c)
    BY <1>3 DEF CopiedValue
  <2> HIDE DEF c
  <2>4. CASE \E i \in 1..Len(c) : c[i] # NoValue
    <3> DEFINE First3(i) == c[i] # NoValue /\ \A j \in 1..(i - 1) : c[j] = NoValue
    <3>1. \E i \in 1..Len(c) : First3(i)
      <4>1. CASE c[1] # NoValue
        BY <2>2, <4>1
      <4>2. CASE c[1] = NoValue /\ c[2] # NoValue
        BY <2>2, <4>2
      <4>3. CASE c[1] = NoValue /\ c[2] = NoValue
        <5>1. c[3] # NoValue /\ \A j \in 1..(3 - 1) : j = 1 \/ j = 2
          BY <2>2, <2>4, <4>3
        <5> QED
          BY <2>2, <4>3, <5>1
      <4> QED
        BY <4>1, <4>2, <4>3
    <3>2. (CHOOSE i \in 1..Len(c) : First3(i)) \in 1..Len(c)
      BY <3>1
    <3>3. FirstOf(c) = c[CHOOSE i \in 1..Len(c) : First3(i)]
      BY <2>4 DEF FirstOf
    <3> HIDE DEF First3
    <3> QED
      BY <2>1, <2>2, <2>3, <3>2, <3>3
  <2>5. CASE ~\E i \in 1..Len(c) : c[i] # NoValue
    BY <2>3, <2>5 DEF FirstOf
  <2> QED
    BY <2>4, <2>5
<1> QED
  BY <1>2, <1>3

LEMMA ReadProductionKeeps ==
    ASSUME ConfigInv, NEW q \in Requests, NEW e \in Env, ReadProduction(q, e)
    PROVE  ConfigInv'
<1>1. /\ At(q, "readProduction", e) /\ UNCHANGED <<column, target, app, vault, stored, deployed>>
      /\ Become(q, IF CopiedValue(q) = NoValue THEN Stopped(job[q])
                   ELSE [Done(job[q]) EXCEPT !.value = CopiedValue(q)])
  BY DEF ReadProduction
<1>2. Busy(q) /\ Name(job[q]) = "readProduction" /\ Place(job[q]) = e
  BY <1>1, AtTurn
<1>3. CASE CopiedValue(q) = NoValue
  BY <1>1, <1>2, <1>3, Stops, Quietly
<1>4. CASE CopiedValue(q) # NoValue
  <2>1. PICK d \in Job : d = Done(job[q])
    BY <1>2, DoneJob
  <2>2. PICK j \in Job : j = [d EXCEPT !.value = CopiedValue(q)]
    BY CopiedTypes, Fields
  <2>3. /\ j.todo = Tail(job[q].todo) /\ j.started /\ j.kind = job[q].kind /\ j.branches = job[q].branches
        /\ j.texts = job[q].texts /\ j.alone = job[q].alone /\ j.failed = job[q].failed
        /\ j.apps = job[q].apps
    BY <1>2, <2>1, <2>2, DoneJob DEF Job, Rest
  <2>4. JobInv(q, j)'
    BY <1>1, <1>2, <2>3, NotDeploying, Proceeds DEF Feeds
  <2> QED
    BY <1>1, <1>2, <1>4, <2>1, <2>2, <2>3, <2>4, Quietly
<1> QED
  BY <1>3, <1>4

LEMMA StoreCopiedKeeps ==
    ASSUME ConfigInv, NEW q \in Requests, NEW e \in Env, StoreCopied(q, e)
    PROVE  ConfigInv'
<1> DEFINE envs == [job[q].vars EXCEPT ![job[q].key] = job[q].value]
<1>1. /\ At(q, "storeCopied", e) /\ UNCHANGED <<column, target, app, deployed>>
      /\ StoreVault(e, envs) /\ Become(q, [Done(job[q]) EXCEPT !.vars = envs, !.value = NoValue])
  BY DEF StoreCopied
<1>2. Busy(q) /\ Name(job[q]) = "storeCopied" /\ Place(job[q]) = e
  BY <1>1, AtTurn
<1>3. envs \in Vars
  <2>1. job[q].vars \in Vars /\ job[q].value \in Value \cup {NoValue}
    BY <1>2, Turn DEF Job
  <2> QED
    BY <2>1 DEF Vars
<1> HIDE DEF envs
<1>4. PICK d \in Job : d = Done(job[q])
  BY <1>2, DoneJob
<1>5. PICK c \in Job : c = [d EXCEPT !.vars = envs]
  BY <1>3, Fields
<1>6. PICK j \in Job : j = [c EXCEPT !.value = NoValue]
  BY Fields
<1>7. /\ j.todo = Tail(job[q].todo) /\ j.started /\ j.kind = job[q].kind /\ j.branches = job[q].branches
      /\ j.texts = job[q].texts /\ j.alone = job[q].alone /\ j.failed = job[q].failed
      /\ j.apps = job[q].apps /\ j.vars = envs
  BY <1>2, <1>4, <1>5, <1>6, DoneJob DEF Job, Rest
<1>8. stored \subseteq stored' /\ \A k \in Keys : envs[k] # NoValue => <<e, k, envs[k]>> \in stored'
  BY <1>1, <1>3, Stored
<1>9. e \in KnownVars(j)'
  BY <1>7, <1>8 DEF KnownVars
<1>10. JobInv(q, j)'
  BY <1>1, <1>2, <1>7, <1>8, <1>9, NotDeploying, Proceeds
<1>11. Become(q, j)
  BY <1>1, <1>4, <1>5, <1>6
<1> QED
  BY <1>1, <1>2, <1>3, <1>7, <1>10, <1>11, Storing

\* What is about to be sent is known.
LEMMA SendsKnown ==
    ASSUME ConfigInv, NEW q \in Requests, Busy(q), Name(job[q]) \in Sends
    PROVE  Place(job[q]) \in KnownVars(job[q])
<1>1. /\ Plan(job[q].todo, job[q].kind, KnownVars(job[q]), KnownTexts(q, job[q]))
      /\ 1 \in 1..Len(job[q].todo)
  BY Turn
<1>2. ~Fed(job[q].todo, 1)
  BY DEF Fed
<1> QED
  BY <1>1, <1>2 DEF Plan, Name, Place

LEMMA OnlySecretKeeps ==
    ASSUME ConfigInv, NEW q \in Requests, NEW e \in Env, OnlySecret(q, e)
    PROVE  ConfigInv'
<1> DEFINE envs == [NoVars EXCEPT !["secret"] = job[q].vars["secret"]]
<1>1. /\ At(q, "onlySecret", e) /\ UNCHANGED <<column, target, app, vault, stored, deployed>>
      /\ Become(q, [Done(job[q]) EXCEPT !.vars = envs])
  BY DEF OnlySecret
<1>2. Busy(q) /\ Name(job[q]) = "onlySecret" /\ Place(job[q]) = e
  BY <1>1, AtTurn
<1>3. /\ envs \in Vars
      /\ \A k \in Keys : envs[k] = job[q].vars[k] \/ envs[k] = NoValue
  <2>1. job[q].vars \in Vars /\ "secret" \in Keys
    BY <1>2, Turn DEF Job, Keys
  <2> QED
    BY <2>1 DEF Vars, NoVars
<1> HIDE DEF envs
<1>4. PICK d \in Job : d = Done(job[q])
  BY <1>2, DoneJob
<1>5. PICK j \in Job : j = [d EXCEPT !.vars = envs]
  BY <1>3, Fields
<1>6. /\ j.todo = Tail(job[q].todo) /\ j.started /\ j.kind = job[q].kind /\ j.branches = job[q].branches
      /\ j.texts = job[q].texts /\ j.alone = job[q].alone /\ j.failed = job[q].failed
      /\ j.apps = job[q].apps /\ j.vars = envs
  BY <1>2, <1>4, <1>5, DoneJob DEF Job, Rest
<1>7. e \in KnownVars(j)'
  <2>1. e \in KnownVars(job[q])
    BY <1>2, SendsKnown DEF Sends
  <2> QED
    BY <1>1, <1>3, <1>6, <2>1 DEF KnownVars
<1>8. JobInv(q, j)'
  BY <1>1, <1>2, <1>6, <1>7, NotDeploying, Proceeds
<1> QED
  BY <1>1, <1>2, <1>4, <1>5, <1>6, <1>8, Quietly

\* The next step of a deploy.
LEMMA DeployNext ==
    ASSUME ConfigInv, NEW q \in Requests, Busy(q), job[q].kind = "deploy",
           NEW j, j.todo = Tail(job[q].todo), Working(j)
    PROVE  /\ \/ Name(job[q]) = "resolveApp" /\ Name(j) = "locate"
              \/ Name(job[q]) = "locate" /\ Name(j) = "loadVault"
              \/ Name(job[q]) = "loadVault" /\ Name(j) = "pushKeys"
              \/ Name(job[q]) = "pushKeys" /\ Name(j) = "build"
              \/ Name(job[q]) = "build" /\ Name(j) = "readColumn"
              \/ Name(job[q]) = "readColumn" /\ Name(j) = "writeOutcome"
           /\ Place(j) = Place(job[q])
           /\ Name(job[q]) # "resolveApp" => job[q].apps[Place(job[q])] \in AppIds
<1>1. DeployShape(job[q].todo) /\ job[q].todo \in Seq(PlanStep) /\ job[q].todo # <<>>
  BY Turn DEF Plan
<1>2. Name(job[q]) # "resolveApp" => Len(job[q].todo) < 7
  BY <1>1, DeployTurn DEF Name
<1>3. Prepared(job[q]) /\ Working(job[q])
  BY Turn DEF JobInv
<1>4. Name(job[q]) # "resolveApp" => job[q].apps[Place(job[q])] \in AppIds
  BY <1>2, <1>3 DEF Prepared
<1> DEFINE s == job[q].todo
<1>5. \/ After("resolveApp", "locate", s) \/ After("locate", "loadVault", s)
      \/ After("loadVault", "pushKeys", s) \/ After("pushKeys", "build", s)
      \/ After("build", "readColumn", s) \/ After("readColumn", "writeOutcome", s)
  <2>1. Tail(s) # <<>>
    BY DEF Working
  <2> HIDE DEF s
  <2>2. s \in Seq(PlanStep) /\ s # <<>> /\ DeployShape(s)
    BY <1>1 DEF s
  <2> QED
    BY <2>1, <2>2, DeployTurn
<1>6. Name(j) = Tail(s)[1][1] /\ Place(j) = Tail(s)[1][2] /\ Name(job[q]) = s[1][1] /\ Place(job[q]) = s[1][2]
  BY DEF Name, Place
<1> HIDE DEF s
<1>7. ASSUME NEW a, NEW b, After(a, b, s)
      PROVE  Name(job[q]) = a /\ Name(j) = b /\ Place(j) = Place(job[q])
  <2>1. s[1][1] = a /\ Tail(s)[1] = <<b, s[1][2]>>
    BY <1>7 DEF After
  <2>2. Tail(s)[1][1] = b /\ Tail(s)[1][2] = s[1][2]
    <3> DEFINE x == Tail(s)[1]
               y == s[1][2]
    <3>1. x = <<b, y>>
      BY <2>1
    <3> HIDE DEF x, y
    <3>2. x[1] = b /\ x[2] = y
      BY <3>1
    <3> QED
      BY <3>2 DEF x, y
  <2> QED
    BY <1>6, <2>1, <2>2
<1>8. Place(j) = Place(job[q])
  BY <1>5, <1>7
<1> QED
  BY <1>4, <1>5, <1>7, <1>8

LEMMA DeployApp ==
    ASSUME ConfigInv, NEW q \in Requests, Busy(q), job[q].kind = "deploy", Name(job[q]) # "resolveApp"
    PROVE  job[q].apps[Place(job[q])] \in AppIds
<1>1. DeployShape(job[q].todo) /\ job[q].todo \in Seq(PlanStep) /\ job[q].todo # <<>>
  BY Turn DEF Plan
<1>2. Len(job[q].todo) < 7
  BY <1>1, DeployTurn DEF Name
<1> QED
  BY <1>2, Turn DEF JobInv, Prepared

\* What a request does when a call throws.
LEMMA AfterThrowKeeps ==
    ASSUME ConfigInv, NEW q \in Requests, Busy(q), Become(q, AfterThrow(job[q])),
           UNCHANGED <<column, target, app, vault, stored, deployed>>
    PROVE  ConfigInv'
<1>1. /\ job[q] \in Job /\ job[q].started /\ Prepared(job[q]) /\ Place(job[q]) \in Env
      /\ Head(job[q].todo)[1] = Name(job[q]) /\ Head(job[q].todo)[2] = Place(job[q])
  BY Turn DEF JobInv, Name, Place
<1>2. CASE job[q].kind = "boxes" /\ Name(job[q]) = "showBox"
  <2>1. Part(TypeAndSave, Allowed("boxes"), {}, {}, {})
    <3>1. Allowed("boxes") = StepNames \ {"build"}
      BY DEF Allowed, Barred
    <3> QED
      BY <3>1, TypeAndSavePart
  <2>2. TypeAndSave \in Seq(StepNames \X Env)
    BY <2>1 DEF Part, PlanStep
  <2>3. PICK t \in Seq(StepNames \X Env) : t = TypeAndSave
    BY <2>2
  <2>4. PICK c \in Job : c = [job[q] EXCEPT !.todo = t]
    BY <1>1, Fields
  <2>5. PICK d \in Job : d = [c EXCEPT !.boxes = EmptyBoxes]
    BY StartTypes, Fields
  <2>6. PICK j \in Job : j = [d EXCEPT !.failed = TRUE]
    BY Fields
  <2>7. /\ j.todo = TypeAndSave /\ j.started /\ j.kind = "boxes" /\ j.branches = job[q].branches
        /\ j.alone = job[q].alone /\ j.failed
    BY <1>1, <1>2, <2>3, <2>4, <2>5, <2>6 DEF Job
  <2>8. Become(q, j)
    <3>1. AfterThrow(job[q]) = [job[q] EXCEPT !.todo = TypeAndSave, !.boxes = EmptyBoxes, !.failed = TRUE]
      BY <1>1, <1>2 DEF AfterThrow
    <3> QED
      BY <2>3, <2>4, <2>5, <2>6, <3>1
  <2>9. Plan(TypeAndSave, "boxes", KnownVars(j)', KnownTexts(q, j)')
    <3> DEFINE K == KnownVars(j)'
               T == KnownTexts(q, j)'
    <3>1. Part(TypeAndSave, Allowed("boxes"), T, {}, {})
      <4> HIDE DEF T
      <4> QED
        BY <2>1, PartWeaker
    <3> HIDE DEF K, T
    <3>2. Plan(TypeAndSave, "boxes", K, T)
      BY <3>1, PlanFirst
    <3> QED
      BY <3>2 DEF K, T
  <2>10. Planned(q, j)'
    BY <2>7, <2>9 DEF Planned
  <2>11. TypeAndSave # <<>> => TypeAndSave[1][1] \notin Inserted
    <3>1. TypeAndSave # <<>> => 1 \in 1..Len(TypeAndSave)
      BY <2>2
    <3> QED
      BY <2>1, <3>1 DEF Part
  <2>12. Prepared(j)' /\ Carries(j)' /\ Saves(j)'
    BY <1>1, <1>2, <2>7, <2>11 DEF Prepared, Working, Name, Place, Inserted, Carries, Saves
  <2> QED
    BY <2>7, <2>8, <2>10, <2>12, Quietly DEF JobInv
<1>3. CASE job[q].kind = "deploy" /\ Name(job[q]) \in {"locate", "loadVault", "pushKeys"}
  <2> DEFINE e == Place(job[q])
  <2>0. e \in Env
    BY <1>1
  <2>1. /\ Part(BuildAndRecord(e), Allowed("deploy"), {}, {}, {})
        /\ DeployShape(BuildAndRecord(e)) /\ Len(BuildAndRecord(e)) = 3
        /\ BuildAndRecord(e)[1] = <<"build", e>>
    BY <2>0, BuildPart
  <2>2. BuildAndRecord(e) \in Seq(StepNames \X Env)
    BY <2>1 DEF Part, PlanStep
  <2>3. PICK t \in Seq(StepNames \X Env) : t = BuildAndRecord(e)
    BY <2>2
  <2>4. PICK b \in Job : b = [job[q] EXCEPT !.todo = t]
    BY <1>1, Fields
  <2>5. PICK c \in Job : c = [b EXCEPT !.vars = NoVars]
    BY StartTypes, Fields
  <2>6. PICK d \in Job : d = [c EXCEPT !.row = NoTarget]
    BY StartTypes, Fields
  <2>7. PICK j \in Job : j = [d EXCEPT !.failed = TRUE]
    BY Fields
  <2>8. /\ j.todo = BuildAndRecord(e) /\ j.started /\ j.kind = "deploy" /\ j.branches = job[q].branches
        /\ j.alone = job[q].alone /\ j.failed /\ j.apps = job[q].apps
    BY <1>1, <1>3, <2>3, <2>4, <2>5, <2>6, <2>7 DEF Job
  <2>9. Become(q, j)
    <3>1. AfterThrow(job[q]) = [job[q] EXCEPT !.todo = BuildAndRecord(e), !.vars = NoVars,
                                              !.row = NoTarget, !.failed = TRUE]
      BY <1>1, <1>3 DEF AfterThrow
    <3> QED
      BY <2>3, <2>4, <2>5, <2>6, <2>7, <3>1
  <2>10. job[q].apps[e] \in AppIds
    BY <1>3, DeployApp
  <2> HIDE DEF e
  <2>11. Plan(BuildAndRecord(e), "deploy", KnownVars(j)', KnownTexts(q, j)')
    <3> DEFINE K == KnownVars(j)'
               T == KnownTexts(q, j)'
    <3>1. Part(BuildAndRecord(e), Allowed("deploy"), T, {}, {})
      <4> HIDE DEF T
      <4> QED
        BY <2>1, PartWeaker
    <3> HIDE DEF K, T
    <3>2. Plan(BuildAndRecord(e), "deploy", K, T)
      BY <2>1, <3>1, PlanFirst
    <3> QED
      BY <3>2 DEF K, T
  <2>12. Planned(q, j)'
    BY <2>8, <2>11 DEF Planned
  <2>13. Prepared(j)' /\ Carries(j)' /\ Saves(j)'
    BY <1>1, <1>3, <2>1, <2>8, <2>10 DEF Prepared, Working, Name, Place, Carries, Clean, Saves
  <2> QED
    BY <2>8, <2>9, <2>12, <2>13, Quietly DEF JobInv
<1>4. CASE /\ ~(job[q].kind = "boxes" /\ Name(job[q]) = "showBox")
           /\ ~(job[q].kind = "deploy" /\ Name(job[q]) \in {"locate", "loadVault", "pushKeys"})
  <2>1. AfterThrow(job[q]) = Stopped(job[q])
    BY <1>1, <1>4 DEF AfterThrow
  <2> QED
    BY <2>1, Stops, Quietly
<1> QED
  BY <1>2, <1>3, <1>4

LEMMA LocateKeeps ==
    ASSUME ConfigInv, NEW q \in Requests, NEW e \in Env, Locate(q, e)
    PROVE  ConfigInv'
<1>1. /\ At(q, "locate", e) /\ UNCHANGED <<column, target, app, vault, stored, deployed>>
      /\ Become(q, IF target[e].app = NoApp THEN AfterThrow(job[q])
                   ELSE [Done(job[q]) EXCEPT !.row = target[e]])
  BY DEF Locate
<1>2. Busy(q) /\ Name(job[q]) = "locate" /\ Place(job[q]) = e
  BY <1>1, AtTurn
<1>3. CASE target[e].app = NoApp
  BY <1>1, <1>2, <1>3, AfterThrowKeeps
<1>4. CASE target[e].app # NoApp
  <2>1. PICK d \in Job : d = Done(job[q])
    BY <1>2, DoneJob
  <2>2. PICK j \in Job : j = [d EXCEPT !.row = target[e]]
    BY Fields DEF ConfigInv, ConfigTypeOK
  <2>3. /\ j.todo = Tail(job[q].todo) /\ j.started /\ j.kind = job[q].kind /\ j.branches = job[q].branches
        /\ j.texts = job[q].texts /\ j.alone = job[q].alone /\ j.failed = job[q].failed
        /\ j.apps = job[q].apps /\ j.vars = job[q].vars /\ j.row = target[e]
    BY <1>2, <2>1, <2>2, DoneJob DEF Job, Rest
  <2>4. KnownVars(job[q]) \subseteq KnownVars(j)'
    BY <1>1, <2>3 DEF KnownVars
  <2>5. j.kind = "deploy" => Carries(j)' /\ (Working(j) => j.apps[Place(j)] \in AppIds)
    <3>1. ASSUME j.kind = "deploy", Working(j)
          PROVE  Name(j) = "loadVault" /\ Place(j) = e /\ j.apps[e] \in AppIds
      BY <1>2, <2>3, <3>1, DeployNext
    <3>2. ASSUME j.kind = "deploy", Clean(j) PROVE target[e].app = j.apps[e]
      BY <1>2, <2>3, <3>2, Turn DEF JobInv, Carries, Clean
    <3> QED
      BY <2>3, <3>1, <3>2 DEF Carries, Clean
  <2>6. JobInv(q, j)'
    BY <1>1, <1>2, <2>3, <2>4, <2>5, Proceeds DEF Feeds
  <2> QED
    BY <1>1, <1>2, <1>4, <2>1, <2>2, <2>3, <2>6, Quietly
<1> QED
  BY <1>3, <1>4

LEMMA LoadVaultKeeps ==
    ASSUME ConfigInv, NEW q \in Requests, NEW e \in Env, LoadVault(q, e)
    PROVE  ConfigInv'
<1> DEFINE envs == WithDerivedSpaUrl(vault[e])
<1>1. /\ At(q, "loadVault", e) /\ UNCHANGED <<column, target, app, vault, stored, deployed>>
      /\ Become(q, [Done(job[q]) EXCEPT !.vars = envs])
  BY DEF LoadVault
<1>2. Busy(q) /\ Name(job[q]) = "loadVault" /\ Place(job[q]) = e
  BY <1>1, AtTurn
<1>3. /\ envs \in Vars
      /\ \A k \in Keys : vault[e][k] # NoValue => envs[k] = vault[e][k]
      /\ \A k \in Keys : envs[k] # NoValue => envs[k] = vault[e][k] \/ envs[k][3] = "derived"
  <2>1. vault[e] \in Vars
    BY DEF ConfigInv, ConfigTypeOK
  <2> QED
    BY <2>1, DerivedTypes
<1> HIDE DEF envs
<1>4. PICK d \in Job : d = Done(job[q])
  BY <1>2, DoneJob
<1>5. PICK j \in Job : j = [d EXCEPT !.vars = envs]
  BY <1>3, Fields
<1>6. /\ j.todo = Tail(job[q].todo) /\ j.started /\ j.kind = job[q].kind /\ j.branches = job[q].branches
      /\ j.texts = job[q].texts /\ j.alone = job[q].alone /\ j.failed = job[q].failed
      /\ j.apps = job[q].apps /\ j.vars = envs /\ j.row = job[q].row
  BY <1>2, <1>4, <1>5, DoneJob DEF Job, Rest
<1>7. e \in KnownVars(j)'
  BY <1>1, <1>3, <1>6 DEF KnownVars, ConfigInv, VaultKnown
<1>8. j.kind = "deploy" => Carries(j)' /\ (Working(j) => j.apps[Place(j)] \in AppIds)
  <2>1. ASSUME j.kind = "deploy", Working(j)
        PROVE  Name(j) = "pushKeys" /\ Place(j) = e /\ j.apps[e] \in AppIds
    BY <1>2, <1>6, <2>1, DeployNext
  <2>2. ASSUME j.kind = "deploy", Clean(j) PROVE j.row.app = j.apps[e]
    BY <1>2, <1>6, <2>2, Turn DEF JobInv, Carries, Clean
  <2>3. Carrying(j, e, j.apps[e])'
    BY <1>1, <1>3, <1>6 DEF Carrying
  <2> QED
    BY <1>6, <2>1, <2>2, <2>3 DEF Carries, Clean
<1>9. JobInv(q, j)'
  BY <1>1, <1>2, <1>6, <1>7, <1>8, Proceeds
<1> QED
  BY <1>1, <1>2, <1>4, <1>5, <1>6, <1>9, Quietly

LEMMA ResolveAppKeeps ==
    ASSUME ConfigInv, NEW q \in Requests, NEW e \in Env, ResolveApp(q, e)
    PROVE  ConfigInv'
<1>1. /\ At(q, "resolveApp", e) /\ UNCHANGED <<column, target, app, vault, stored, deployed>>
      /\ Become(q, IF target[e].status # "ready" \/ target[e].app = NoApp THEN Stopped(job[q])
                   ELSE [Done(job[q]) EXCEPT !.apps[e] = target[e].app])
  BY DEF ResolveApp
<1>2. Busy(q) /\ Name(job[q]) = "resolveApp" /\ Place(job[q]) = e
  BY <1>1, AtTurn
<1>3. CASE target[e].status # "ready" \/ target[e].app = NoApp
  BY <1>1, <1>2, <1>3, Stops, Quietly
<1>4. CASE target[e].status = "ready" /\ target[e].app # NoApp
  <2>1. target[e].app \in AppIds
    BY <1>4 DEF ConfigInv, ConfigTypeOK, Target
  <2>2. PICK d \in Job : d = Done(job[q])
    BY <1>2, DoneJob
  <2>3. [d.apps EXCEPT ![e] = target[e].app] \in [Env -> AppIds \cup {NoApp}]
    BY <2>1 DEF Job
  <2>4. PICK j \in Job : j = [d EXCEPT !.apps[e] = target[e].app]
    BY <2>3, Fields
  <2>5. /\ j.todo = Tail(job[q].todo) /\ j.started /\ j.kind = job[q].kind /\ j.branches = job[q].branches
        /\ j.texts = job[q].texts /\ j.alone = job[q].alone /\ j.failed = job[q].failed
        /\ j.apps[e] = target[e].app
    BY <1>2, <2>2, <2>4, DoneJob DEF Job, Rest
  <2>6. Saves(j)'
    BY <1>2, <2>5, Turn DEF Allowed, Barred, Saves
  <2>7. j.kind = "deploy" => Carries(j)' /\ (Working(j) => j.apps[Place(j)] \in AppIds)
    <3>1. ASSUME j.kind = "deploy", Working(j) PROVE Name(j) = "locate" /\ Place(j) = e
      BY <1>2, <2>5, <3>1, DeployNext
    <3> QED
      BY <1>1, <2>1, <2>5, <3>1 DEF Carries
  <2>8. JobInv(q, j)'
    BY <1>1, <1>2, <2>5, <2>6, <2>7, Goes DEF Feeds
  <2> QED
    BY <1>1, <1>2, <1>4, <2>2, <2>4, <2>5, <2>8, Quietly
<1> QED
  BY <1>3, <1>4

LEMMA BuildKeeps ==
    ASSUME ConfigInv, NEW q \in Requests, NEW e \in Env, Build(q, e)
    PROVE  ConfigInv'
<1> DEFINE a == job[q].apps[e]
           run == [clean |-> job[q].alone /\ ~job[q].failed, vars |-> app[e][a].vars, vault |-> vault[e]]
<1>1. /\ At(q, "build", e) /\ UNCHANGED <<column, target, app, vault, stored>>
      /\ deployed' = [deployed EXCEPT ![e] = run] /\ Become(q, Done(job[q]))
  BY DEF Build
<1>2. Busy(q) /\ Name(job[q]) = "build" /\ Place(job[q]) = e
  BY <1>1, AtTurn
<1>3. job[q].kind = "deploy"
  BY <1>2, Turn DEF Allowed, Barred
<1>4. a \in AppIds
  BY <1>2, <1>3, DeployApp
<1>5. run \in [clean : BOOLEAN, vars : Vars, vault : Vars]
  <2>1. app[e][a] \in Application /\ vault[e] \in Vars /\ job[q].alone \in BOOLEAN /\ job[q].failed \in BOOLEAN
    BY <1>2, <1>4, Turn DEF Job, ConfigInv, ConfigTypeOK
  <2> QED
    BY <2>1 DEF Application
<1>6. run.clean => \A k \in Keys : run.vault[k] # NoValue => run.vars[k] = run.vault[k]
  BY <1>2, <1>3, Turn DEF JobInv, Carries, Clean
<1> HIDE DEF run
<1>7. DeployCarriesVault'
  <2>1. deployed'[e] = run /\ \A f \in Env \ {e} : deployed'[f] = deployed[f]
    BY <1>1 DEF ConfigInv, ConfigTypeOK
  <2> QED
    BY <1>6, <2>1 DEF ConfigInv, DeployCarriesVault
<1>8. PICK j \in Job : j = Done(job[q])
  BY <1>2, DoneJob
<1>9. /\ j.todo = Tail(job[q].todo) /\ j.started /\ j.kind = job[q].kind /\ j.branches = job[q].branches
      /\ j.texts = job[q].texts /\ j.alone = job[q].alone /\ j.failed = job[q].failed
      /\ j.apps = job[q].apps
  BY <1>2, <1>8, DoneJob DEF Rest
<1>10. j.kind = "deploy" => Carries(j)' /\ (Working(j) => j.apps[Place(j)] \in AppIds)
  <2>1. ASSUME Working(j) PROVE Name(j) = "readColumn" /\ Place(j) = e
    BY <1>2, <1>3, <1>9, <2>1, DeployNext
  <2> QED
    BY <1>4, <1>9, <2>1 DEF Carries
<1>11. JobInv(q, j)'
  BY <1>1, <1>2, <1>9, <1>10, Proceeds DEF Feeds
<1>12. deployed' \in [Env -> [clean : BOOLEAN, vars : Vars, vault : Vars]]
  BY <1>1, <1>5 DEF ConfigInv, ConfigTypeOK
<1>13. PushedWasStored' /\ VaultKnown'
  BY <1>1 DEF ConfigInv, PushedWasStored, VaultKnown
<1>14. Become(q, j) /\ UNCHANGED <<column, target, app, vault, stored>>
  BY <1>1, <1>8
<1> QED
  BY <1>2, <1>7, <1>9, <1>11, <1>12, <1>13, <1>14, Stepped DEF ConfigInv, ConfigTypeOK

LEMMA ThrowsKeeps ==
    ASSUME ConfigInv, NEW q \in Requests, Throws(q)
    PROVE  ConfigInv'
  BY AfterThrowKeeps DEF Throws

LEMMA PushKeysKeeps ==
    ASSUME ConfigInv, NEW q \in Requests, NEW e \in Env, PushKeys(q, e)
    PROVE  ConfigInv'
<1>1. At(q, "pushKeys", e) /\ UNCHANGED <<column, target, vault, stored, deployed>>
  BY DEF PushKeys
<1>2. Busy(q) /\ Name(job[q]) = "pushKeys" /\ Place(job[q]) = e
  BY <1>1, AtTurn
<1>3. /\ job[q] \in Job /\ JobInv(q, job[q]) /\ job[q].started /\ Working(job[q])
      /\ job[q].vars \in Vars
  BY <1>2, Turn DEF Job
<1>4. ASSUME job[q].kind = "deploy", Clean(job[q])
      PROVE  /\ job[q].row.app = job[q].apps[e] /\ job[q].apps[e] \in AppIds
             /\ Carrying(job[q], e, job[q].apps[e])
  BY <1>2, <1>3, <1>4, DeployApp DEF JobInv, Carries
<1>5. ASSUME job[q].vars = NoVars, Become(q, [Done(job[q]) EXCEPT !.row = NoTarget]), UNCHANGED app
      PROVE  ConfigInv'
  <2>1. PICK d \in Job : d = Done(job[q])
    BY <1>2, DoneJob
  <2>2. PICK j \in Job : j = [d EXCEPT !.row = NoTarget]
    BY StartTypes, Fields
  <2>3. /\ j.todo = Tail(job[q].todo) /\ j.started /\ j.kind = job[q].kind /\ j.branches = job[q].branches
        /\ j.texts = job[q].texts /\ j.alone = job[q].alone /\ j.failed = job[q].failed
        /\ j.apps = job[q].apps
    BY <1>2, <2>1, <2>2, DoneJob DEF Job, Rest
  <2>4. j.kind = "deploy" => Carries(j)' /\ (Working(j) => j.apps[Place(j)] \in AppIds)
    <3>1. ASSUME j.kind = "deploy", Working(j)
          PROVE  Name(j) = "build" /\ Place(j) = e /\ j.apps[e] \in AppIds
      BY <1>2, <2>3, <3>1, DeployNext
    <3>2. ASSUME j.kind = "deploy", Clean(j), NEW k \in Keys, vault[e][k] # NoValue
          PROVE  app[e][j.apps[e]].vars[k] = vault[e][k]
      <4>1. Carrying(job[q], e, job[q].apps[e])
        BY <1>3, <1>4, <2>3, <3>2 DEF Clean
      <4>2. job[q].vars[k] = NoValue
        BY <1>5 DEF NoVars
      <4> QED
        BY <2>3, <3>2, <4>1, <4>2 DEF Carrying
    <3> QED
      BY <1>1, <1>5, <3>1, <3>2 DEF Carries, Clean
  <2>5. JobInv(q, j)'
    BY <1>1, <1>2, <2>3, <2>4, Proceeds DEF Feeds
  <2> QED
    BY <1>1, <1>2, <1>5, <2>1, <2>2, <2>3, <2>5, Quietly
<1>6. ASSUME NEW k \in Keys, job[q].vars[k] # NoValue,
             app' = [app EXCEPT ![e][job[q].row.app].vars[k] = job[q].vars[k]],
             Become(q, [job[q] EXCEPT !.vars[k] = NoValue])
      PROVE  ConfigInv'
  <2> DEFINE v == job[q].vars[k]
             a == job[q].row.app
             envs == [job[q].vars EXCEPT ![k] = NoValue]
  <2>1. envs \in Vars /\ v \in Value /\ v # NoValue
        /\ envs[k] = NoValue /\ \A l \in Keys \ {k} : envs[l] = job[q].vars[l]
    BY <1>3, <1>6 DEF Vars
  <2>2. PICK j \in Job : j = [job[q] EXCEPT !.vars[k] = NoValue]
    BY <1>3, <2>1, Fields
  <2>3. /\ j.todo = job[q].todo /\ j.started /\ j.kind = job[q].kind /\ j.branches = job[q].branches
        /\ j.texts = job[q].texts /\ j.alone = job[q].alone /\ j.failed = job[q].failed
        /\ j.apps = job[q].apps /\ j.vars = envs /\ j.row = job[q].row
    BY <1>3, <2>2 DEF Job
  <2>4. <<e, k, v>> \in stored \/ v[3] = "derived"
    <3>1. e \in KnownVars(job[q])
      BY <1>2, SendsKnown DEF Sends
    <3> QED
      BY <1>6, <3>1 DEF KnownVars
  <2>5. /\ app' \in [Env -> [AppIds -> Application]]
        /\ \A f \in Env, b \in AppIds, l \in Keys :
             app'[f][b].vars[l] = IF f = e /\ b = a /\ l = k THEN v ELSE app[f][b].vars[l]
    <3> HIDE DEF v, a, envs
    <3>1. app' = [app EXCEPT ![e][a].vars[k] = v]
      BY <1>6 DEF v, a
    <3>2. PICK g \in [AppIds -> Application] : g = app[e]
      BY DEF ConfigInv, ConfigTypeOK
    <3>3. app \in [Env -> [AppIds -> Application]]
      BY DEF ConfigInv, ConfigTypeOK
    <3>4. ASSUME NEW r \in Application
          PROVE  /\ [r EXCEPT !.vars[k] = v] \in Application
                 /\ \A l \in Keys : [r EXCEPT !.vars[k] = v].vars[l] = IF l = k THEN v ELSE r.vars[l]
      BY <2>1 DEF Application, Vars
    <3> DEFINE h == [g EXCEPT ![a] = [g[a] EXCEPT !.vars[k] = v]]
    <3>5. /\ h \in [AppIds -> Application]
          /\ \A b \in AppIds, l \in Keys :
               h[b].vars[l] = IF b = a /\ l = k THEN v ELSE g[b].vars[l]
      <4> DEFINE changed == [g[a] EXCEPT !.vars[k] = v]
      <4>1. a \in AppIds =>
              /\ changed \in Application
              /\ \A l \in Keys : changed.vars[l] = IF l = k THEN v ELSE g[a].vars[l]
        BY <3>4
      <4>2. h = [g EXCEPT ![a] = changed]
        OBVIOUS
      <4> HIDE DEF changed, h
      <4> QED
        BY <4>1, <4>2
    <3>6. app' = [app EXCEPT ![e] = h]
      BY <3>1, <3>2
    <3> HIDE DEF h
    <3> QED
      BY <3>2, <3>3, <3>5, <3>6
  <2> HIDE DEF v, envs
  <2>6. \A f \in Env, b \in AppIds, l \in Keys :
            app'[f][b].vars[l] # NoValue =>
                \/ app'[f][b].vars[l] = app[f][b].vars[l]
                \/ <<f, l, app'[f][b].vars[l]>> \in stored
                \/ app'[f][b].vars[l][3] = "derived"
    <3> TAKE f \in Env, b \in AppIds, l \in Keys
    <3>1. CASE f = e /\ b = a /\ l = k
      <4>1. app'[f][b].vars[l] = v
        BY <2>5, <3>1
      <4> QED
        BY <2>4, <3>1, <4>1
    <3>2. CASE ~(f = e /\ b = a /\ l = k)
      <4>1. app'[f][b].vars[l] = app[f][b].vars[l]
        BY <2>5, <3>2
      <4> QED
        BY <4>1
    <3> QED
      BY <3>1, <3>2
  <2>7. Planned(q, j)'
    <3>1. KnownVars(job[q]) \subseteq KnownVars(j)'
      BY <1>1, <2>1, <2>3 DEF KnownVars
    <3>2. KnownTexts(q, job[q]) \subseteq KnownTexts(q, j)'
      BY <1>1, <2>3 DEF KnownTexts
    <3> DEFINE K == KnownVars(job[q])
               T == KnownTexts(q, job[q])
               L == KnownVars(j)'
               U == KnownTexts(q, j)'
    <3>3. Plan(j.todo, j.kind, K, T) /\ K \subseteq L /\ T \subseteq U
      BY <1>3, <2>3, <3>1, <3>2 DEF JobInv, Planned
    <3> HIDE DEF K, T, L, U
    <3>4. Plan(j.todo, j.kind, L, U)
      BY <3>3, PlanMore
    <3> QED
      BY <3>4 DEF Planned, L, U
  <2>8. Prepared(j)'
    BY <1>1, <1>3, <2>3 DEF JobInv, Prepared, Working, Name, Place
  <2>9. Carries(j)'
    <3>1. ASSUME j.kind = "deploy", Clean(j) PROVE Carrying(j, e, j.apps[e])' /\ j.row.app = j.apps[e]
      <4>1. /\ a = j.apps[e] /\ j.apps[e] \in AppIds
            /\ Carrying(job[q], e, job[q].apps[e])
        BY <1>3, <1>4, <2>3, <3>1 DEF Clean
      <4>2. ASSUME NEW l \in Keys, vault[e][l] # NoValue
            PROVE  \/ j.vars[l] = vault[e][l]
                   \/ j.vars[l] = NoValue /\ app'[e][j.apps[e]].vars[l] = vault[e][l]
        <5>1. \/ job[q].vars[l] = vault[e][l]
              \/ job[q].vars[l] = NoValue /\ app[e][j.apps[e]].vars[l] = vault[e][l]
          BY <2>3, <4>1, <4>2 DEF Carrying
        <5>2. app'[e][j.apps[e]].vars[l] = IF l = k THEN v ELSE app[e][j.apps[e]].vars[l]
          BY <2>5, <4>1
        <5>3. CASE l = k
          BY <1>6, <2>1, <2>3, <5>1, <5>2, <5>3 DEF v
        <5>4. CASE l # k
          BY <2>1, <2>3, <5>1, <5>2, <5>4
        <5> QED
          BY <5>3, <5>4
      <4> QED
        BY <1>1, <2>3, <4>1, <4>2 DEF Carrying
    <3>2. Name(j) = "pushKeys" /\ Place(j) = e
      BY <1>2, <2>3 DEF Name, Place
    <3> QED
      BY <3>1, <3>2 DEF Carries, Clean
  <2>10. Saves(j)'
    BY <1>1, <1>3, <2>3 DEF JobInv, Saves, Clean, CardSaved, TargetSaved, Working
  <2>11. JobInv(q, j)'
    BY <2>7, <2>8, <2>9, <2>10 DEF JobInv
  <2>12. /\ target' \in [Env -> Target]
         /\ \A f \in Env : target[f].branch \in Branches => target'[f].branch \in Branches
         /\ \A f \in Env : target'[f].status # "absent" => target'[f].branch \in Branches
    BY <1>1 DEF ConfigInv, ConfigTypeOK
  <2>13. Become(q, j) /\ UNCHANGED <<column, vault, stored, deployed>>
    BY <1>1, <1>6, <2>2
  <2> QED
    BY <1>2, <2>3, <2>5, <2>6, <2>11, <2>12, <2>13, Applications
<1> QED
  BY <1>5, <1>6 DEF PushKeys

\* A request that begins.
Begun(q, i) ==
    [Idle EXCEPT !.started = TRUE, !.kind = i.kind, !.todo = Steps(i),
                 !.key = IF i.kind = "mirror" THEN i.key ELSE "secret",
                 !.branches = [e \in Env |-> IF i.kind = "patch" THEN Named(i.branches, e)
                                             ELSE ResolveBranch(i.branches, e)],
                 !.texts = i.texts, !.alone = {p \in Requests : Busy(p)} = {}]

LEMMA BegunJob ==
    ASSUME NEW q \in Requests, NEW i, Asked(i)
    PROVE  /\ Begun(q, i) \in Job
           /\ \A j : j = Begun(q, i) =>
                /\ j.started /\ j.kind = i.kind /\ j.todo = Steps(i) /\ j.texts = i.texts
                /\ j.alone = ({p \in Requests : Busy(p)} = {}) /\ ~j.failed
                /\ \A e \in Env : j.apps[e] = NoApp
                /\ i.kind # "patch" => \A e \in Env : j.branches[e] \in Branches
<1> DEFINE b == [e \in Env |-> IF i.kind = "patch" THEN Named(i.branches, e)
                               ELSE ResolveBranch(i.branches, e)]
           k == IF i.kind = "mirror" THEN i.key ELSE "secret"
           s == Steps(i)
           alone == {p \in Requests : Busy(p)} = {}
<1>1. \A e \in Env : Named(i.branches, e) \in Branches \cup {NoBranch} /\ DefaultBranch(e) \in Branches
  <2>1. /\ i.branches.branch \in Branches \cup {NoBranch}
        /\ i.branches.staging \in Branches \cup {NoBranch}
        /\ i.branches.production \in Branches \cup {NoBranch}
    BY DEF Asked, BranchInput
  <2>2. \A e \in Env : i.branches[e] \in Branches \cup {NoBranch}
    BY <2>1 DEF Env
  <2> QED
    BY <2>1, <2>2, ConfigAssumption DEF Named, DefaultBranch
<1>2. /\ b \in [Env -> Branches \cup {NoBranch}]
      /\ i.kind # "patch" => \A e \in Env : b[e] \in Branches
  BY <1>1 DEF ResolveBranch
<1>3. k \in SharedKeys /\ alone \in BOOLEAN
  BY DEF Asked, SharedKeys
<1>4. s \in Seq(StepNames \X Env)
  BY StepsBegin DEF Part, PlanStep
<1>5. i.kind \in Kinds /\ i.texts \in [Env -> Texts \cup {NoText}]
  BY DEF Asked
<1>6. Idle \in Job /\ Idle.failed = FALSE /\ Idle.apps = [e \in Env |-> NoApp]
  BY StartTypes DEF Idle
<1>7. Begun(q, i) = [Idle EXCEPT !.started = TRUE, !.kind = i.kind, !.todo = s, !.key = k,
                                 !.branches = b, !.texts = i.texts, !.alone = alone]
  BY DEF Begun
<1> HIDE DEF b, k, s, alone
<1>8. Begun(q, i) \in Job
  BY <1>2, <1>3, <1>4, <1>5, <1>6, <1>7 DEF Job, Kinds
<1>9. ASSUME NEW j, j = Begun(q, i)
      PROVE  /\ j.started /\ j.kind = i.kind /\ j.todo = s /\ j.texts = i.texts
             /\ j.alone = alone /\ ~j.failed /\ j.branches = b /\ j.apps = [e \in Env |-> NoApp]
  BY <1>6, <1>7, <1>9 DEF Job
<1>10. ASSUME NEW j, j = Begun(q, i)
       PROVE  /\ j.started /\ j.kind = i.kind /\ j.todo = Steps(i) /\ j.texts = i.texts
              /\ j.alone = ({p \in Requests : Busy(p)} = {}) /\ ~j.failed
              /\ \A e \in Env : j.apps[e] = NoApp
              /\ i.kind # "patch" => \A e \in Env : j.branches[e] \in Branches
  BY <1>2, <1>9, <1>10 DEF s, alone
<1> QED
  BY <1>8, <1>10

LEMMA BegunInv ==
    ASSUME ConfigInv, NEW q \in Requests, NEW i, Asked(i), NEW j \in Job, j = Begun(q, i),
           UNCHANGED <<column, target, app, vault, stored, deployed>>
    PROVE  JobInv(q, j)'
<1>1. /\ j.started /\ j.kind = i.kind /\ j.todo = Steps(i) /\ j.texts = i.texts /\ ~j.failed
      /\ \A e \in Env : j.apps[e] = NoApp
      /\ i.kind # "patch" => \A e \in Env : j.branches[e] \in Branches
  BY BegunJob
<1> DEFINE D == {e \in Env : i.texts[e] = NoText}
<1>2. /\ Part(Steps(i), Allowed(i.kind), D, {}, Certain(i.kind))
      /\ i.kind = "deploy" => DeployShape(Steps(i)) /\ Len(Steps(i)) = 7
  BY StepsBegin
<1>3. D \subseteq KnownTexts(q, j)'
  BY <1>1 DEF KnownTexts, ParseEnvText
<1>4. Planned(q, j)'
  <2> DEFINE K == KnownVars(j)'
             T == KnownTexts(q, j)'
             kind == i.kind
             s == Steps(i)
             H == Certain(i.kind)
  <2>1. /\ Part(s, Allowed(kind), D, {}, H) /\ D \subseteq T
        /\ kind = "deploy" => DeployShape(s)
    BY <1>2, <1>3
  <2> HIDE DEF K, T, D, kind, s, H
  <2>2. Part(s, Allowed(kind), T, {}, H)
    BY <2>1, PartWeaker
  <2>3. Plan(s, kind, K, T)
    BY <2>1, <2>2, PlanFirst
  <2> QED
    BY <1>1, <2>3 DEF Planned, K, T, kind, s
<1>5. Steps(i) # <<>> => 1 \in 1..Len(Steps(i)) /\ Steps(i)[1][1] \notin Inserted
  <2> DEFINE s == Steps(i)
  <2>1. Part(s, Allowed(i.kind), D, {}, Certain(i.kind))
    BY <1>2
  <2> HIDE DEF s
  <2>2. s # <<>> => 1 \in 1..Len(s)
    BY <2>1 DEF Part
  <2>3. s # <<>> => s[1][1] \notin Inserted
    BY <2>1, <2>2 DEF Part
  <2> QED
    BY <2>2, <2>3 DEF s
<1>6. Prepared(j)'
  <2>1. j.todo = Steps(i) /\ (i.kind = "deploy" => Len(j.todo) = 7)
    BY <1>1, <1>2
  <2>2. Working(j) => Name(j) \notin Inserted
    BY <1>1, <1>5 DEF Working, Name
  <2>3. ASSUME j.kind = "deploy" PROVE ~(Len(j.todo) < 7)
    <3> DEFINE l == Len(j.todo)
    <3>1. l = 7
      BY <1>1, <2>1, <2>3
    <3> HIDE DEF l
    <3>2. ~(l < 7)
      BY <3>1
    <3> QED
      BY <3>2 DEF l
  <2> QED
    BY <1>1, <2>2, <2>3 DEF Prepared, Inserted
<1>7. Carries(j)'
  <2>1. ASSUME i.kind = "deploy" PROVE Steps(i)[1][1] = "resolveApp"
    <3> DEFINE s == Steps(i)
    <3>1. DeployShape(s) /\ Len(s) = 7
      BY <1>2, <2>1
    <3> HIDE DEF s
    <3>2. PICK e \in Env : \A n \in 1..Len(s) : s[n] = <<DeploySteps[7 - Len(s) + n], e>>
      BY <3>1 DEF DeployShape
    <3>3. 1 \in 1..Len(s) /\ 7 - Len(s) + 1 = 1 /\ DeploySteps[1] = "resolveApp"
      BY <3>1 DEF DeploySteps
    <3> QED
      BY <3>2, <3>3 DEF s
  <2> QED
    BY <1>1, <2>1 DEF Carries, Name
<1>8. Saves(j)'
  <2>1. \A h \in Certain(i.kind) : Remains(j.todo, h)
    BY <1>1, <1>2 DEF Part, Remains
  <2>2. CASE i.kind = "patch"
    <3>1. /\ Remains(j.todo, <<"writeConfig", "staging">>)
          /\ \A e \in Env : Remains(j.todo, <<"compareBranch", e>>)
      BY <2>1, <2>2 DEF Certain, Env
    <3> QED
      BY <3>1 DEF Saves, CardSaved, TargetSaved
  <2>3. CASE i.kind = "save"
    <3>1. Remains(j.todo, <<"writeConfig", "staging">>)
      BY <2>1, <2>3 DEF Certain
    <3> QED
      BY <1>1, <2>3, <3>1 DEF Saves, CardSaved, TargetSaved
  <2>4. CASE i.kind \notin {"patch", "save"}
    BY <1>1, <2>4 DEF Saves
  <2> QED
    BY <2>2, <2>3, <2>4
<1> QED
  BY <1>4, <1>6, <1>7, <1>8 DEF JobInv

LEMMA BeginKeeps ==
    ASSUME ConfigInv, NEW q \in Requests, NEW i \in Inputs, Begin(q, i)
    PROVE  ConfigInv'
<1>1. UNCHANGED <<column, target, app, vault, stored, deployed>> /\ ~job[q].started
  BY DEF Begin
<1>2. job' = [p \in Requests |-> IF p = q THEN Begun(q, i) ELSE [job[p] EXCEPT !.alone = FALSE]]
  BY DEF Begin, Begun
<1>3. Asked(i)
  BY InputsAsked
<1>4. PICK j \in Job : j = Begun(q, i)
  BY <1>3, BegunJob
<1>5. job'[q] = j /\ JobInv(q, j)' /\ j.alone = ({p \in Requests : Busy(p)} = {})
  BY <1>1, <1>2, <1>3, <1>4, BegunInv, BegunJob
<1>6. ASSUME NEW p \in Requests \ {q}
      PROVE  /\ job'[p] \in Job /\ job'[p].todo = job[p].todo /\ job'[p].started = job[p].started
             /\ job'[p].kind = job[p].kind /\ job'[p].branches = job[p].branches
             /\ job'[p].texts = job[p].texts /\ job'[p].vars = job[p].vars
             /\ job'[p].apps = job[p].apps /\ job'[p].alone = FALSE
  <2>1. job[p] \in Job
    BY DEF ConfigInv, ConfigTypeOK
  <2> QED
    BY <1>2, <2>1 DEF Job
<1>7. ConfigTypeOK'
  <2>1. job' \in [Requests -> Job]
    BY <1>2, <1>4, <1>5, <1>6
  <2> QED
    BY <1>1, <2>1 DEF ConfigInv, ConfigTypeOK
<1>8. PushedWasStored' /\ DeployCarriesVault' /\ VaultKnown'
  BY <1>1 DEF ConfigInv, PushedWasStored, DeployCarriesVault, VaultKnown
<1>9. ASSUME NEW p \in Requests \ {q} PROVE JobInv(p, job[p])'
  <2>1. JobInv(p, job[p])
    BY DEF ConfigInv
  <2>2. Planned(p, job[p])'
    BY <1>1, <1>6, <2>1 DEF JobInv, Planned, KnownVars, KnownTexts
  <2>3. Prepared(job[p])'
    BY <1>1, <1>6, <2>1 DEF JobInv, Prepared, Working, Name, Place
  <2>4. Carries(job[p])' /\ Saves(job[p])'
    BY <1>6 DEF Carries, Saves, Clean
  <2> QED
    BY <2>2, <2>3, <2>4 DEF JobInv
<1>10. JobInv(q, job[q])'
  <2>1. Planned(q, job[q])'
    BY <1>5 DEF JobInv, Planned, KnownVars, KnownTexts
  <2>2. Prepared(job[q])'
    BY <1>5 DEF JobInv, Prepared, Working, Name, Place
  <2>3. Carries(job[q])'
    BY <1>5 DEF JobInv, Carries, Clean, Carrying, Working, Name, Place
  <2>4. Saves(job[q])'
    BY <1>5 DEF JobInv, Saves, Clean, Working, CardSaved, TargetSaved
  <2> QED
    BY <2>1, <2>2, <2>3, <2>4 DEF JobInv
<1>11. Solitary'
  BY <1>5, <1>6 DEF Solitary, Busy
<1> QED
  BY <1>7, <1>8, <1>9, <1>10, <1>11 DEF ConfigInv

LEMMA StepKeeps ==
    ASSUME ConfigInv, NEW q \in Requests, NEW e \in Env, Step(q, e)
    PROVE  ConfigInv'
<1>1. ASSUME Create(q, e) \/ ReadColumn(q, e) \/ WriteConfig(q, e) \/ WriteOutcome(q, e)
      PROVE  ConfigInv'
  BY <1>1, CreateKeeps, ReadColumnKeeps, WriteConfigKeeps, WriteOutcomeKeeps
<1>2. ASSUME PatchTarget(q, e) \/ FindTarget(q, e) \/ Upsert(q, e) \/ CreateApplication(q, e)
      PROVE  ConfigInv'
  BY <1>2, PatchTargetKeeps, FindTargetKeeps, UpsertKeeps, CreateApplicationKeeps
<1>3. ASSUME CompareBranch(q, e) \/ UpdateBranch(q, e) \/ PushBranch(q, e)
      PROVE  ConfigInv'
  BY <1>3, CompareBranchKeeps, UpdateBranchKeeps, PushBranchKeeps
<1>4. ASSUME StoreText(q, e) \/ PushText(q, e) \/ ReadVault(q, e) \/ StoreMerged(q, e)
      PROVE  ConfigInv'
  BY <1>4, StoreTextKeeps, PushTextKeeps, ReadVaultKeeps, StoreMergedKeeps
<1>5. ASSUME ShowBox(q, e) \/ TypeBox(q, e) \/ StoreBox(q, e)
      PROVE  ConfigInv'
  BY <1>5, ShowBoxKeeps, TypeBoxKeeps, StoreBoxKeeps
<1>6. ASSUME ReadProduction(q, e) \/ StoreCopied(q, e) \/ OnlySecret(q, e)
      PROVE  ConfigInv'
  BY <1>6, ReadProductionKeeps, StoreCopiedKeeps, OnlySecretKeeps
<1>7. ASSUME Locate(q, e) \/ LoadVault(q, e) \/ PushKeys(q, e) \/ ResolveApp(q, e) \/ Build(q, e)
      PROVE  ConfigInv'
  BY <1>7, LocateKeeps, LoadVaultKeeps, PushKeysKeeps, ResolveAppKeeps, BuildKeeps
<1> QED
  BY <1>1, <1>2, <1>3, <1>4, <1>5, <1>6, <1>7 DEF Step

-----------------------------------------------------------------------------
(***************************************************************************)
(* The invariant, and what follows.                                        *)
(***************************************************************************)

LEMMA FirstTypes ==
    ASSUME NEW e \in Env
    PROVE  FirstVars(e) \in Vars
<1>1. <<e, First, "typed">> \in Value
  BY DEF Value, AppIds
<1> QED
  BY <1>1 DEF FirstVars, ParseEnvText, Vars

LEMMA ConfigStarts == ConfigInit => ConfigInv
<1> SUFFICES ASSUME ConfigInit PROVE ConfigInv
  OBVIOUS
<1>1. PICK provisioned \in SUBSET Env :
         /\ provisioned \in {{}, Env}
         /\ column = [EmptyColumn EXCEPT !.exists = provisioned # {}]
         /\ target = [e \in Env |->
                        IF e \in provisioned
                        THEN [status |-> "ready", branch |-> DefaultBranch(e), app |-> First]
                        ELSE NoTarget]
         /\ app = [e \in Env |-> [a \in AppIds |->
                        IF e \in provisioned /\ a = First
                        THEN [branch |-> DefaultBranch(e), vars |-> FirstVars(e)]
                        ELSE NoApplication]]
         /\ vault = [e \in Env |-> IF e \in provisioned THEN FirstVars(e) ELSE NoVars]
         /\ stored = UNION {Entries(e, vault[e]) : e \in Env}
  BY DEF ConfigInit
<1>2. deployed = [e \in Env |-> NoDeploy] /\ job = [q \in Requests |-> Idle]
  BY DEF ConfigInit
<1>3. /\ NoVars \in Vars /\ NoTarget \in Target /\ NoApplication \in Application
      /\ EmptyColumn \in Column /\ Idle \in Job
  BY StartTypes
<1>4. \A e \in Env : DefaultBranch(e) \in Branches
  BY ConfigAssumption DEF DefaultBranch
<1>5. First \in AppIds
  BY DEF AppIds
<1>6. ConfigTypeOK
  <2>1. column \in Column
    <3>1. (provisioned # {}) \in BOOLEAN
      OBVIOUS
    <3> QED
      BY <1>1, <1>3, <3>1 DEF Column
  <2>2. /\ target \in [Env -> Target]
        /\ \A e \in Env : target[e].status # "absent" => target[e].branch \in Branches
    <3>1. \A e \in Env : [status |-> "ready", branch |-> DefaultBranch(e), app |-> First] \in Target
      BY <1>4, <1>5 DEF Target
    <3>2. NoTarget.status = "absent"
      BY DEF NoTarget
    <3> QED
      BY <1>1, <1>3, <1>4, <3>1, <3>2
  <2>3. app \in [Env -> [AppIds -> Application]]
    <3>1. \A e \in Env : [branch |-> DefaultBranch(e), vars |-> FirstVars(e)] \in Application
      BY <1>4, FirstTypes DEF Application
    <3> QED
      BY <1>1, <1>3, <3>1
  <2>4. vault \in [Env -> Vars]
    BY <1>1, <1>3, FirstTypes
  <2>5. stored \subseteq Env \X Keys \X Value
    <3>1. ASSUME NEW e \in Env PROVE Entries(e, vault[e]) \subseteq Env \X Keys \X Value
      BY <2>4 DEF Entries, Vars
    <3> QED
      BY <1>1, <3>1
  <2>6. deployed \in [Env -> [clean : BOOLEAN, vars : Vars, vault : Vars]]
    BY <1>2, <1>3 DEF NoDeploy
  <2>7. job \in [Requests -> Job]
    BY <1>2, <1>3
  <2> QED
    BY <2>1, <2>2, <2>3, <2>4, <2>5, <2>6, <2>7 DEF ConfigTypeOK
<1>7. VaultKnown
  <2> SUFFICES ASSUME NEW e \in Env, NEW k \in Keys, vault[e][k] # NoValue
               PROVE  <<e, k, vault[e][k]>> \in stored
    BY DEF VaultKnown
  <2>1. <<e, k, vault[e][k]>> \in Entries(e, vault[e])
    BY DEF Entries
  <2> QED
    BY <1>1, <2>1
<1>8. \A k \in Keys : NoVars[k] = NoValue
  BY DEF NoVars
<1>9. PushedWasStored
  <2> SUFFICES ASSUME NEW e \in Env, NEW a \in AppIds, NEW k \in Keys, app[e][a].vars[k] # NoValue
               PROVE  <<e, k, app[e][a].vars[k]>> \in stored
    BY DEF PushedWasStored
  <2>1. app[e][a].vars[k] = vault[e][k]
    BY <1>1, <1>8 DEF NoApplication
  <2> QED
    BY <1>7, <2>1 DEF VaultKnown
<1>10. DeployCarriesVault
  BY <1>2 DEF DeployCarriesVault, NoDeploy
<1>11. \A q \in Requests : job[q].todo = <<>> /\ ~job[q].started /\ job[q].kind = "patch"
  BY <1>2 DEF Idle
<1>12. Solitary
  BY <1>11 DEF Solitary
<1>13. ASSUME NEW q \in Requests PROVE JobInv(q, job[q])
  <2>1. Planned(q, job[q])
    BY <1>11, PlanEnd DEF Planned
  <2>2. Prepared(job[q]) /\ Carries(job[q]) /\ Saves(job[q])
    BY <1>11 DEF Prepared, Working, Carries, Saves, Clean
  <2> QED
    BY <2>1, <2>2 DEF JobInv
<1> QED
  BY <1>6, <1>7, <1>9, <1>10, <1>12, <1>13 DEF ConfigInv

LEMMA ConfigStays == ConfigInv /\ [ConfigNext]_configVars => ConfigInv'
<1> SUFFICES ASSUME ConfigInv, [ConfigNext]_configVars PROVE ConfigInv'
  OBVIOUS
<1>1. CASE ConfigNext
  BY <1>1, BeginKeeps, StepKeeps, ThrowsKeeps DEF ConfigNext
<1>2. CASE UNCHANGED configVars
  <2>1. /\ column' = column /\ target' = target /\ app' = app /\ vault' = vault
        /\ stored' = stored /\ deployed' = deployed /\ job' = job
    BY <1>2 DEF configVars
  <2>2. ConfigTypeOK' /\ PushedWasStored' /\ DeployCarriesVault' /\ VaultKnown' /\ Solitary'
    BY <2>1 DEF ConfigInv, ConfigTypeOK, PushedWasStored, DeployCarriesVault, VaultKnown, Solitary, Busy
  <2>3. ASSUME NEW q \in Requests PROVE JobInv(q, job[q])'
    <3>1. JobInv(q, job[q])
      BY DEF ConfigInv
    <3>2. Planned(q, job[q])' /\ Prepared(job[q])'
      BY <2>1, <3>1 DEF JobInv, Planned, KnownVars, KnownTexts, Prepared, Working, Name, Place
    <3>3. Carries(job[q])' /\ Saves(job[q])'
      BY <2>1, <3>1 DEF JobInv, Carries, Carrying, Saves, CardSaved, TargetSaved, Working, Name, Place, Clean
    <3> QED
      BY <3>2, <3>3 DEF JobInv
  <2> QED
    BY <2>2, <2>3 DEF ConfigInv
<1> QED
  BY <1>1, <1>2

LEMMA ConfigAlways == ConfigSpec => []ConfigInv
  BY ConfigStarts, ConfigStays, PTL DEF ConfigSpec

\* Every card, target, application, vault entry and request of every reachable state has
\* its type; a target that exists has a branch.
THEOREM ConfigTypes == ConfigSpec => []ConfigTypeOK
<1>1. ConfigInv => ConfigTypeOK
  BY DEF ConfigInv
<1> QED
  BY <1>1, ConfigAlways, PTL

\* Whatever requests run side by side, and whichever calls fail, an application runs with
\* no value that the vault of its environment has not held under that name
\* (storeVault comes before syncToApplication on every path).
THEOREM PushedAreStored == ConfigSpec => []PushedWasStored
<1>1. ConfigInv => PushedWasStored
  BY DEF ConfigInv
<1> QED
  BY <1>1, ConfigAlways, PTL

\* A deploy that nothing disturbs builds with all that the vault holds
\* (triggerDeploy synchronises before it asks Coolify to build).
THEOREM DeploysCarryVault == ConfigSpec => []DeployCarriesVault
<1>1. ConfigInv => DeployCarriesVault
  BY DEF ConfigInv
<1> QED
  BY <1>1, ConfigAlways, PTL

\* A save that nothing disturbs leaves the card and the target it names on one branch
\* (updateConfig, then patchWizardFields or syncBranches).
THEOREM SavedAgree == ConfigSpec => []SavedBranchesAgree
<1>1. ASSUME ConfigInv PROVE SavedBranchesAgree
  <2> SUFFICES ASSUME NEW q \in Requests, NEW e \in Env,
                      job[q].started, ~Busy(q), job[q].alone, ~job[q].failed,
                      \/ job[q].kind = "patch"
                      \/ job[q].kind = "save" /\ job[q].apps[e] # NoApp,
                      job[q].branches[e] # NoBranch, target[e].status # "absent"
               PROVE  column.envs[e].branch = target[e].branch
    BY DEF SavedBranchesAgree
  <2>1. CardSaved(job[q]) /\ TargetSaved(job[q], e)
    BY <1>1 DEF ConfigInv, JobInv, Saves, Clean
  <2>2. job[q].todo = <<>>
    BY DEF Busy
  <2>3. \A step : ~Remains(job[q].todo, step)
    BY <2>2 DEF Remains
  <2> QED
    BY <2>1, <2>2, <2>3 DEF CardSaved, TargetSaved, Working
<1> QED
  BY <1>1, ConfigAlways, PTL

=============================================================================
