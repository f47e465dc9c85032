--------------------------- MODULE DeployRunProofs ---------------------------
(***************************************************************************)
(* Theorems about DeployRun, for any number of runs, webhook handlers,      *)
(* commits, misses and restarts: its types; that a success, and an active   *)
(* environment, were earned; that an open run is looked after until it      *)
(* closes; and that it implements DeployLifecycle.                         *)
(***************************************************************************)
EXTENDS DeployRunRefines, TLAPS

\* The pipelines that end in a row still open.
Working == {"queued", "releasing", "request", "starting", "started", "refused"}

Ended == {"finished", "failed"}

(***************************************************************************)
(* Why a success is earned.  Each reading that says "success" was taken     *)
(* from a deployment that had finished, and a deployment that has finished  *)
(* stays so; each pending write that says "success" came out of the gate.   *)
(***************************************************************************)

ExtUntouched == \A r \in Runs : pc[r] \in {"idle", "starting"} => ext[r].phase = "none"

SimulateOnly == \A r \in Runs : sim[r] # {} => req[r].driver = "simulate"

PollSound(r, p) ==
    /\ p.pc \in {"read", "gate"} /\ p.mapped = "success" => ext[r].phase = "finished"
    /\ p.pc \in {"write", "finalize"} /\ p.mapped = "success" => Earned(r)

PollReadings == \A r \in Runs : PollSound(r, poll[r])

NoteReadings == \A n \in notes : n.event = "success" => ext[n.run].phase = "finished"

HookSound(k) ==
    k.pc # "idle" =>
        /\ req[k.run].driver = "coolify"
        /\ k.pc = "gate" /\ k.status = "success" => ext[k.run].phase = "finished"
        /\ k.pc \in {"write", "finalize"} /\ k.status = "success" => Earned(k.run)

HookReadings == \A h \in Handlers : HookSound(hook[h])

EarnedInv ==
    /\ ExtUntouched /\ SimulateOnly
    /\ PollReadings /\ NoteReadings /\ HookReadings
    /\ SuccessIsEarned /\ ActiveIsEarned

(***************************************************************************)
(* Why a closed run stays closed.  Its pipeline is over, and if its poller  *)
(* is still on (a throw sent it round again), what it reads has ended.      *)
(***************************************************************************)

PipelineThenPoller(r) ==
    /\ pc[r] = "idle" => run[r].status = "absent"
    /\ pc[r] \in Working => run[r].status \in Open
    /\ pc[r] = "closing" => run[r].status \in Terminal
    /\ pc[r] # "done" => poll[r].pc = "off"

PollerClosing(r) ==
    /\ poll[r].pc \in {"finalize", "timeout"} => run[r].status \in Terminal
    /\ poll[r].pc \in {"gate", "finalize"} => poll[r].mapped \in Terminal
    /\ poll[r].pc = "gate" /\ poll[r].seen.status \in Terminal => run[r].status \in Terminal
    /\ poll[r].pc \in {"read", "write"} /\ run[r].status \in Terminal => poll[r].mapped \in Terminal

PollerOfEcr(r) ==
    /\ poll[r].pc \in {"wait", "read", "gate", "write"} /\ run[r].status \in Terminal
          => ext[r].phase \in Ended
    /\ poll[r].pc \in {"read", "gate", "write", "finalize"} /\ poll[r].mapped \in Terminal
          => ext[r].phase \in Ended

PollerOfSsh(r) ==
    /\ poll[r].pc # "read" /\ poll[r].seen = Absent
    /\ poll[r].pc = "write" => poll[r].mapped \in Terminal

Closing(r) ==
    /\ Solo(r) => PipelineThenPoller(r) /\ PollerClosing(r)
    /\ req[r].driver = "ecr-release" => PollerOfEcr(r)
    /\ req[r].driver = "ssh-build" => PollerOfSsh(r)

ClosedInv == (\A r \in Runs : Closing(r)) /\ EnvironmentShowsClosedRuns

\* A restart is the only way a pipeline dies.
Kept(r) ==
    restarts = 0 =>
        /\ pc[r] # "dead"
        /\ Solo(r) /\ run[r].status \in Open => Tended(r) \/ pc[r] = "abandoned"

TendedInv == \A r \in Runs : Kept(r)

IInv == TypeOK /\ EarnedInv /\ ClosedInv /\ TendedInv

-----------------------------------------------------------------------------

\* The default poller and what the handlers make of the row have their types.
LEMMA Shapes ==
    /\ PollOff \in PollState /\ PollStarted \in PollState
    /\ HookIdle \in HookState
    /\ Absent \in Row
    /\ \A c \in Commit : Queued(c) \in Row
    /\ \A row \in Row, status \in Status, c \in Commit, e \in Error :
          Updated(row, status, c, e) \in Row
    /\ \A p \in PollState : Rearmed(p) \in PollState
<1> USE DEF Status, Open, Terminal, Commit, Error
<1>1. Absent \in Row /\ \A c \in Commit : Queued(c) \in Row
  BY DEF Absent, Queued, Row
<1>2. ASSUME NEW row \in Row, NEW status \in Status, NEW c \in Commit, NEW e \in Error
      PROVE  Updated(row, status, c, e) \in Row
  BY DEF Updated, Coalesce, Row
<1>3. PollOff \in PollState
  BY <1>1, BoundsAssumption DEF PollOff, PollState
<1>4. PollStarted \in PollState
  BY <1>3 DEF PollStarted, PollState
<1>5. ASSUME NEW p \in PollState PROVE Rearmed(p) \in PollState
  BY <1>4, <1>5 DEF Rearmed, PollState
<1>6. HookIdle \in HookState
  BY DEF HookIdle, HookState
<1> QED
  BY <1>1, <1>2, <1>3, <1>4, <1>5, <1>6

\* What a tick makes of its poller is a poller.
LEMMA PollerShapes ==
    ASSUME NEW p \in PollState
    PROVE  /\ p.misses + 1 < MaxMisses => [p EXCEPT !.misses = @ + 1] \in PollState
           /\ [p EXCEPT !.pc = "write"] \in PollState
           /\ \A row \in Row : [p EXCEPT !.pc = "gate", !.seen = row] \in PollState
           /\ \A mapped \in Status, c \in Commit, e \in Error :
                 /\ [p EXCEPT !.pc = "read", !.misses = 0, !.mapped = mapped,
                              !.commit = c, !.error = e] \in PollState
                 /\ [p EXCEPT !.pc = "gate", !.mapped = mapped,
                              !.commit = c, !.error = e] \in PollState
                 /\ [p EXCEPT !.pc = "write", !.mapped = mapped, !.error = e,
                              !.seen = Absent] \in PollState
                 /\ [p EXCEPT !.pc = "finalize", !.error = e] \in PollState
<1>1. ASSUME p.misses + 1 < MaxMisses PROVE [p EXCEPT !.misses = @ + 1] \in PollState
  <2>1. p.misses \in Nat /\ p.misses + 1 <= MaxMisses - 1
    BY <1>1, BoundsAssumption DEF PollState
  <2>2. p.misses + 1 \in 0..(MaxMisses - 1)
    BY <2>1, BoundsAssumption
  <2> QED
    BY <2>2 DEF PollState
<1>2. 0 \in 0..(MaxMisses - 1)
  BY BoundsAssumption
<1>3. ASSUME NEW mapped \in Status, NEW c \in Commit, NEW e \in Error
      PROVE  [p EXCEPT !.pc = "read", !.misses = 0, !.mapped = mapped,
                       !.commit = c, !.error = e] \in PollState
  BY <1>2 DEF PollState
<1>4. Absent \in Row
  BY Shapes
<1>5. [p EXCEPT !.pc = "write"] \in PollState
  BY DEF PollState
<1>6. ASSUME NEW row \in Row PROVE [p EXCEPT !.pc = "gate", !.seen = row] \in PollState
  BY DEF PollState
<1>7. ASSUME NEW mapped \in Status, NEW c \in Commit, NEW e \in Error
      PROVE  /\ [p EXCEPT !.pc = "gate", !.mapped = mapped, !.commit = c, !.error = e] \in PollState
             /\ [p EXCEPT !.pc = "write", !.mapped = mapped, !.error = e,
                          !.seen = Absent] \in PollState
             /\ [p EXCEPT !.pc = "finalize", !.error = e] \in PollState
  BY <1>4 DEF PollState
<1> QED
  BY <1>1, <1>3, <1>5, <1>6, <1>7

\* Type correctness.
THEOREM TypeCorrect == Spec => []TypeOK
<1>1. Init => TypeOK
  BY Shapes, BoundsAssumption, DriversAssumption DEF Init, TypeOK, Requests, Deployment, Phase, Commit,
      HookIdle
<1>2. TypeOK /\ [Next]_vars => TypeOK'
  <2> SUFFICES ASSUME TypeOK, [Next]_vars PROVE TypeOK'
    OBVIOUS
  <2> USE BoundsAssumption, Shapes DEF TypeOK
  <2>1. ASSUME NEW r \in Runs, Trigger(r) PROVE TypeOK'
    <3>1. Queued(req[r].expected) \in Row /\ Queued(NoCommit) \in Row
      BY DEF Commit
    <3>2. run' \in [Runs -> Row]
      BY <2>1, <3>1 DEF Trigger, CreateRun
    <3>3. sim' \in [Runs -> SUBSET {"building", "success", "finalize"}]
      BY <2>1 DEF Trigger
    <3>4. pc' \in [Runs -> {"idle", "queued", "releasing", "request", "starting", "started",
                           "refused", "closing", "done", "abandoned", "dead"}]
      BY <2>1 DEF Trigger, Goto
    <3> QED
      BY <2>1, <3>2, <3>3, <3>4 DEF Trigger
  <2>2. ASSUME NEW r \in Runs, SimBuilding(r) PROVE TypeOK'
    BY <2>2 DEF SimBuilding, UpdateStatus, Status, Open, Terminal, Commit, Error
  <2>3. ASSUME NEW r \in Runs, SimSuccess(r) PROVE TypeOK'
    BY <2>3 DEF SimSuccess, UpdateStatus, Status, Open, Terminal, Commit, Error
  <2>4. ASSUME NEW r \in Runs, SimFinalize(r) PROVE TypeOK'
    BY <2>4 DEF SimFinalize, FinalizeServiceEnv, Row
  <2>5. ASSUME NEW r \in Runs, EcrBegin(r) PROVE TypeOK'
    BY <2>5 DEF EcrBegin, UpdateStatus, Goto, Status, Open, Terminal, Commit, Error
  <2>6. ASSUME NEW r \in Runs, EcrReleased(r) PROVE TypeOK'
    BY <2>6 DEF EcrReleased, UpdateStatus, Goto, Status, Open, Terminal, Commit, Error
  <2>7. ASSUME NEW r \in Runs, CoolifyAnswered(r) PROVE TypeOK'
    BY <2>7 DEF CoolifyAnswered, CreateRun, StartPolling, Goto
  <2>8. ASSUME NEW r \in Runs, SshLaunched(r) PROVE TypeOK'
    BY <2>8 DEF SshLaunched, Goto, Deployment, Phase, Commit
  <2>9. ASSUME NEW r \in Runs, SshBuilding(r) PROVE TypeOK'
    BY <2>9 DEF SshBuilding, UpdateStatus, StartPolling, Goto, Status, Open, Terminal, Commit, Error
  <2>10. ASSUME NEW r \in Runs, PipelineThrows(r) PROVE TypeOK'
    BY <2>10 DEF PipelineThrows, Goto
  <2>11. ASSUME NEW r \in Runs, MarkRefused(r) PROVE TypeOK'
    BY <2>11 DEF MarkRefused, UpdateStatus, Goto, Status, Open, Terminal, Commit, Error, StartError
  <2>12. ASSUME NEW r \in Runs, FinalizeRefused(r) PROVE TypeOK'
    BY <2>12 DEF FinalizeRefused, FinalizeServiceEnv, Goto, Commit
  <2>13. ASSUME NEW r \in Runs, RefusedThrows(r) PROVE TypeOK'
    BY <2>13 DEF RefusedThrows, Goto
  <2>14. ASSUME NEW r \in Runs, PollTimeout(r) PROVE TypeOK'
    <3>1. [PollOff EXCEPT !.pc = "timeout", !.late = TRUE] \in PollState
      BY DEF PollState, PollOff
    <3> QED
      BY <2>14, <3>1 DEF PollTimeout, UpdateStatus, SetPoll, Status, Open, Terminal, Commit, Error, TimeoutError
  <2>15. ASSUME NEW r \in Runs, PollTimeoutFinalize(r) PROVE TypeOK'
    BY <2>15 DEF PollTimeoutFinalize, FinalizeServiceEnv, SetPoll, Commit
  <2>16. ASSUME NEW r \in Runs, PollMiss(r) PROVE TypeOK'
    <3>1. poll[r] \in PollState
      OBVIOUS
    <3>2. poll[r].misses + 1 < MaxMisses => [poll[r] EXCEPT !.misses = @ + 1] \in PollState
      BY <3>1, PollerShapes
    <3>3. Updated(run[r], "failed", NoCommit, NotFoundError) \in Row
      BY DEF Status, Open, Terminal, Commit, Error, NotFoundError
    <3>4. poll' \in [Runs -> PollState]
      BY <2>16, <3>2 DEF PollMiss, SetPoll
    <3>5. run' \in [Runs -> Row]
      BY <2>16, <3>3 DEF PollMiss, UpdateStatus
    <3> QED
      BY <2>16, <3>4, <3>5 DEF PollMiss
  <2>17. ASSUME NEW r \in Runs, PollFetch(r) PROVE TypeOK'
    <3>1. poll[r] \in PollState /\ ext[r].commit \in Commit
      BY DEF Deployment
    <3>2. MapCoolifyApiStatus(ext[r].phase) \in Status
      BY DEF MapCoolifyApiStatus, Status, Open, Terminal
    <3>3. PICK c \in {NoCommit, ext[r].commit}, e \in ErrorsOf(MapCoolifyApiStatus(ext[r].phase)) :
             SetPoll(r, [poll[r] EXCEPT !.pc = "read", !.misses = 0,
                                        !.mapped = MapCoolifyApiStatus(ext[r].phase),
                                        !.commit = c, !.error = e])
      BY <2>17 DEF PollFetch
    <3>4. c \in Commit /\ e \in Error
      BY <3>1, <3>3 DEF ErrorsOf, Commit, Error
    <3>5. [poll[r] EXCEPT !.pc = "read", !.misses = 0,
                          !.mapped = MapCoolifyApiStatus(ext[r].phase),
                          !.commit = c, !.error = e] \in PollState
      BY <3>1, <3>2, <3>4, PollerShapes
    <3> QED
      BY <2>17, <3>3, <3>5 DEF PollFetch, SetPoll
  <2>18. ASSUME NEW r \in Runs, PollRead(r) PROVE TypeOK'
    <3>1. poll[r] \in PollState /\ run[r] \in Row
      OBVIOUS
    <3>2. /\ [poll[r] EXCEPT !.pc = "gate", !.seen = run[r]] \in PollState
          /\ [poll[r] EXCEPT !.pc = "write"] \in PollState
      BY <3>1, PollerShapes
    <3>3. \E p \in PollState : SetPoll(r, p)
      BY <3>1, <3>2, Shapes, <2>18 DEF PollRead
    <3>4. poll' \in [Runs -> PollState]
      BY <3>3 DEF SetPoll
    <3> QED
      BY <2>18, <3>4 DEF PollRead
  <2>19. ASSUME NEW r \in Runs, PollSource(r) PROVE TypeOK'
    <3>1. poll[r] \in PollState /\ ext[r].commit \in Commit
      BY DEF Deployment
    <3>2. PICK mapped \in Terminal :
             \E c \in Commit, e \in Error :
                SetPoll(r, [poll[r] EXCEPT !.pc = "gate", !.mapped = mapped,
                                           !.commit = c, !.error = e])
      BY <2>19, <3>1 DEF PollSource, ErrorsOf, Commit, Error
    <3>3. PICK c \in Commit, e \in Error :
             SetPoll(r, [poll[r] EXCEPT !.pc = "gate", !.mapped = mapped,
                                        !.commit = c, !.error = e])
      BY <3>2
    <3>4. [poll[r] EXCEPT !.pc = "gate", !.mapped = mapped,
                          !.commit = c, !.error = e] \in PollState
      BY <3>1, <3>2, <3>3 DEF PollState, Status
    <3> QED
      BY <2>19, <3>3, <3>4 DEF PollSource, SetPoll
  <2>20. ASSUME NEW r \in Runs, PollGate(r) PROVE TypeOK'
    <3>1. poll[r] \in PollState /\ PollExpected(r) \in Commit
      BY DEF PollState, PollExpected, Coalesce, Row
    <3>2. ASSUME NEW outcome \in GateAnswers(r, poll[r].mapped), NEW e \in {poll[r].error, GateError}
          PROVE  [poll[r] EXCEPT !.pc = "write", !.mapped = outcome, !.error = e,
                                 !.seen = Absent] \in PollState
      <4>1. outcome \in Status /\ e \in Error
        BY <3>1 DEF GateAnswers, PollState, Status, Open, Terminal, Error
      <4> QED
        BY <3>1, <4>1, PollerShapes
    <3>3. \E outcome \in GateAnswers(r, poll[r].mapped) : Vouch(r, outcome, PollExpected(r))
      BY <2>20 DEF PollGate
    <3>4. vouched' \subseteq Runs \X Commit
      BY <3>1, <3>3 DEF Vouch
    <3>5. \E p \in PollState : SetPoll(r, p)
      BY <2>20, <3>2 DEF PollGate
    <3>6. poll' \in [Runs -> PollState]
      BY <3>5 DEF SetPoll
    <3> QED
      BY <2>20, <3>4, <3>6 DEF PollGate
  <2>21. ASSUME NEW r \in Runs, PollWrite(r) PROVE TypeOK'
    <3>1. poll[r] \in PollState
      OBVIOUS
    <3>2. [poll[r] EXCEPT !.pc = "finalize", !.error = NoError] \in PollState
      BY <3>1 DEF PollState, Error
    <3>3. Updated(run[r], poll[r].mapped, poll[r].commit, poll[r].error) \in Row
      BY <3>1 DEF PollState
    <3> QED
      BY <2>21, <3>2, <3>3 DEF PollWrite, UpdateStatus, SetPoll
  <2>22. ASSUME NEW r \in Runs, PollFinalize(r) PROVE TypeOK'
    BY <2>22 DEF PollFinalize, FinalizeServiceEnv, SetPoll, PollState
  <2>23. ASSUME NEW r \in Runs, PollThrows(r) PROVE TypeOK'
    BY <2>23 DEF PollThrows, SetPoll
  <2>24. ASSUME NEW r \in Runs, PollDeadline(r) PROVE TypeOK'
    <3>1. [poll[r] EXCEPT !.late = TRUE] \in PollState
      BY DEF PollState
    <3> QED
      BY <2>24, <3>1 DEF PollDeadline, SetPoll
  <2>25. ASSUME NEW r \in Runs, CoolifyAccepts(r) PROVE TypeOK'
    <3>1. ext' \in [Runs -> Deployment]
      BY <2>25 DEF CoolifyAccepts, Deployment, Phase, Commit
    <3> QED
      BY <2>25, <3>1 DEF CoolifyAccepts
  <2>26. ASSUME NEW r \in Runs, ExtStarts(r) PROVE TypeOK'
    <3>1. ext' \in [Runs -> Deployment]
      <4>1. [ext[r] EXCEPT !.phase = "in_progress"] \in Deployment
        BY DEF Deployment, Phase
      <4> QED
        BY <2>26, <4>1 DEF ExtStarts
    <3>2. notes' \subseteq [run : Runs, event : {"started", "success", "failed"}]
      BY <2>26 DEF ExtStarts, Notify
    <3> QED
      BY <2>26, <3>1, <3>2 DEF ExtStarts
  <2>27. ASSUME NEW r \in Runs, ExtEnds(r) PROVE TypeOK'
    <3>1. ext' \in [Runs -> Deployment]
      <4>1. ext[r] \in Deployment
        OBVIOUS
      <4>2. ASSUME NEW p \in Phase PROVE [ext[r] EXCEPT !.phase = p] \in Deployment
        BY <4>1 DEF Deployment
      <4> QED
        BY <2>27, <4>2 DEF ExtEnds, Phase
    <3>2. notes' \subseteq [run : Runs, event : {"started", "success", "failed"}]
      BY <2>27 DEF ExtEnds, Notify
    <3> QED
      BY <2>27, <3>1, <3>2 DEF ExtEnds
  <2>28. ASSUME NEW h \in Handlers, NEW note \in notes, HookReceive(h, note) PROVE TypeOK'
    <3> DEFINE status == MapCoolifyEvent(note.event)
    <3>1. note.run \in Runs /\ status \in Status
      BY DEF MapCoolifyEvent, Status, Open, Terminal
    <3>2. PICK c \in {NoCommit, ext[note.run].commit}, e \in ErrorsOf(status) :
             SetHook(h, IF status \in Terminal
                        THEN [pc |-> "gate", run |-> note.run, status |-> status, commit |-> c,
                              error |-> e, expected |-> Coalesce(run[note.run].commit, c, NoCommit)]
                        ELSE [HookIdle EXCEPT !.pc = "write", !.run = note.run, !.commit = c])
      BY <2>28 DEF HookReceive
    <3>3. c \in Commit /\ e \in Error /\ Coalesce(run[note.run].commit, c, NoCommit) \in Commit
      BY <3>1, <3>2 DEF ErrorsOf, Commit, Error, Deployment, Coalesce, Row
    <3>4. [pc |-> "gate", run |-> note.run, status |-> status, commit |-> c,
           error |-> e, expected |-> Coalesce(run[note.run].commit, c, NoCommit)] \in HookState
      BY <3>1, <3>3 DEF HookState
    <3>5. [HookIdle EXCEPT !.pc = "write", !.run = note.run, !.commit = c] \in HookState
      BY <3>1, <3>3 DEF HookState
    <3>6. /\ hook' \in [Handlers -> HookState]
          /\ \A k \in Handlers : hook'[k].pc # "idle" => hook'[k].run \in Runs
      BY <3>1, <3>2, <3>4, <3>5 DEF SetHook, HookIdle
    <3> QED
      BY <2>28, <3>6 DEF HookReceive
  <2>29. ASSUME NEW h \in Handlers, HookGate(h) PROVE TypeOK'
    <3>1. hook[h] \in HookState
      OBVIOUS
    <3>2. PICK outcome \in GateAnswers(hook[h].run, hook[h].status) :
             /\ Vouch(hook[h].run, outcome, hook[h].expected)
             /\ SetHook(h, [hook[h] EXCEPT !.pc = "write", !.status = outcome,
                               !.error = IF outcome = hook[h].status THEN @ ELSE GateError,
                               !.expected = NoCommit])
      BY <2>29 DEF HookGate
    <3>3. outcome \in Status
      BY <3>1, <3>2 DEF GateAnswers, HookState, Status, Open, Terminal
    <3>4. [hook[h] EXCEPT !.pc = "write", !.status = outcome,
                          !.error = IF outcome = hook[h].status THEN @ ELSE GateError,
                          !.expected = NoCommit] \in HookState
      BY <3>1, <3>3 DEF HookState, Error, Commit
    <3>5. hook[h].run \in Runs
      BY <2>29 DEF HookGate
    <3>6. vouched' \subseteq Runs \X Commit
      BY <3>1, <3>2, <3>5 DEF Vouch, HookState
    <3> QED
      BY <2>29, <3>2, <3>4, <3>6 DEF HookGate, SetHook
  <2>30. ASSUME NEW h \in Handlers, HookWrite(h) PROVE TypeOK'
    <3>1. hook[h] \in HookState
      OBVIOUS
    <3>2. [hook[h] EXCEPT !.pc = "finalize", !.error = NoError] \in HookState
      BY <3>1 DEF HookState, Error
    <3>3. Updated(run[hook[h].run], hook[h].status, hook[h].commit, hook[h].error) \in Row
      BY <2>30, <3>1 DEF HookWrite, HookState
    <3>4. run' \in [Runs -> Row]
      BY <2>30, <3>3 DEF HookWrite, UpdateStatus
    <3>5. /\ hook' \in [Handlers -> HookState]
          /\ \A k \in Handlers : hook'[k].pc # "idle" => hook'[k].run \in Runs
      BY <2>30, <3>2 DEF HookWrite, SetHook, HookIdle
    <3> QED
      BY <2>30, <3>4, <3>5 DEF HookWrite
  <2>31. ASSUME NEW h \in Handlers, HookFinalize(h) PROVE TypeOK'
    BY <2>31 DEF HookFinalize, FinalizeServiceEnv, SetHook, HookState, HookIdle
  <2>32. ASSUME NEW h \in Handlers, HookThrows(h) PROVE TypeOK'
    BY <2>32 DEF HookThrows, SetHook, HookIdle
  <2>33. ASSUME NEW note \in notes, NoteDropped(note) PROVE TypeOK'
    BY <2>33 DEF NoteDropped
  <2>34. CASE Restart
    BY <2>34 DEF Restart, HookIdle
  <2>35. CASE UNCHANGED vars
    BY <2>35 DEF vars
  <2> QED
    BY <2>1, <2>2, <2>3, <2>4, <2>5, <2>6, <2>7, <2>8, <2>9, <2>10, <2>11, <2>12,
       <2>13, <2>14, <2>15, <2>16, <2>17, <2>18, <2>19, <2>20, <2>21, <2>22, <2>23,
       <2>24, <2>25, <2>26, <2>27, <2>28, <2>29, <2>30, <2>31, <2>32, <2>33, <2>34,
       <2>35
    DEF Next, Pipeline, Poller, External, Webhook
<1> QED
  BY <1>1, <1>2, PTL DEF Spec

-----------------------------------------------------------------------------
(***************************************************************************)
(* What the table of deploy runs, and the environment row, record as a      *)
(* success has been earned.                                                *)
(***************************************************************************)

\* What no step takes back: the driver and the service of a request, the end of a
\* deployment, and the yes of the gate.
Onward ==
    /\ \A r \in Runs : /\ req'[r].driver = req[r].driver
                       /\ req'[r].service = req[r].service
                       /\ ext[r].phase \in Ended => ext'[r].phase = ext[r].phase
    /\ vouched \subseteq vouched'

\* Coolify's or the host's part begins once and ends once.
LEMMA StepsGoOnward == TypeOK /\ ExtUntouched /\ [Next]_vars => Onward
<1> SUFFICES ASSUME TypeOK, ExtUntouched, [Next]_vars PROVE Onward
  OBVIOUS
<1> USE DEF Onward, Ended
<1>1. CASE UNCHANGED <<req, ext, vouched>>
  BY <1>1
<1>2. ASSUME NEW r \in Runs, EcrReleased(r) PROVE Onward
  BY <1>2 DEF EcrReleased, TypeOK
<1>3. ASSUME NEW r \in Runs, SshLaunched(r) PROVE Onward
  BY <1>3 DEF SshLaunched, TypeOK, ExtUntouched
<1>4. ASSUME NEW r \in Runs, CoolifyAccepts(r) PROVE Onward
  BY <1>4 DEF CoolifyAccepts, TypeOK
<1>5. ASSUME NEW r \in Runs, ExtStarts(r) PROVE Onward
  BY <1>5 DEF ExtStarts, TypeOK
<1>6. ASSUME NEW r \in Runs, ExtEnds(r) PROVE Onward
  BY <1>6 DEF ExtEnds, TypeOK
<1>7. ASSUME NEW r \in Runs, PollGate(r) PROVE Onward
  BY <1>7 DEF PollGate, Vouch
<1>8. ASSUME NEW h \in Handlers, HookGate(h) PROVE Onward
  BY <1>8 DEF HookGate, Vouch
<1>9. ASSUME NEW r \in Runs,
             Trigger(r) \/ SimBuilding(r) \/ SimSuccess(r) \/ SimFinalize(r) \/ EcrBegin(r)
                \/ CoolifyAnswered(r) \/ SshBuilding(r) \/ PipelineThrows(r) \/ MarkRefused(r)
                \/ FinalizeRefused(r) \/ RefusedThrows(r)
      PROVE  UNCHANGED <<req, ext, vouched>>
  BY <1>9 DEF Trigger, SimBuilding, SimSuccess, SimFinalize, EcrBegin, CoolifyAnswered,
      SshBuilding, PipelineThrows, MarkRefused, FinalizeRefused, RefusedThrows
<1>10. ASSUME NEW r \in Runs,
              PollTimeout(r) \/ PollTimeoutFinalize(r) \/ PollMiss(r) \/ PollFetch(r) \/ PollRead(r)
                 \/ PollSource(r) \/ PollWrite(r) \/ PollFinalize(r) \/ PollThrows(r) \/ PollDeadline(r)
       PROVE  UNCHANGED <<req, ext, vouched>>
  BY <1>10 DEF PollTimeout, PollTimeoutFinalize, PollMiss, PollFetch, PollRead, PollSource,
      PollWrite, PollFinalize, PollThrows, PollDeadline
<1>11. ASSUME NEW h \in Handlers,
              (\E n \in notes : HookReceive(h, n)) \/ HookWrite(h) \/ HookFinalize(h) \/ HookThrows(h)
       PROVE  UNCHANGED <<req, ext, vouched>>
  BY <1>11 DEF HookReceive, HookWrite, HookFinalize, HookThrows
<1>12. ASSUME NEW n \in notes, NoteDropped(n) PROVE UNCHANGED <<req, ext, vouched>>
  BY <1>12 DEF NoteDropped
<1>13. Restart \/ UNCHANGED vars => UNCHANGED <<req, ext, vouched>>
  BY DEF Restart, vars
<1> QED
  BY <1>1, <1>2, <1>3, <1>4, <1>5, <1>6, <1>7, <1>8, <1>9, <1>10, <1>11, <1>12, <1>13
  DEF Next, Pipeline, Poller, External, Webhook

\* What has been earned stays earned, so a part of the invariant whose own variable
\* a step leaves alone survives that step.
LEMMA Undisturbed ==
    ASSUME TypeOK, EarnedInv, Onward
    PROVE  /\ \A r \in Runs : Earned(r) => Earned(r)'
           /\ UNCHANGED <<pc, ext>> => ExtUntouched'
           /\ UNCHANGED sim => SimulateOnly'
           /\ UNCHANGED poll => PollReadings'
           /\ UNCHANGED notes => NoteReadings'
           /\ UNCHANGED hook => HookReadings'
           /\ UNCHANGED run => SuccessIsEarned'
           /\ UNCHANGED env => ActiveIsEarned'
<1>1. ASSUME NEW r \in Runs, Earned(r) PROVE Earned(r)'
  BY <1>1 DEF Onward, Earned, Ended
<1>2. ASSUME UNCHANGED sim PROVE SimulateOnly'
  BY <1>2 DEF EarnedInv, SimulateOnly, Onward
<1>3. ASSUME UNCHANGED poll PROVE PollReadings'
  <2> SUFFICES ASSUME NEW r \in Runs PROVE PollSound(r, poll[r])'
    BY DEF PollReadings
  <2>1. PollSound(r, poll[r])
    BY DEF EarnedInv, PollReadings
  <2> QED
    BY <1>1, <1>3, <2>1 DEF PollSound, Onward, Ended
<1>4. ASSUME UNCHANGED notes PROVE NoteReadings'
  BY <1>4 DEF EarnedInv, NoteReadings, Onward, Ended, TypeOK
<1>5. ASSUME UNCHANGED hook PROVE HookReadings'
  <2> SUFFICES ASSUME NEW h \in Handlers PROVE HookSound(hook[h])'
    BY DEF HookReadings
  <2>1. HookSound(hook[h]) /\ (hook[h].pc # "idle" => hook[h].run \in Runs)
    BY DEF EarnedInv, HookReadings, TypeOK
  <2> QED
    BY <1>1, <1>5, <2>1 DEF HookSound, Onward, Ended
<1>6. ASSUME UNCHANGED run PROVE SuccessIsEarned'
  BY <1>1, <1>6 DEF EarnedInv, SuccessIsEarned
<1>7. ASSUME UNCHANGED env PROVE ActiveIsEarned'
  BY <1>1, <1>7 DEF EarnedInv, ActiveIsEarned
<1>8. ASSUME UNCHANGED <<pc, ext>> PROVE ExtUntouched'
  BY <1>8 DEF EarnedInv, ExtUntouched
<1> QED
  BY <1>1, <1>2, <1>3, <1>4, <1>5, <1>6, <1>7, <1>8

\* Every step keeps the invariant: each action in turn, and under it the parts whose
\* variables it writes.
LEMMA EarnedInductive == TypeOK /\ EarnedInv /\ [Next]_vars => EarnedInv'
<1> SUFFICES ASSUME TypeOK, EarnedInv, [Next]_vars PROVE EarnedInv'
  OBVIOUS
<1>1. Onward
  BY StepsGoOnward DEF EarnedInv
<1>2. /\ \A r \in Runs : Earned(r) => Earned(r)'
      /\ UNCHANGED <<pc, ext>> => ExtUntouched'
      /\ UNCHANGED sim => SimulateOnly'
      /\ UNCHANGED poll => PollReadings'
      /\ UNCHANGED notes => NoteReadings'
      /\ UNCHANGED hook => HookReadings'
      /\ UNCHANGED run => SuccessIsEarned'
      /\ UNCHANGED env => ActiveIsEarned'
  BY <1>1, Undisturbed
<1>3. \A r \in Runs : poll'[r] = poll[r] => PollSound(r, poll[r])'
  BY <1>1, <1>2 DEF Onward, Ended, EarnedInv, PollReadings, PollSound
<1>4. \A r \in Runs : PollSound(r, poll[r])
  BY DEF EarnedInv, PollReadings
<1>5. \A h \in Handlers : HookSound(hook[h])
  BY DEF EarnedInv, HookReadings
<1>6. \A h \in Handlers : hook'[h] = hook[h] => HookSound(hook[h])'
  BY <1>1, <1>2, <1>5 DEF Onward, Ended, HookSound, TypeOK
<1>7. ASSUME NEW r \in Runs, Trigger(r) PROVE EarnedInv'
  <2>1. ExtUntouched'
    BY <1>7 DEF Trigger, Goto, ExtUntouched, EarnedInv, TypeOK
  <2>2. SimulateOnly'
    BY <1>7, <1>1 DEF Trigger, SimulateOnly, EarnedInv, Onward, TypeOK
  <2>3. SuccessIsEarned'
    BY <1>7, <1>2 DEF Trigger, CreateRun, Queued, SuccessIsEarned, EarnedInv, TypeOK
  <2> QED
    BY <1>7, <2>1, <2>2, <2>3, <1>2 DEF Trigger, EarnedInv
<1>8. ASSUME NEW r \in Runs, SimBuilding(r) PROVE EarnedInv'
  <2>1. SimulateOnly'
    BY <1>8, <1>1 DEF SimBuilding, SimulateOnly, EarnedInv, Onward, TypeOK
  <2>2. SuccessIsEarned'
    BY <1>8, <1>2 DEF SimBuilding, UpdateStatus, Updated, SuccessIsEarned, EarnedInv, TypeOK
  <2> QED
    BY <1>8, <2>1, <2>2, <1>2 DEF SimBuilding, EarnedInv
<1>9. ASSUME NEW r \in Runs, SimSuccess(r) PROVE EarnedInv'
  <2>1. Earned(r)
    BY <1>9 DEF SimSuccess, SimulateOnly, EarnedInv, Earned
  <2>2. SimulateOnly'
    BY <1>9, <1>1 DEF SimSuccess, SimulateOnly, EarnedInv, Onward, TypeOK
  <2>3. SuccessIsEarned'
    BY <1>9, <1>2, <2>1 DEF SimSuccess, UpdateStatus, Updated, SuccessIsEarned, EarnedInv, TypeOK
  <2> QED
    BY <1>9, <2>2, <2>3, <1>2 DEF SimSuccess, EarnedInv
<1>10. ASSUME NEW r \in Runs, SimFinalize(r) PROVE EarnedInv'
  <2>1. Earned(r)
    BY <1>10 DEF SimFinalize, SimulateOnly, EarnedInv, Earned
  <2>2. SimulateOnly'
    BY <1>10, <1>1 DEF SimFinalize, SimulateOnly, EarnedInv, Onward, TypeOK
  <2>3. ActiveIsEarned'
    BY <1>10, <1>2, <2>1 DEF SimFinalize, FinalizeServiceEnv, ActiveIsEarned, EarnedInv, TypeOK
  <2> QED
    BY <1>10, <2>2, <2>3, <1>2 DEF SimFinalize, EarnedInv
<1>11. ASSUME NEW r \in Runs, EcrBegin(r) PROVE EarnedInv'
  <2>1. ExtUntouched'
    BY <1>11 DEF EcrBegin, Goto, ExtUntouched, EarnedInv, TypeOK
  <2>2. SuccessIsEarned'
    BY <1>11, <1>2 DEF EcrBegin, UpdateStatus, Updated, SuccessIsEarned, EarnedInv, TypeOK
  <2> QED
    BY <1>11, <2>1, <2>2, <1>2 DEF EcrBegin, EarnedInv
<1>12. ASSUME NEW r \in Runs, EcrReleased(r) PROVE EarnedInv'
  <2>1. ExtUntouched'
    BY <1>12 DEF EcrReleased, Goto, ExtUntouched, EarnedInv, TypeOK
  <2>2. SuccessIsEarned'
    BY <1>12, <1>2 DEF EcrReleased, UpdateStatus, Updated, SuccessIsEarned, EarnedInv, TypeOK
  <2> QED
    BY <1>12, <2>1, <2>2, <1>2 DEF EcrReleased, EarnedInv
<1>13. ASSUME NEW r \in Runs, CoolifyAccepts(r) PROVE EarnedInv'
  <2>1. ExtUntouched'
    BY <1>13 DEF CoolifyAccepts, ExtUntouched, EarnedInv, TypeOK
  <2> QED
    BY <1>13, <2>1, <1>2 DEF CoolifyAccepts, EarnedInv
<1>14. ASSUME NEW r \in Runs, CoolifyAnswered(r) PROVE EarnedInv'
  <2>1. ExtUntouched'
    BY <1>14 DEF CoolifyAnswered, Goto, ExtUntouched, EarnedInv, TypeOK
  <2>2. SuccessIsEarned'
    BY <1>14, <1>2 DEF CoolifyAnswered, CreateRun, Queued, SuccessIsEarned, EarnedInv, TypeOK
  <2>3. PollReadings'
    BY <1>14, <1>3 DEF CoolifyAnswered, StartPolling, PollStarted, PollOff, PollSound, PollReadings, TypeOK
  <2> QED
    BY <1>14, <2>1, <2>2, <2>3, <1>2 DEF CoolifyAnswered, EarnedInv
<1>15. ASSUME NEW r \in Runs, SshLaunched(r) PROVE EarnedInv'
  <2>1. ExtUntouched'
    BY <1>15 DEF SshLaunched, Goto, ExtUntouched, EarnedInv, TypeOK
  <2> QED
    BY <1>15, <2>1, <1>2 DEF SshLaunched, EarnedInv
<1>16. ASSUME NEW r \in Runs, SshBuilding(r) PROVE EarnedInv'
  <2>1. ExtUntouched'
    BY <1>16 DEF SshBuilding, Goto, ExtUntouched, EarnedInv, TypeOK
  <2>2. SuccessIsEarned'
    BY <1>16, <1>2 DEF SshBuilding, UpdateStatus, Updated, SuccessIsEarned, EarnedInv, TypeOK
  <2>3. PollReadings'
    BY <1>16, <1>3 DEF SshBuilding, StartPolling, PollStarted, PollOff, PollSound, PollReadings, TypeOK
  <2> QED
    BY <1>16, <2>1, <2>2, <2>3, <1>2 DEF SshBuilding, EarnedInv
<1>17. ASSUME NEW r \in Runs, PipelineThrows(r) PROVE EarnedInv'
  <2>1. ExtUntouched'
    BY <1>17 DEF PipelineThrows, Goto, ExtUntouched, EarnedInv, TypeOK
  <2> QED
    BY <1>17, <2>1, <1>2 DEF PipelineThrows, EarnedInv
<1>18. ASSUME NEW r \in Runs, MarkRefused(r) PROVE EarnedInv'
  <2>1. ExtUntouched'
    BY <1>18 DEF MarkRefused, Goto, ExtUntouched, EarnedInv, TypeOK
  <2>2. SuccessIsEarned'
    BY <1>18, <1>2 DEF MarkRefused, UpdateStatus, Updated, SuccessIsEarned, EarnedInv, TypeOK
  <2> QED
    BY <1>18, <2>1, <2>2, <1>2 DEF MarkRefused, EarnedInv
<1>19. ASSUME NEW r \in Runs, FinalizeRefused(r) PROVE EarnedInv'
  <2>1. ExtUntouched'
    BY <1>19 DEF FinalizeRefused, Goto, ExtUntouched, EarnedInv, TypeOK
  <2>2. ActiveIsEarned'
    BY <1>19, <1>2 DEF FinalizeRefused, FinalizeServiceEnv, ActiveIsEarned, EarnedInv, TypeOK
  <2> QED
    BY <1>19, <2>1, <2>2, <1>2 DEF FinalizeRefused, EarnedInv
<1>20. ASSUME NEW r \in Runs, RefusedThrows(r) PROVE EarnedInv'
  <2>1. ExtUntouched'
    BY <1>20 DEF RefusedThrows, Goto, ExtUntouched, EarnedInv, TypeOK
  <2> QED
    BY <1>20, <2>1, <1>2 DEF RefusedThrows, EarnedInv
<1>21. ASSUME NEW r \in Runs, ExtStarts(r) PROVE EarnedInv'
  <2>1. ExtUntouched'
    BY <1>21 DEF ExtStarts, ExtUntouched, EarnedInv, TypeOK
  <2>2. NoteReadings'
    BY <1>21 DEF ExtStarts, Notify, NoteReadings, EarnedInv, TypeOK
  <2> QED
    BY <1>21, <2>1, <2>2, <1>2 DEF ExtStarts, EarnedInv
<1>22. ASSUME NEW r \in Runs, ExtEnds(r) PROVE EarnedInv'
  <2>1. ASSUME NEW n \in notes', n.event = "success" PROVE ext'[n.run].phase = "finished"
    <3>1. CASE n \in notes
      BY <1>22, <2>1, <3>1, <1>1 DEF EarnedInv, NoteReadings, Onward, Ended, TypeOK
    <3>2. CASE n \notin notes
      <4>1. n = [run |-> r, event |-> "success"] /\ ext' = [ext EXCEPT ![r].phase = "finished"]
        BY <1>22, <2>1, <3>2 DEF ExtEnds, Notify
      <4> QED
        BY <4>1 DEF TypeOK
    <3> QED
      BY <3>1, <3>2
  <2>2. ExtUntouched'
    BY <1>22 DEF ExtEnds, ExtUntouched, EarnedInv, TypeOK
  <2>3. NoteReadings'
    BY <2>1 DEF NoteReadings
  <2> QED
    BY <1>22, <2>2, <2>3, <1>2 DEF ExtEnds, EarnedInv
<1>23. ASSUME NEW r \in Runs, PollDeadline(r) PROVE EarnedInv'
  <2>1. PollSound(r, poll[r])'
    BY <1>23, <1>1, <1>2, <1>3, <1>4 DEF PollDeadline, SetPoll, PollSound, TypeOK, Onward, Ended
  <2>2. PollReadings'
    BY <1>23, <2>1, <1>3 DEF PollDeadline, SetPoll, PollReadings, TypeOK
  <2> QED
    BY <1>23, <2>2, <1>2 DEF PollDeadline, EarnedInv
<1>24. ASSUME NEW r \in Runs, PollTimeout(r) PROVE EarnedInv'
  <2>1. PollSound(r, poll[r])'
    BY <1>24 DEF PollTimeout, SetPoll, PollOff, PollSound, TypeOK
  <2>2. PollReadings'
    BY <1>24, <2>1, <1>3 DEF PollTimeout, SetPoll, PollReadings, TypeOK
  <2>3. SuccessIsEarned'
    BY <1>24, <1>2 DEF PollTimeout, UpdateStatus, Updated, SuccessIsEarned, EarnedInv, TypeOK
  <2> QED
    BY <1>24, <2>2, <2>3, <1>2 DEF PollTimeout, EarnedInv
<1>25. ASSUME NEW r \in Runs, PollTimeoutFinalize(r) PROVE EarnedInv'
  <2>1. PollSound(r, poll[r])'
    BY <1>25 DEF PollTimeoutFinalize, SetPoll, PollOff, PollSound, TypeOK
  <2>2. PollReadings'
    BY <1>25, <2>1, <1>3 DEF PollTimeoutFinalize, SetPoll, PollReadings, TypeOK
  <2>3. ActiveIsEarned'
    BY <1>25, <1>2 DEF PollTimeoutFinalize, FinalizeServiceEnv, ActiveIsEarned, EarnedInv, TypeOK
  <2> QED
    BY <1>25, <2>2, <2>3, <1>2 DEF PollTimeoutFinalize, EarnedInv
<1>26. ASSUME NEW r \in Runs, PollMiss(r) PROVE EarnedInv'
  <2>1. UNCHANGED run \/ UpdateStatus(r, "failed", NoCommit, NotFoundError)
    BY <1>26 DEF PollMiss
  <2>2. PollSound(r, poll[r])'
    BY <1>26, <1>2, <1>4 DEF PollMiss, SetPoll, PollOff, PollSound, TypeOK, PollState
  <2>3. PollReadings'
    BY <1>26, <2>2, <1>3 DEF PollMiss, SetPoll, PollReadings, TypeOK
  <2>4. SuccessIsEarned'
    BY <2>1, <1>2 DEF UpdateStatus, Updated, SuccessIsEarned, EarnedInv, TypeOK
  <2> QED
    BY <1>26, <2>3, <2>4, <1>2 DEF PollMiss, EarnedInv
<1>27. ASSUME NEW r \in Runs, PollFetch(r) PROVE EarnedInv'
  <2>1. PollSound(r, poll[r])'
    BY <1>27 DEF PollFetch, SetPoll, MapCoolifyApiStatus, PollSound, TypeOK
  <2>2. PollReadings'
    BY <1>27, <2>1, <1>3 DEF PollFetch, SetPoll, PollReadings, TypeOK
  <2> QED
    BY <1>27, <2>2, <1>2 DEF PollFetch, EarnedInv
<1>28. ASSUME NEW r \in Runs, PollRead(r) PROVE EarnedInv'
  <2>1. \/ SetPoll(r, [poll[r] EXCEPT !.pc = "gate", !.seen = run[r]])
        \/ SetPoll(r, [poll[r] EXCEPT !.pc = "write"]) /\ poll[r].mapped \in Open
        \/ SetPoll(r, Rearmed(poll[r]))
    BY <1>28 DEF PollRead
  <2>2. poll \in [Runs -> PollState]
    BY DEF TypeOK
  <2>3. \/ poll'[r].pc = "gate" /\ poll'[r].mapped = poll[r].mapped
        \/ poll'[r].pc = "write" /\ poll'[r].mapped = poll[r].mapped /\ poll[r].mapped \in Open
        \/ poll'[r].pc = "wait"
    BY <2>1, <2>2 DEF SetPoll, Rearmed, PollStarted, PollOff, PollState
  <2>4. PollSound(r, poll[r])'
    BY <1>28, <2>3, <1>2, <1>4, <1>1 DEF PollRead, PollSound, Onward, Ended, TypeOK, Open
  <2>5. PollReadings'
    BY <1>28, <2>4, <1>3 DEF PollRead, SetPoll, PollReadings, TypeOK
  <2> QED
    BY <1>28, <2>5, <1>2 DEF PollRead, EarnedInv
<1>29. ASSUME NEW r \in Runs, PollSource(r) PROVE EarnedInv'
  <2>1. PollSound(r, poll[r])'
    BY <1>29 DEF PollSource, SetPoll, SourceDeployAnswers, PollSound, TypeOK, Terminal
  <2>2. PollReadings'
    BY <1>29, <2>1, <1>3 DEF PollSource, SetPoll, PollReadings, TypeOK
  <2> QED
    BY <1>29, <2>2, <1>2 DEF PollSource, EarnedInv
<1>30. ASSUME NEW r \in Runs, PollGate(r) PROVE EarnedInv'
  <2>1. ASSUME NEW outcome \in GateAnswers(r, poll[r].mapped), Vouch(r, outcome, PollExpected(r)),
               outcome = "success"
        PROVE  Earned(r)'
    BY <1>30, <1>4, <2>1 DEF PollGate, GateAnswers, Vouch, PollExpected, Coalesce, Earned, PollSound,
        TypeOK, PollState, Row
  <2>2. PollSound(r, poll[r])'
    BY <1>30, <1>4, <2>1 DEF PollGate, SetPoll, PollOff, PollSound, TypeOK
  <2>3. PollReadings'
    BY <1>30, <2>2, <1>3 DEF PollGate, SetPoll, PollReadings, TypeOK
  <2> QED
    BY <1>30, <2>3, <1>2 DEF PollGate, EarnedInv
<1>31. ASSUME NEW r \in Runs, PollWrite(r) PROVE EarnedInv'
  <2>1. PollSound(r, poll[r])'
    BY <1>31, <1>1, <1>2, <1>4 DEF PollWrite, SetPoll, Rearmed, PollStarted, PollOff, PollSound, TypeOK
  <2>2. PollReadings'
    BY <1>31, <2>1, <1>3 DEF PollWrite, SetPoll, PollReadings, TypeOK
  <2>3. SuccessIsEarned'
    BY <1>31, <1>2, <1>4 DEF PollWrite, UpdateStatus, Updated, PollSound, SuccessIsEarned, EarnedInv, TypeOK
  <2> QED
    BY <1>31, <2>2, <2>3, <1>2 DEF PollWrite, EarnedInv
<1>32. ASSUME NEW r \in Runs, PollFinalize(r) PROVE EarnedInv'
  <2>1. PollSound(r, poll[r])'
    BY <1>32 DEF PollFinalize, SetPoll, PollOff, PollSound, TypeOK
  <2>2. PollReadings'
    BY <1>32, <2>1, <1>3 DEF PollFinalize, SetPoll, PollReadings, TypeOK
  <2>3. ActiveIsEarned'
    BY <1>32, <1>2, <1>4 DEF PollFinalize, FinalizeServiceEnv, PollSound, ActiveIsEarned, EarnedInv, TypeOK
  <2> QED
    BY <1>32, <2>2, <2>3, <1>2 DEF PollFinalize, EarnedInv
<1>33. ASSUME NEW r \in Runs, PollThrows(r) PROVE EarnedInv'
  <2>1. PollSound(r, poll[r])'
    BY <1>33 DEF PollThrows, SetPoll, Rearmed, PollStarted, PollOff, PollSound, TypeOK
  <2>2. PollReadings'
    BY <1>33, <2>1, <1>3 DEF PollThrows, SetPoll, PollReadings, TypeOK
  <2> QED
    BY <1>33, <2>2, <1>2 DEF PollThrows, EarnedInv
<1>34. ASSUME NEW h \in Handlers, NEW note \in notes, HookReceive(h, note) PROVE EarnedInv'
  <2>1. HookSound(hook[h])'
    BY <1>34 DEF HookReceive, SetHook, Known, MapCoolifyEvent, HookIdle, HookSound, NoteReadings, EarnedInv, TypeOK, Terminal
  <2>2. HookReadings'
    BY <1>34, <2>1, <1>6 DEF HookReceive, SetHook, HookReadings, TypeOK
  <2>3. NoteReadings'
    BY <1>34 DEF HookReceive, NoteReadings, EarnedInv
  <2> QED
    BY <1>34, <2>2, <2>3, <1>2 DEF HookReceive, EarnedInv
<1>35. ASSUME NEW h \in Handlers, HookGate(h) PROVE EarnedInv'
  <2>1. PICK r \in Runs : r = hook[h].run
    BY <1>35 DEF HookGate, TypeOK
  <2>2. req[r].driver = "coolify" /\ req' = req /\ ext' = ext
    BY <1>35, <2>1, <1>5 DEF HookGate, HookSound
  <2>3. ASSUME NEW outcome \in GateAnswers(r, hook[h].status),
               Vouch(r, outcome, hook[h].expected), outcome = "success"
        PROVE  Earned(r)'
    BY <1>35, <1>5, <2>1, <2>2, <2>3
    DEF HookGate, GateAnswers, Vouch, Earned, HookSound, TypeOK, HookState
  <2>4. HookSound(hook[h])'
    BY <1>35, <1>5, <2>1, <2>3 DEF HookGate, SetHook, HookSound, TypeOK
  <2>5. HookReadings'
    BY <1>35, <2>4, <1>6 DEF HookGate, SetHook, HookReadings, TypeOK
  <2> QED
    BY <1>35, <2>5, <1>2 DEF HookGate, EarnedInv
<1>36. ASSUME NEW h \in Handlers, HookWrite(h) PROVE EarnedInv'
  <2>1. HookSound(hook[h])'
    BY <1>36, <1>1, <1>2, <1>5 DEF HookWrite, SetHook, HookIdle, HookSound, TypeOK, HookState, Onward
  <2>2. HookReadings'
    BY <1>36, <2>1, <1>6 DEF HookWrite, SetHook, HookReadings, TypeOK
  <2>3. SuccessIsEarned'
    BY <1>36, <1>2, <1>5 DEF HookWrite, UpdateStatus, Updated, HookSound, SuccessIsEarned, EarnedInv, TypeOK
  <2> QED
    BY <1>36, <2>2, <2>3, <1>2 DEF HookWrite, EarnedInv
<1>37. ASSUME NEW h \in Handlers, HookFinalize(h) PROVE EarnedInv'
  <2>1. HookSound(hook[h])'
    BY <1>37 DEF HookFinalize, SetHook, HookIdle, HookSound, TypeOK
  <2>2. HookReadings'
    BY <1>37, <2>1, <1>6 DEF HookFinalize, SetHook, HookReadings, TypeOK
  <2>3. ActiveIsEarned'
    BY <1>37, <1>2, <1>5 DEF HookFinalize, FinalizeServiceEnv, HookSound, ActiveIsEarned, EarnedInv, TypeOK
  <2> QED
    BY <1>37, <2>2, <2>3, <1>2 DEF HookFinalize, EarnedInv
<1>38. ASSUME NEW h \in Handlers, HookThrows(h) PROVE EarnedInv'
  <2>1. HookSound(hook[h])'
    BY <1>38 DEF HookThrows, SetHook, HookIdle, HookSound, TypeOK
  <2>2. HookReadings'
    BY <1>38, <2>1, <1>6 DEF HookThrows, SetHook, HookReadings, TypeOK
  <2> QED
    BY <1>38, <2>2, <1>2 DEF HookThrows, EarnedInv
<1>39. ASSUME NEW note \in notes, NoteDropped(note) PROVE EarnedInv'
  <2>1. NoteReadings'
    BY <1>39 DEF NoteDropped, NoteReadings, EarnedInv
  <2> QED
    BY <1>39, <2>1, <1>2 DEF NoteDropped, EarnedInv
<1>40. CASE Restart
  <2>1. PollReadings' /\ HookReadings'
    BY <1>40 DEF Restart, PollOff, HookIdle, PollReadings, PollSound, HookReadings, HookSound
  <2>2. ExtUntouched' /\ SimulateOnly'
    BY <1>40 DEF Restart, ExtUntouched, SimulateOnly, EarnedInv, TypeOK
  <2> QED
    BY <1>40, <2>1, <2>2, <1>2 DEF Restart, EarnedInv
<1>41. CASE UNCHANGED vars
  BY <1>41, <1>2 DEF vars, EarnedInv
<1> QED
  BY <1>7, <1>8, <1>9, <1>10, <1>11, <1>12, <1>13, <1>14, <1>15, <1>16, <1>17, <1>18,
     <1>19, <1>20, <1>21, <1>22, <1>23, <1>24, <1>25, <1>26, <1>27, <1>28, <1>29, <1>30,
     <1>31, <1>32, <1>33, <1>34, <1>35, <1>36, <1>37, <1>38, <1>39, <1>40, <1>41
  DEF Next, Pipeline, Poller, External, Webhook

\* At the start nothing has been read, sent or recorded.
LEMMA EarnedInitially == Init => EarnedInv
BY DEF Init, EarnedInv, ExtUntouched, SimulateOnly, PollReadings, PollSound, PollOff, NoteReadings,
    HookReadings, HookSound, HookIdle, SuccessIsEarned, Absent, ActiveIsEarned

\* The inductive invariant holds throughout.
LEMMA EarnedAlways == Spec => []EarnedInv
BY TypeCorrect, EarnedInitially, EarnedInductive, PTL DEF Spec

\* SuccessIsEarned: for any number of pollers, webhook handlers and restarts, a row says
\* "success" only if the deployment ended well and the gate that applied let it through.
THEOREM SuccessEarned == Spec => []SuccessIsEarned
<1>1. EarnedInv => SuccessIsEarned
  BY DEF EarnedInv
<1> QED
  BY EarnedAlways, <1>1, PTL

\* ActiveIsEarned: for any number of runs of the same environment, it shows "active"
\* only with the version of a run that earned it.
THEOREM ActiveEarned == Spec => []ActiveIsEarned
<1>1. EarnedInv => ActiveIsEarned
  BY DEF EarnedInv
<1> QED
  BY EarnedAlways, <1>1, PTL

-----------------------------------------------------------------------------
(***************************************************************************)
(* A run of a driver without webhooks is looked after until it closes,      *)
(* stays closed, and only then reaches the environment row.                *)
(***************************************************************************)

\* What a step may not do to run r.
StaysClosed(r) == Solo(r) /\ run[r].status \in Terminal => run'[r].status \in Terminal

Upheld(r) == Closing(r)' /\ Kept(r)' /\ StaysClosed(r)

\* A step that leaves the pipeline, the row and the poller of r alone upholds r.
LEMMA Bystander ==
    ASSUME TypeOK, Onward, NEW r \in Runs, Closing(r), Kept(r),
           pc'[r] = pc[r], run'[r] = run[r], poll'[r] = poll[r],
           restarts' = restarts
    PROVE  Upheld(r)
<1>1. req'[r].driver = req[r].driver /\ (ext[r].phase \in Ended => ext'[r].phase \in Ended)
  BY DEF Onward
<1>2. Closing(r)'
  BY <1>1 DEF Closing, Solo, PipelineThenPoller, PollerClosing, PollerOfEcr, PollerOfSsh
<1>3. Kept(r)'
  BY <1>1 DEF Kept, Solo, Tended
<1> QED
  BY <1>2, <1>3 DEF Upheld, StaysClosed

\* Every step upholds every run: each action in turn.
LEMMA ClosingInductive ==
    TypeOK /\ EarnedInv /\ ClosedInv /\ TendedInv /\ [Next]_vars => \A q \in Runs : Upheld(q)
<1> SUFFICES ASSUME TypeOK, EarnedInv, ClosedInv, TendedInv, [Next]_vars PROVE \A q \in Runs : Upheld(q)
  OBVIOUS
<1>1. Onward
  BY StepsGoOnward DEF EarnedInv
<1>2. \A q \in Runs : Closing(q) /\ Kept(q)
  BY DEF ClosedInv, TendedInv
<1>3. \A q \in Runs : /\ pc'[q] = pc[q] /\ run'[q] = run[q] /\ poll'[q] = poll[q]
                      /\ restarts' = restarts
                      => Upheld(q)
  BY <1>1, <1>2, Bystander
<1> USE DEF Open, Terminal, Working
<1>4. ASSUME NEW r \in Runs, Trigger(r) PROVE \A q \in Runs : Upheld(q)
  <2>1. /\ req'[r].driver = req[r].driver
        /\ ext[r].phase \in Ended => ext'[r].phase \in Ended
    BY <1>1 DEF Onward
  <2>2. Closing(r)' /\ StaysClosed(r)
    BY <1>4, <2>1, <1>2 DEF Trigger, Goto, CreateRun, Queued, Closing, Solo, PipelineThenPoller, PollerClosing, PollerOfEcr, PollerOfSsh, StaysClosed, Ended, TypeOK
  <2>3. Kept(r)'
    BY <1>4, <2>1, <1>2 DEF Trigger, Goto, CreateRun, Queued, Kept, Tended, Closing, Solo, PipelineThenPoller, PollerClosing, TypeOK
  <2> QED
    BY <1>4, <1>3, <2>2, <2>3 DEF Trigger, Goto, CreateRun, Upheld, TypeOK
<1>5. ASSUME NEW r \in Runs, SimBuilding(r) PROVE \A q \in Runs : Upheld(q)
  <2>1. ~Solo(r) /\ ~Solo(r)'
    BY <1>5, <1>1 DEF SimBuilding, EarnedInv, SimulateOnly, Onward, Solo
  <2>2. Closing(r)' /\ StaysClosed(r)
    BY <2>1 DEF Closing, StaysClosed, Solo
  <2>3. Kept(r)'
    BY <1>5, <2>1, <1>2 DEF SimBuilding, Kept
  <2> QED
    BY <1>5, <1>3, <2>2, <2>3 DEF SimBuilding, UpdateStatus, Upheld, TypeOK
<1>6. ASSUME NEW r \in Runs, SimSuccess(r) PROVE \A q \in Runs : Upheld(q)
  <2>1. ~Solo(r) /\ ~Solo(r)'
    BY <1>6, <1>1 DEF SimSuccess, EarnedInv, SimulateOnly, Onward, Solo
  <2>2. Closing(r)' /\ StaysClosed(r)
    BY <2>1 DEF Closing, StaysClosed, Solo
  <2>3. Kept(r)'
    BY <1>6, <2>1, <1>2 DEF SimSuccess, Kept
  <2> QED
    BY <1>6, <1>3, <2>2, <2>3 DEF SimSuccess, UpdateStatus, Upheld, TypeOK
<1>7. ASSUME NEW r \in Runs, SimFinalize(r) PROVE \A q \in Runs : Upheld(q)
  <2>1. /\ req'[r].driver = req[r].driver
        /\ ext[r].phase \in Ended => ext'[r].phase \in Ended
    BY <1>1 DEF Onward
  <2>2. Closing(r)' /\ StaysClosed(r)
    BY <1>7, <2>1, <1>2 DEF SimFinalize, Closing, Solo, PipelineThenPoller, PollerClosing, PollerOfEcr, PollerOfSsh, StaysClosed, Ended, TypeOK
  <2>3. Kept(r)'
    BY <1>7, <2>1, <1>2 DEF SimFinalize, Kept, Tended, Closing, Solo, PipelineThenPoller, PollerClosing, TypeOK
  <2> QED
    BY <1>7, <1>3, <2>2, <2>3 DEF SimFinalize, Upheld, TypeOK
<1>8. ASSUME NEW r \in Runs, EcrBegin(r) PROVE \A q \in Runs : Upheld(q)
  <2>1. /\ req'[r].driver = req[r].driver
        /\ ext[r].phase \in Ended => ext'[r].phase \in Ended
    BY <1>1 DEF Onward
  <2>2. Closing(r)' /\ StaysClosed(r)
    BY <1>8, <2>1, <1>2 DEF EcrBegin, Goto, UpdateStatus, Updated, Closing, Solo, PipelineThenPoller, PollerClosing, PollerOfEcr, PollerOfSsh, StaysClosed, Ended, TypeOK
  <2>3. Kept(r)'
    BY <1>8, <2>1, <1>2 DEF EcrBegin, Goto, UpdateStatus, Updated, Kept, Tended, Closing, Solo, PipelineThenPoller, PollerClosing, TypeOK
  <2> QED
    BY <1>8, <1>3, <2>2, <2>3 DEF EcrBegin, Goto, UpdateStatus, Upheld, TypeOK
<1>9. ASSUME NEW r \in Runs, EcrReleased(r) PROVE \A q \in Runs : Upheld(q)
  <2>1. /\ req'[r].driver = req[r].driver
        /\ ext[r].phase \in Ended => ext'[r].phase \in Ended
    BY <1>1 DEF Onward
  <2>2. Closing(r)' /\ StaysClosed(r)
    BY <1>9, <2>1, <1>2 DEF EcrReleased, Goto, UpdateStatus, Updated, Closing, Solo, PipelineThenPoller, PollerClosing, PollerOfEcr, PollerOfSsh, StaysClosed, Ended, TypeOK
  <2>3. Kept(r)'
    BY <1>9, <2>1, <1>2 DEF EcrReleased, Goto, UpdateStatus, Updated, Kept, Tended, Closing, Solo, PipelineThenPoller, PollerClosing, TypeOK
  <2> QED
    BY <1>9, <1>3, <2>2, <2>3 DEF EcrReleased, Goto, UpdateStatus, Upheld, TypeOK
<1>10. ASSUME NEW r \in Runs, CoolifyAnswered(r) PROVE \A q \in Runs : Upheld(q)
  <2>1. /\ req'[r].driver = req[r].driver
        /\ ext[r].phase \in Ended => ext'[r].phase \in Ended
    BY <1>1 DEF Onward
  <2>2. Closing(r)' /\ StaysClosed(r)
    BY <1>10, <2>1, <1>2 DEF CoolifyAnswered, Goto, CreateRun, Queued, StartPolling, PollOff, PollStarted, Closing, Solo, PipelineThenPoller, PollerClosing, PollerOfEcr, PollerOfSsh, StaysClosed, Ended, TypeOK
  <2>3. Kept(r)'
    BY <1>10, <2>1, <1>2 DEF CoolifyAnswered, Goto, CreateRun, Queued, StartPolling, PollOff, PollStarted, Kept, Tended, Closing, Solo, PipelineThenPoller, PollerClosing, TypeOK
  <2> QED
    BY <1>10, <1>3, <2>2, <2>3 DEF CoolifyAnswered, Goto, CreateRun, StartPolling, Upheld, TypeOK
<1>11. ASSUME NEW r \in Runs, SshLaunched(r) PROVE \A q \in Runs : Upheld(q)
  <2>1. /\ req'[r].driver = req[r].driver
        /\ ext[r].phase \in Ended => ext'[r].phase \in Ended
    BY <1>1 DEF Onward
  <2>2. Closing(r)' /\ StaysClosed(r)
    BY <1>11, <2>1, <1>2 DEF SshLaunched, Goto, Closing, Solo, PipelineThenPoller, PollerClosing, PollerOfEcr, PollerOfSsh, StaysClosed, Ended, TypeOK
  <2>3. Kept(r)'
    BY <1>11, <2>1, <1>2 DEF SshLaunched, Goto, Kept, Tended, Closing, Solo, PipelineThenPoller, PollerClosing, TypeOK
  <2> QED
    BY <1>11, <1>3, <2>2, <2>3 DEF SshLaunched, Goto, Upheld, TypeOK
<1>12. ASSUME NEW r \in Runs, SshBuilding(r) PROVE \A q \in Runs : Upheld(q)
  <2>1. /\ req'[r].driver = req[r].driver
        /\ ext[r].phase \in Ended => ext'[r].phase \in Ended
    BY <1>1 DEF Onward
  <2>2. Closing(r)' /\ StaysClosed(r)
    BY <1>12, <2>1, <1>2 DEF SshBuilding, Goto, StartPolling, PollOff, PollStarted, UpdateStatus, Updated, Closing, Solo, PipelineThenPoller, PollerClosing, PollerOfEcr, PollerOfSsh, StaysClosed, Ended, TypeOK
  <2>3. Kept(r)'
    BY <1>12, <2>1, <1>2 DEF SshBuilding, Goto, StartPolling, PollOff, PollStarted, UpdateStatus, Updated, Kept, Tended, Closing, Solo, PipelineThenPoller, PollerClosing, TypeOK
  <2> QED
    BY <1>12, <1>3, <2>2, <2>3 DEF SshBuilding, Goto, StartPolling, UpdateStatus, Upheld, TypeOK
<1>13. ASSUME NEW r \in Runs, PipelineThrows(r) PROVE \A q \in Runs : Upheld(q)
  <2>1. /\ req'[r].driver = req[r].driver
        /\ ext[r].phase \in Ended => ext'[r].phase \in Ended
    BY <1>1 DEF Onward
  <2>2. Closing(r)' /\ StaysClosed(r)
    BY <1>13, <2>1, <1>2 DEF PipelineThrows, Goto, Closing, Solo, PipelineThenPoller, PollerClosing, PollerOfEcr, PollerOfSsh, StaysClosed, Ended, TypeOK
  <2>3. Kept(r)'
    BY <1>13, <2>1, <1>2 DEF PipelineThrows, Goto, Kept, Tended, Closing, Solo, PipelineThenPoller, PollerClosing, TypeOK
  <2> QED
    BY <1>13, <1>3, <2>2, <2>3 DEF PipelineThrows, Goto, Upheld, TypeOK
<1>14. ASSUME NEW r \in Runs, MarkRefused(r) PROVE \A q \in Runs : Upheld(q)
  <2>1. /\ req'[r].driver = req[r].driver
        /\ ext[r].phase \in Ended => ext'[r].phase \in Ended
    BY <1>1 DEF Onward
  <2>2. Closing(r)' /\ StaysClosed(r)
    BY <1>14, <2>1, <1>2 DEF MarkRefused, Goto, UpdateStatus, Updated, Closing, Solo, PipelineThenPoller, PollerClosing, PollerOfEcr, PollerOfSsh, StaysClosed, Ended, TypeOK
  <2>3. Kept(r)'
    BY <1>14, <2>1, <1>2 DEF MarkRefused, Goto, UpdateStatus, Updated, Kept, Tended, Closing, Solo, PipelineThenPoller, PollerClosing, TypeOK
  <2> QED
    BY <1>14, <1>3, <2>2, <2>3 DEF MarkRefused, Goto, UpdateStatus, Upheld, TypeOK
<1>15. ASSUME NEW r \in Runs, FinalizeRefused(r) PROVE \A q \in Runs : Upheld(q)
  <2>1. /\ req'[r].driver = req[r].driver
        /\ ext[r].phase \in Ended => ext'[r].phase \in Ended
    BY <1>1 DEF Onward
  <2>2. Closing(r)' /\ StaysClosed(r)
    BY <1>15, <2>1, <1>2 DEF FinalizeRefused, Goto, Closing, Solo, PipelineThenPoller, PollerClosing, PollerOfEcr, PollerOfSsh, StaysClosed, Ended, TypeOK
  <2>3. Kept(r)'
    BY <1>15, <2>1, <1>2 DEF FinalizeRefused, Goto, Kept, Tended, Closing, Solo, PipelineThenPoller, PollerClosing, TypeOK
  <2> QED
    BY <1>15, <1>3, <2>2, <2>3 DEF FinalizeRefused, Goto, Upheld, TypeOK
<1>16. ASSUME NEW r \in Runs, RefusedThrows(r) PROVE \A q \in Runs : Upheld(q)
  <2>1. /\ req'[r].driver = req[r].driver
        /\ ext[r].phase \in Ended => ext'[r].phase \in Ended
    BY <1>1 DEF Onward
  <2>2. Closing(r)' /\ StaysClosed(r)
    BY <1>16, <2>1, <1>2 DEF RefusedThrows, Goto, Closing, Solo, PipelineThenPoller, PollerClosing, PollerOfEcr, PollerOfSsh, StaysClosed, Ended, TypeOK
  <2>3. Kept(r)'
    BY <1>16, <2>1, <1>2 DEF RefusedThrows, Goto, Kept, Tended, Closing, Solo, PipelineThenPoller, PollerClosing, TypeOK
  <2> QED
    BY <1>16, <1>3, <2>2, <2>3 DEF RefusedThrows, Goto, Upheld, TypeOK
<1>17. ASSUME NEW r \in Runs, PollTimeout(r) PROVE \A q \in Runs : Upheld(q)
  <2>1. /\ req'[r].driver = req[r].driver
        /\ ext[r].phase \in Ended => ext'[r].phase \in Ended
    BY <1>1 DEF Onward
  <2>2. Closing(r)' /\ StaysClosed(r)
    BY <1>17, <2>1, <1>2 DEF PollTimeout, SetPoll, PollOff, UpdateStatus, Updated, Closing, Solo, PipelineThenPoller, PollerClosing, PollerOfEcr, PollerOfSsh, StaysClosed, Ended, TypeOK
  <2>3. Kept(r)'
    BY <1>17, <2>1, <1>2 DEF PollTimeout, SetPoll, PollOff, UpdateStatus, Updated, Kept, Tended, Closing, Solo, PipelineThenPoller, PollerClosing, TypeOK
  <2> QED
    BY <1>17, <1>3, <2>2, <2>3 DEF PollTimeout, SetPoll, UpdateStatus, Upheld, TypeOK
<1>18. ASSUME NEW r \in Runs, PollTimeoutFinalize(r) PROVE \A q \in Runs : Upheld(q)
  <2>1. /\ req'[r].driver = req[r].driver
        /\ ext[r].phase \in Ended => ext'[r].phase \in Ended
    BY <1>1 DEF Onward
  <2>2. Closing(r)' /\ StaysClosed(r)
    BY <1>18, <2>1, <1>2 DEF PollTimeoutFinalize, SetPoll, PollOff, Closing, Solo, PipelineThenPoller, PollerClosing, PollerOfEcr, PollerOfSsh, StaysClosed, Ended, TypeOK
  <2>3. Kept(r)'
    BY <1>18, <2>1, <1>2 DEF PollTimeoutFinalize, SetPoll, PollOff, Kept, Tended, Closing, Solo, PipelineThenPoller, PollerClosing, TypeOK
  <2> QED
    BY <1>18, <1>3, <2>2, <2>3 DEF PollTimeoutFinalize, SetPoll, Upheld, TypeOK
<1>19. ASSUME NEW r \in Runs, PollMiss(r) PROVE \A q \in Runs : Upheld(q)
  <2>1. /\ req'[r].driver = req[r].driver
        /\ ext[r].phase \in Ended => ext'[r].phase \in Ended
    BY <1>1 DEF Onward
  <2>2. \/ /\ run'[r] = run[r]
           /\ poll'[r].pc = "wait" /\ poll[r].pc = "wait"
        \/ run'[r].status = "failed" /\ poll'[r].pc = "off"
    BY <1>19 DEF PollMiss, SetPoll, PollOff, UpdateStatus, Updated, TypeOK, PollState
  <2>3. Closing(r)' /\ StaysClosed(r)
    BY <1>19, <2>1, <2>2, <1>2 DEF PollMiss, Closing, Solo, PipelineThenPoller, PollerClosing, PollerOfEcr, PollerOfSsh, StaysClosed, Ended
  <2>4. Kept(r)'
    BY <1>19, <2>1, <2>2, <1>2 DEF PollMiss, Kept, Tended, Closing, Solo, PipelineThenPoller, PollerClosing
  <2> QED
    BY <1>19, <1>3, <2>3, <2>4 DEF PollMiss, SetPoll, UpdateStatus, Upheld, TypeOK
<1>20. ASSUME NEW r \in Runs, PollFetch(r) PROVE \A q \in Runs : Upheld(q)
  <2>1. /\ req'[r].driver = req[r].driver
        /\ ext[r].phase \in Ended => ext'[r].phase \in Ended
    BY <1>1 DEF Onward
  <2>2. Closing(r)' /\ StaysClosed(r)
    BY <1>20, <2>1, <1>2 DEF PollFetch, SetPoll, MapCoolifyApiStatus, Closing, Solo, PipelineThenPoller, PollerClosing, PollerOfEcr, PollerOfSsh, StaysClosed, Ended, TypeOK
  <2>3. Kept(r)'
    BY <1>20, <2>1, <1>2 DEF PollFetch, SetPoll, MapCoolifyApiStatus, Kept, Tended, Closing, Solo, PipelineThenPoller, PollerClosing, TypeOK
  <2> QED
    BY <1>20, <1>3, <2>2, <2>3 DEF PollFetch, SetPoll, Upheld, TypeOK
<1>21. ASSUME NEW r \in Runs, PollRead(r) PROVE \A q \in Runs : Upheld(q)
  <2>1. req'[r].driver = req[r].driver /\ UNCHANGED <<pc, run, ext, restarts>>
    BY <1>21, <1>1 DEF PollRead, Onward
  <2>2. poll \in [Runs -> PollState]
    BY DEF TypeOK
  <2>3. \/ /\ poll[r].mapped \in Terminal
           /\ SetPoll(r, [poll[r] EXCEPT !.pc = "gate", !.seen = run[r]])
        \/ /\ poll[r].mapped \in Open
           /\ SetPoll(r, [poll[r] EXCEPT !.pc = "write"])
        \/ /\ run[r].status \in Open
           /\ SetPoll(r, Rearmed(poll[r]))
    BY <1>21 DEF PollRead
  <2>4. \/ /\ poll[r].mapped \in Terminal /\ poll'[r].mapped \in Terminal
           /\ poll'[r].pc = "gate" /\ poll'[r].seen = run[r]
        \/ /\ poll[r].mapped \in Open /\ poll'[r].pc = "write" /\ poll'[r].mapped = poll[r].mapped
        \/ run[r].status \in Open /\ poll'[r].pc = "wait"
    BY <2>2, <2>3 DEF SetPoll, Rearmed, PollStarted, PollOff, PollState
  <2>5. poll[r].pc = "read"
    BY <1>21 DEF PollRead
  <2>6. Closing(r)' /\ StaysClosed(r)
    BY <2>1, <2>4, <2>5, <1>2 DEF Closing, Solo, PipelineThenPoller, PollerClosing, PollerOfEcr, PollerOfSsh, StaysClosed, Ended
  <2>7. Kept(r)'
    BY <2>1, <2>4, <2>5, <1>2 DEF Kept, Tended, Closing, Solo, PipelineThenPoller, PollerClosing
  <2> QED
    BY <1>21, <1>3, <2>6, <2>7 DEF PollRead, SetPoll, Upheld, TypeOK
<1>22. ASSUME NEW r \in Runs, PollSource(r) PROVE \A q \in Runs : Upheld(q)
  <2>1. req'[r].driver = "ssh-build" /\ UNCHANGED <<pc, run, ext, restarts>>
    BY <1>22, <1>1 DEF PollSource, Onward
  <2>2. \E mapped \in Terminal : \E c, e :
           SetPoll(r, [poll[r] EXCEPT !.pc = "gate", !.mapped = mapped, !.commit = c, !.error = e])
    BY <1>22 DEF PollSource
  <2>3. poll'[r].pc = "gate" /\ poll'[r].mapped \in Terminal /\ poll'[r].seen = poll[r].seen
    BY <2>2 DEF SetPoll, TypeOK, PollState
  <2>4. Closing(r)' /\ StaysClosed(r)
    BY <1>22, <2>1, <2>3, <1>2 DEF PollSource, Absent, Closing, Solo, PipelineThenPoller, PollerClosing, PollerOfEcr, PollerOfSsh, StaysClosed, Ended
  <2>5. Kept(r)'
    BY <1>22, <2>1, <2>3, <1>2 DEF PollSource, Kept, Tended, Closing, Solo, PipelineThenPoller, PollerClosing
  <2> QED
    BY <1>22, <1>3, <2>4, <2>5 DEF PollSource, SetPoll, Upheld, TypeOK
<1>23. ASSUME NEW r \in Runs, PollGate(r) PROVE \A q \in Runs : Upheld(q)
  <2>1. /\ req'[r].driver = req[r].driver
        /\ ext[r].phase \in Ended => ext'[r].phase \in Ended
    BY <1>1 DEF Onward
  <2>2. Closing(r)' /\ StaysClosed(r)
    BY <1>23, <2>1, <1>2 DEF PollGate, SetPoll, PollOff, GateAnswers, Closing, Solo, PipelineThenPoller, PollerClosing, PollerOfEcr, PollerOfSsh, StaysClosed, Ended, TypeOK
  <2>3. Kept(r)'
    BY <1>23, <2>1, <1>2 DEF PollGate, SetPoll, PollOff, GateAnswers, Kept, Tended, Closing, Solo, PipelineThenPoller, PollerClosing, TypeOK
  <2> QED
    BY <1>23, <1>3, <2>2, <2>3 DEF PollGate, SetPoll, Upheld, TypeOK
<1>24. ASSUME NEW r \in Runs, PollWrite(r) PROVE \A q \in Runs : Upheld(q)
  <2>1. /\ req'[r].driver = req[r].driver
        /\ ext[r].phase \in Ended => ext'[r].phase \in Ended
    BY <1>1 DEF Onward
  <2>2. Closing(r)' /\ StaysClosed(r)
    BY <1>24, <2>1, <1>2 DEF PollWrite, SetPoll, Rearmed, PollOff, PollStarted, UpdateStatus, Updated, Closing, Solo, PipelineThenPoller, PollerClosing, PollerOfEcr, PollerOfSsh, StaysClosed, Ended, TypeOK
  <2>3. Kept(r)'
    BY <1>24, <2>1, <1>2 DEF PollWrite, SetPoll, Rearmed, PollOff, PollStarted, UpdateStatus, Updated, Kept, Tended, Closing, Solo, PipelineThenPoller, PollerClosing, TypeOK
  <2> QED
    BY <1>24, <1>3, <2>2, <2>3 DEF PollWrite, SetPoll, UpdateStatus, Upheld, TypeOK
<1>25. ASSUME NEW r \in Runs, PollFinalize(r) PROVE \A q \in Runs : Upheld(q)
  <2>1. /\ req'[r].driver = req[r].driver
        /\ ext[r].phase \in Ended => ext'[r].phase \in Ended
    BY <1>1 DEF Onward
  <2>2. Closing(r)' /\ StaysClosed(r)
    BY <1>25, <2>1, <1>2 DEF PollFinalize, SetPoll, PollOff, Closing, Solo, PipelineThenPoller, PollerClosing, PollerOfEcr, PollerOfSsh, StaysClosed, Ended, TypeOK
  <2>3. Kept(r)'
    BY <1>25, <2>1, <1>2 DEF PollFinalize, SetPoll, PollOff, Kept, Tended, Closing, Solo, PipelineThenPoller, PollerClosing, TypeOK
  <2> QED
    BY <1>25, <1>3, <2>2, <2>3 DEF PollFinalize, SetPoll, Upheld, TypeOK
<1>26. ASSUME NEW r \in Runs, PollThrows(r) PROVE \A q \in Runs : Upheld(q)
  <2>1. /\ req'[r].driver = req[r].driver
        /\ ext[r].phase \in Ended => ext'[r].phase \in Ended
    BY <1>1 DEF Onward
  <2>2. Closing(r)' /\ StaysClosed(r)
    BY <1>26, <2>1, <1>2 DEF PollThrows, SetPoll, Rearmed, PollOff, PollStarted, Closing, Solo, PipelineThenPoller, PollerClosing, PollerOfEcr, PollerOfSsh, StaysClosed, Ended, TypeOK
  <2>3. Kept(r)'
    BY <1>26, <2>1, <1>2 DEF PollThrows, SetPoll, Rearmed, PollOff, PollStarted, Kept, Tended, Closing, Solo, PipelineThenPoller, PollerClosing, TypeOK
  <2> QED
    BY <1>26, <1>3, <2>2, <2>3 DEF PollThrows, SetPoll, Upheld, TypeOK
<1>27. ASSUME NEW r \in Runs, PollDeadline(r) PROVE \A q \in Runs : Upheld(q)
  <2>1. /\ req'[r].driver = req[r].driver
        /\ ext[r].phase \in Ended => ext'[r].phase \in Ended
    BY <1>1 DEF Onward
  <2>2. Closing(r)' /\ StaysClosed(r)
    BY <1>27, <2>1, <1>2 DEF PollDeadline, SetPoll, Closing, Solo, PipelineThenPoller, PollerClosing, PollerOfEcr, PollerOfSsh, StaysClosed, Ended, TypeOK
  <2>3. Kept(r)'
    BY <1>27, <2>1, <1>2 DEF PollDeadline, SetPoll, Kept, Tended, Closing, Solo, PipelineThenPoller, PollerClosing, TypeOK
  <2> QED
    BY <1>27, <1>3, <2>2, <2>3 DEF PollDeadline, SetPoll, Upheld, TypeOK
<1>28. ASSUME NEW r \in Runs, CoolifyAccepts(r) PROVE \A q \in Runs : Upheld(q)
  BY <1>28, <1>3 DEF CoolifyAccepts
<1>29. ASSUME NEW r \in Runs, ExtStarts(r) PROVE \A q \in Runs : Upheld(q)
  BY <1>29, <1>3 DEF ExtStarts
<1>30. ASSUME NEW r \in Runs, ExtEnds(r) PROVE \A q \in Runs : Upheld(q)
  BY <1>30, <1>3 DEF ExtEnds
<1>31. ASSUME NEW note \in notes, NoteDropped(note) PROVE \A q \in Runs : Upheld(q)
  BY <1>31, <1>3 DEF NoteDropped
<1>32. ASSUME NEW h \in Handlers, NEW note \in notes, HookReceive(h, note) PROVE \A q \in Runs : Upheld(q)
  BY <1>32, <1>3 DEF HookReceive
<1>33. ASSUME NEW h \in Handlers, HookGate(h) PROVE \A q \in Runs : Upheld(q)
  BY <1>33, <1>3 DEF HookGate
<1>34. ASSUME NEW h \in Handlers, HookFinalize(h) PROVE \A q \in Runs : Upheld(q)
  BY <1>34, <1>3 DEF HookFinalize
<1>35. ASSUME NEW h \in Handlers, HookThrows(h) PROVE \A q \in Runs : Upheld(q)
  BY <1>35, <1>3 DEF HookThrows
<1>36. ASSUME NEW h \in Handlers, HookWrite(h) PROVE \A q \in Runs : Upheld(q)
  <2>1. PICK r \in Runs : r = hook[h].run /\ req[r].driver = "coolify"
    BY <1>36 DEF HookWrite, EarnedInv, HookReadings, HookSound, TypeOK
  <2>2. req'[r].driver = "coolify"
    BY <1>1, <2>1 DEF Onward
  <2>3. Upheld(r)
    BY <1>36, <1>2, <2>1, <2>2 DEF HookWrite, Upheld, Closing, Kept, StaysClosed, Solo
  <2> QED
    BY <1>36, <1>3, <2>1, <2>3 DEF HookWrite, UpdateStatus, TypeOK
<1>37. CASE Restart
  <2> SUFFICES ASSUME NEW r \in Runs PROVE Upheld(r)
    OBVIOUS
  <2>1. restarts' # 0
    BY <1>37, BoundsAssumption DEF Restart, TypeOK
  <2>2. Closing(r)' /\ StaysClosed(r)
    BY <1>37, <1>2 DEF Restart, Closing, Solo, PipelineThenPoller, PollerClosing, PollerOfEcr, PollerOfSsh, PollOff, StaysClosed, TypeOK
  <2> QED
    BY <2>1, <2>2 DEF Upheld, Kept
<1>38. CASE UNCHANGED vars
  BY <1>38, <1>3 DEF vars
<1> QED
  BY <1>4, <1>5, <1>6, <1>7, <1>8, <1>9, <1>10, <1>11, <1>12, <1>13, <1>14, <1>15, <1>16,
     <1>17, <1>18, <1>19, <1>20, <1>21, <1>22, <1>23, <1>24, <1>25, <1>26, <1>27, <1>28,
     <1>29, <1>30, <1>31, <1>32, <1>33, <1>34, <1>35, <1>36, <1>37, <1>38
  DEF Next, Pipeline, Poller, External, Webhook

\* The environment row takes the version of a run only after that run has closed.
LEMMA EnvironmentInductive ==
    TypeOK /\ EarnedInv /\ ClosedInv /\ TendedInv /\ [Next]_vars => EnvironmentShowsClosedRuns'
<1> SUFFICES ASSUME TypeOK, EarnedInv, ClosedInv, TendedInv, [Next]_vars
             PROVE  EnvironmentShowsClosedRuns'
  OBVIOUS
<1>1. Onward
  BY StepsGoOnward DEF EarnedInv
<1>2. \A r \in Runs : Closing(r) /\ StaysClosed(r)
  BY ClosingInductive DEF ClosedInv, Upheld
<1>3. ASSUME NEW r \in Runs, NEW outcome, NEW c, FinalizeServiceEnv(r, outcome, c),
             Solo(r) => run[r].status \in Terminal
      PROVE  EnvironmentShowsClosedRuns'
  BY <1>1, <1>2, <1>3 DEF FinalizeServiceEnv, EnvironmentShowsClosedRuns, ClosedInv, StaysClosed, Solo,
      Onward
<1>4. CASE UNCHANGED env
  BY <1>1, <1>2, <1>4 DEF EnvironmentShowsClosedRuns, ClosedInv, StaysClosed, Solo, Onward
<1>5. ASSUME NEW r \in Runs, SimFinalize(r) PROVE EnvironmentShowsClosedRuns'
  BY <1>3, <1>5 DEF SimFinalize, EarnedInv, SimulateOnly, Solo
<1>6. ASSUME NEW r \in Runs, FinalizeRefused(r) PROVE EnvironmentShowsClosedRuns'
  BY <1>2, <1>3, <1>6 DEF FinalizeRefused, Closing, PipelineThenPoller
<1>7. ASSUME NEW r \in Runs, PollTimeoutFinalize(r) PROVE EnvironmentShowsClosedRuns'
  BY <1>2, <1>3, <1>7 DEF PollTimeoutFinalize, Closing, PollerClosing
<1>8. ASSUME NEW r \in Runs, PollFinalize(r) PROVE EnvironmentShowsClosedRuns'
  BY <1>2, <1>3, <1>8 DEF PollFinalize, Closing, PollerClosing
<1>9. ASSUME NEW h \in Handlers, HookFinalize(h) PROVE EnvironmentShowsClosedRuns'
  <2>1. hook[h].run \in Runs /\ ~Solo(hook[h].run)
    BY <1>9 DEF HookFinalize, EarnedInv, HookReadings, HookSound, TypeOK, Solo
  <2> QED
    BY <1>3, <1>9, <2>1 DEF HookFinalize
<1>10. ASSUME NEW r \in Runs,
              Trigger(r) \/ SimBuilding(r) \/ SimSuccess(r) \/ EcrBegin(r) \/ EcrReleased(r)
                 \/ CoolifyAnswered(r) \/ SshLaunched(r) \/ SshBuilding(r) \/ PipelineThrows(r)
                 \/ MarkRefused(r) \/ RefusedThrows(r) \/ External(r)
       PROVE  UNCHANGED env
  BY <1>10 DEF Trigger, SimBuilding, SimSuccess, EcrBegin, EcrReleased, CoolifyAnswered, SshLaunched,
      SshBuilding, PipelineThrows, MarkRefused, RefusedThrows, External, CoolifyAccepts, ExtStarts,
      ExtEnds
<1>11. ASSUME NEW r \in Runs,
              PollTimeout(r) \/ PollMiss(r) \/ PollFetch(r) \/ PollRead(r) \/ PollSource(r)
                 \/ PollGate(r) \/ PollWrite(r) \/ PollThrows(r) \/ PollDeadline(r)
       PROVE  UNCHANGED env
  BY <1>11 DEF PollTimeout, PollMiss, PollFetch, PollRead, PollSource, PollGate, PollWrite,
      PollThrows, PollDeadline
<1>12. ASSUME NEW h \in Handlers,
              (\E n \in notes : HookReceive(h, n)) \/ HookGate(h) \/ HookWrite(h) \/ HookThrows(h)
       PROVE  UNCHANGED env
  BY <1>12 DEF HookReceive, HookGate, HookWrite, HookThrows
<1>13. (\E n \in notes : NoteDropped(n)) \/ Restart \/ UNCHANGED vars => UNCHANGED env
  BY DEF NoteDropped, Restart, vars
<1> QED
  BY <1>4, <1>5, <1>6, <1>7, <1>8, <1>9, <1>10, <1>11, <1>12, <1>13
  DEF Next, Pipeline, Poller, Webhook

\* At the start no run exists and the environment has heard of none.
LEMMA ClosedInitially == Init => ClosedInv /\ TendedInv
<1> SUFFICES ASSUME Init PROVE ClosedInv /\ TendedInv
  OBVIOUS
<1>1. EnvironmentShowsClosedRuns
  BY NoRunAssumption DEF Init, EnvironmentShowsClosedRuns
<1>2. ASSUME NEW r \in Runs PROVE Closing(r) /\ Kept(r)
  BY DEF Init, Closing, PipelineThenPoller, PollerClosing, PollerOfEcr, PollerOfSsh, Kept, Absent,
      PollOff, Working, Open
<1> QED
  BY <1>1, <1>2 DEF ClosedInv, TendedInv

\* The inductive invariant holds throughout.
LEMMA ClosedAlways == Spec => []IInv
<1>1. TypeOK /\ EarnedInv /\ ClosedInv /\ TendedInv /\ [Next]_vars => ClosedInv' /\ TendedInv'
  BY ClosingInductive, EnvironmentInductive DEF Upheld, ClosedInv, TendedInv
<1>2. TypeOK /\ EarnedInv /\ ClosedInv /\ TendedInv <=> IInv
  BY DEF IInv
<1> QED
  BY TypeCorrect, EarnedAlways, ClosedInitially, <1>1, <1>2, PTL DEF Spec

\* EnvironmentShowsClosedRuns: whatever the pollers, catch blocks and timeouts of any
\* number of runs do, the row is closed before the environment shows its version.
THEOREM EnvironmentShowsClosed == Spec => []EnvironmentShowsClosedRuns
<1>1. IInv => EnvironmentShowsClosedRuns
  BY DEF IInv, ClosedInv
<1> QED
  BY ClosedAlways, <1>1, PTL

\* ClosedStaysClosed: no stale reading is ever written over an outcome.
THEOREM ClosedStays == Spec => ClosedStaysClosed
<1>1. IInv /\ [Next]_vars => \A r \in Runs : StaysClosed(r)
  BY ClosingInductive DEF IInv, Upheld
<1>2. IInv /\ [Next]_vars =>
        [\A r \in Runs : Solo(r) /\ run[r].status \in Terminal => run'[r].status \in Terminal]_vars
  BY <1>1 DEF StaysClosed
<1> QED
  BY ClosedAlways, <1>2, PTL DEF Spec, ClosedStaysClosed

-----------------------------------------------------------------------------
(***************************************************************************)
(* The theorem that DeployRun implements DeployLifecycle.  Every step maps  *)
(* to one of three: the rows and the environment are left alone while more   *)
(* may be earned, one row is written, or the environment is finalized.      *)
(***************************************************************************)

HasRow(r) == run[r].status # "absent"

\* Whoever is about to write a row has created it, or has read it.
Begun(r) ==
    /\ pc[r] \in {"queued", "releasing", "starting", "started", "refused", "closing"} => HasRow(r)
    /\ pc[r] = "request" /\ req[r].driver # "coolify" => HasRow(r)
    /\ poll[r].pc # "off" \/ sim[r] # {} => HasRow(r)

RowsInv ==
    /\ \A r \in Runs : Begun(r)
    /\ \A h \in Handlers : hook[h].pc # "idle" => HasRow(hook[h].run)

\* A step that writes the row of r, and nothing else that the lifecycle sees.
WritesRow(r) ==
    /\ UNCHANGED <<env, ext, vouched>>
    /\ \A q \in Runs \ {r} : run'[q] = run[q]
    /\ run'[r].status \in Status
    /\ HasRow(r) \/ run'[r].status = "queued"

\* A step that finalizes the environment for run r.
WritesEnv(r) ==
    /\ UNCHANGED <<run, req, ext, vouched>>
    /\ \E outcome, c : FinalizeServiceEnv(r, outcome, c)

\* What any step is, as far as the lifecycle goes.
Kind ==
    \/ UNCHANGED <<run, env>>
    \/ \E r \in Runs : WritesRow(r) \/ WritesEnv(r)

LEMMA Kinds == TypeOK /\ RowsInv /\ [Next]_vars => Kind
<1> SUFFICES ASSUME TypeOK, RowsInv, [Next]_vars PROVE Kind
  OBVIOUS
<1> USE DEF Kind, RowsInv, Begun
<1>1. ASSUME NEW r \in Runs, Trigger(r) PROVE Kind
  <2>1. CASE UNCHANGED run
    BY <1>1, <2>1 DEF Trigger
  <2>2. CASE \E c : CreateRun(r, c)
    BY <1>1, <2>2 DEF Trigger, CreateRun, Queued, WritesRow, TypeOK, Status, Open
  <2> QED
    BY <1>1, <2>1, <2>2 DEF Trigger
<1>2. ASSUME NEW r \in Runs, SimBuilding(r) PROVE Kind
  BY <1>2 DEF SimBuilding, UpdateStatus, Updated, WritesRow, TypeOK, Status, Open
<1>3. ASSUME NEW r \in Runs, SimSuccess(r) PROVE Kind
  BY <1>3 DEF SimSuccess, UpdateStatus, Updated, WritesRow, TypeOK, Status, Terminal
<1>4. ASSUME NEW r \in Runs, EcrBegin(r) PROVE Kind
  BY <1>4 DEF EcrBegin, UpdateStatus, Updated, WritesRow, TypeOK, Status, Open
<1>5. ASSUME NEW r \in Runs, EcrReleased(r) PROVE Kind
  BY <1>5 DEF EcrReleased, UpdateStatus, Updated, WritesRow, TypeOK, Status, Open
<1>6. ASSUME NEW r \in Runs, CoolifyAnswered(r) PROVE Kind
  <2>1. CASE UNCHANGED run
    BY <1>6, <2>1 DEF CoolifyAnswered
  <2>2. CASE CreateRun(r, req[r].expected)
    BY <1>6, <2>2 DEF CoolifyAnswered, CreateRun, Queued, WritesRow, TypeOK, Status, Open
  <2> QED
    BY <1>6, <2>1, <2>2 DEF CoolifyAnswered
<1>7. ASSUME NEW r \in Runs, SshBuilding(r) PROVE Kind
  BY <1>7 DEF SshBuilding, UpdateStatus, Updated, WritesRow, TypeOK, Status, Open
<1>8. ASSUME NEW r \in Runs, MarkRefused(r) PROVE Kind
  BY <1>8 DEF MarkRefused, UpdateStatus, Updated, WritesRow, TypeOK, Status, Terminal
<1>9. ASSUME NEW r \in Runs, PollTimeout(r) PROVE Kind
  BY <1>9 DEF PollTimeout, UpdateStatus, Updated, WritesRow, TypeOK, Status, Terminal
<1>10. ASSUME NEW r \in Runs, PollMiss(r) PROVE Kind
  <2>1. CASE UNCHANGED run
    BY <1>10, <2>1 DEF PollMiss
  <2>2. CASE UpdateStatus(r, "failed", NoCommit, NotFoundError)
    BY <1>10, <2>2 DEF PollMiss, UpdateStatus, Updated, WritesRow, TypeOK, Status, Terminal
  <2> QED
    BY <1>10, <2>1, <2>2 DEF PollMiss
<1>11. ASSUME NEW r \in Runs, PollWrite(r) PROVE Kind
  BY <1>11 DEF PollWrite, UpdateStatus, Updated, WritesRow, TypeOK, PollState
<1>12. ASSUME NEW h \in Handlers, HookWrite(h) PROVE Kind
  <2>1. PICK r \in Runs : r = hook[h].run
    BY <1>12 DEF HookWrite, TypeOK
  <2>2. WritesRow(r)
    BY <1>12, <2>1 DEF HookWrite, UpdateStatus, Updated, WritesRow, TypeOK, HookState
  <2> QED
    BY <2>2
<1>13. ASSUME NEW r \in Runs,
              SimFinalize(r) \/ FinalizeRefused(r) \/ PollTimeoutFinalize(r) \/ PollFinalize(r)
       PROVE  Kind
  BY <1>13 DEF SimFinalize, FinalizeRefused, PollTimeoutFinalize, PollFinalize, WritesEnv
<1>14. ASSUME NEW h \in Handlers, HookFinalize(h) PROVE Kind
  <2>1. hook[h].run \in Runs /\ WritesEnv(hook[h].run)
    BY <1>14 DEF HookFinalize, WritesEnv, TypeOK
  <2> QED
    BY <2>1
<1>15. ASSUME NEW r \in Runs,
              \/ SshLaunched(r) \/ PipelineThrows(r) \/ RefusedThrows(r) \/ External(r)
              \/ PollFetch(r) \/ PollRead(r) \/ PollSource(r) \/ PollGate(r) \/ PollThrows(r)
              \/ PollDeadline(r)
       PROVE  UNCHANGED <<run, env>>
  BY <1>15 DEF SshLaunched, PipelineThrows, RefusedThrows, External, CoolifyAccepts, ExtStarts, ExtEnds,
      PollFetch, PollRead, PollSource, PollGate, PollThrows, PollDeadline
<1>16. ASSUME NEW h \in Handlers,
              (\E n \in notes : HookReceive(h, n)) \/ HookGate(h) \/ HookThrows(h)
       PROVE  UNCHANGED <<run, env>>
  BY <1>16 DEF HookReceive, HookGate, HookThrows
<1>17. (\E n \in notes : NoteDropped(n)) \/ Restart \/ UNCHANGED vars => UNCHANGED <<run, env>>
  BY DEF NoteDropped, Restart, vars
<1> QED
  BY <1>1, <1>2, <1>3, <1>4, <1>5, <1>6, <1>7, <1>8, <1>9, <1>10, <1>11, <1>12, <1>13, <1>14,
     <1>15, <1>16, <1>17
  DEF Next, Pipeline, Poller, Webhook

\* Whoever is about to write a row still has it, or has just created it, after any step.
LEMMA RowsInductive == TypeOK /\ EarnedInv /\ RowsInv /\ [Next]_vars => RowsInv'
<1> SUFFICES ASSUME TypeOK, EarnedInv, RowsInv, [Next]_vars PROVE RowsInv'
  OBVIOUS
<1>1. Onward
  BY StepsGoOnward DEF EarnedInv
<1>2. \A q \in Runs : HasRow(q) => HasRow(q)'
  BY Kinds DEF Kind, WritesRow, WritesEnv, HasRow, Status, Open, Terminal
<1>3. \A q \in Runs : /\ pc'[q] = pc[q] \/ pc'[q] \notin {"queued", "releasing", "starting", "started", "refused", "closing", "request"}
                      /\ poll'[q] = poll[q] \/ poll'[q].pc = "off" \/ poll[q].pc # "off"
                      /\ sim'[q] \subseteq sim[q]
                      => Begun(q)'
  BY <1>1, <1>2 DEF RowsInv, Begun, Onward
<1>4. (\A h \in Handlers : \/ hook'[h] = hook[h]
                           \/ hook'[h].pc = "idle"
                           \/ hook[h].pc # "idle" /\ hook'[h].run = hook[h].run)
      => (\A h \in Handlers : hook[h].pc # "idle" => HasRow(hook[h].run))'
  BY <1>2 DEF RowsInv, TypeOK
<1>5. ASSUME NEW r \in Runs, UNCHANGED hook, Begun(r)',
             \A q \in Runs \ {r} : pc'[q] = pc[q] /\ poll'[q] = poll[q] /\ sim'[q] = sim[q]
      PROVE  RowsInv'
  <2>1. \A q \in Runs : Begun(q)'
    BY <1>3, <1>5
  <2> QED
    BY <1>4, <1>5, <2>1 DEF RowsInv
<1>6. ASSUME NEW r \in Runs, Trigger(r) PROVE RowsInv'
  <2>1. Begun(r)'
    BY <1>1, <1>2, <1>6 DEF Trigger, Goto, CreateRun, Queued, Begun, HasRow, Onward, RowsInv, TypeOK
  <2> QED
    BY <1>5, <1>6, <2>1 DEF Trigger, Goto, TypeOK
<1>7. ASSUME NEW r \in Runs, SimBuilding(r) \/ SimSuccess(r) \/ SimFinalize(r) PROVE RowsInv'
  <2>1. Begun(r)'
    BY <1>1, <1>2, <1>7 DEF SimBuilding, SimSuccess, SimFinalize, Begun, Onward, RowsInv, TypeOK
  <2> QED
    BY <1>5, <1>7, <2>1 DEF SimBuilding, SimSuccess, SimFinalize, TypeOK
<1>8. ASSUME NEW r \in Runs, EcrBegin(r) \/ EcrReleased(r) \/ SshLaunched(r) \/ SshBuilding(r) PROVE RowsInv'
  <2>1. Begun(r)'
    BY <1>1, <1>2, <1>8 DEF EcrBegin, EcrReleased, SshLaunched, SshBuilding, Goto, StartPolling, Begun, Onward,
        RowsInv, TypeOK
  <2> QED
    BY <1>5, <1>8, <2>1 DEF EcrBegin, EcrReleased, SshLaunched, SshBuilding, Goto, StartPolling, TypeOK
<1>9. ASSUME NEW r \in Runs, CoolifyAnswered(r) PROVE RowsInv'
  <2>1. HasRow(r)'
    BY <1>2, <1>9 DEF CoolifyAnswered, CreateRun, Queued, HasRow, RowsInv, Begun, TypeOK
  <2> QED
    BY <1>5, <1>9, <2>1 DEF CoolifyAnswered, Goto, StartPolling, Begun, TypeOK
<1>10. ASSUME NEW r \in Runs, PipelineThrows(r) \/ MarkRefused(r) \/ FinalizeRefused(r) \/ RefusedThrows(r) PROVE RowsInv'
  <2>1. Begun(r)'
    BY <1>1, <1>2, <1>10 DEF PipelineThrows, MarkRefused, FinalizeRefused, RefusedThrows, Goto, Begun, Onward,
        RowsInv, TypeOK
  <2> QED
    BY <1>5, <1>10, <2>1 DEF PipelineThrows, MarkRefused, FinalizeRefused, RefusedThrows, Goto, TypeOK
<1>11. ASSUME NEW r \in Runs, Poller(r) \/ PollDeadline(r) PROVE RowsInv'
  <2>1. /\ UNCHANGED <<pc, sim, hook>>
        /\ poll[r].pc # "off"
        /\ \E p : SetPoll(r, p)
    BY <1>11 DEF Poller, PollDeadline, PollTimeout, PollTimeoutFinalize, PollMiss, PollFetch, PollRead,
        PollSource, PollGate, PollWrite, PollFinalize, PollThrows
  <2> QED
    BY <1>3, <1>5, <2>1 DEF SetPoll, TypeOK
<1>12. ASSUME NEW h \in Handlers, NEW n \in notes, HookReceive(h, n) PROVE RowsInv'
  <2>1. HasRow(n.run) /\ n.run \in Runs /\ hook'[h].run = n.run
    BY <1>12 DEF HookReceive, SetHook, Known, HasRow, HookIdle, TypeOK
  <2>2. \A k \in Handlers \ {h} : hook'[k] = hook[k]
    BY <1>12 DEF HookReceive, SetHook, TypeOK
  <2> QED
    BY <1>2, <1>3, <1>12, <2>1, <2>2 DEF HookReceive, RowsInv, TypeOK
<1>13. ASSUME NEW h \in Handlers, HookGate(h) \/ HookWrite(h) \/ HookFinalize(h) \/ HookThrows(h) PROVE RowsInv'
  <2>1. UNCHANGED <<pc, sim, poll>> /\ hook[h].pc # "idle"
    BY <1>13 DEF HookGate, HookWrite, HookFinalize, HookThrows
  <2>2. \E k : SetHook(h, k) /\ (k.pc = "idle" \/ k.run = hook[h].run)
    <3> hook[h] \in HookState
      BY DEF TypeOK
    <3>1. CASE HookGate(h)
      <4>1. PICK status, error :
               SetHook(h, [hook[h] EXCEPT !.pc = "write", !.status = status, !.error = error,
                                         !.expected = NoCommit])
        BY <3>1 DEF HookGate
      <4> DEFINE k == [hook[h] EXCEPT !.pc = "write", !.status = status, !.error = error,
                                      !.expected = NoCommit]
      <4>2. k.run = hook[h].run
        BY DEF HookState
      <4>3. SetHook(h, k)
        BY <4>1
      <4> HIDE DEF k
      <4> QED
        BY <4>2, <4>3
    <3>2. CASE HookWrite(h)
      <4>1. SetHook(h, [hook[h] EXCEPT !.pc = "finalize", !.error = NoError]) \/ SetHook(h, HookIdle)
        BY <3>2 DEF HookWrite
      <4> DEFINE k == [hook[h] EXCEPT !.pc = "finalize", !.error = NoError]
      <4>2. k.run = hook[h].run
        BY DEF HookState
      <4>3. CASE SetHook(h, k)
        <5> HIDE DEF k
        <5> QED
          BY <4>2, <4>3
      <4> QED
        BY <4>1, <4>3 DEF HookIdle
    <3>3. CASE HookFinalize(h) \/ HookThrows(h)
      BY <3>3 DEF HookFinalize, HookThrows, HookIdle
    <3> QED
      BY <1>13, <3>1, <3>2, <3>3
  <2>3. \A k \in Handlers \ {h} : hook'[k] = hook[k]
    BY <2>2 DEF SetHook, TypeOK
  <2>4. hook'[h].pc = "idle" \/ hook'[h].run = hook[h].run
    BY <2>2 DEF SetHook, TypeOK
  <2>5. (\A k \in Handlers : hook[k].pc # "idle" => HasRow(hook[k].run))'
    BY <1>4, <2>1, <2>3, <2>4
  <2>6. \A q \in Runs : Begun(q)'
    BY <1>3, <2>1
  <2> QED
    BY <2>5, <2>6 DEF RowsInv
<1>14. ASSUME (\E r \in Runs : External(r)) \/ (\E n \in notes : NoteDropped(n)) \/ UNCHANGED vars
       PROVE  RowsInv'
  BY <1>3, <1>4, <1>14 DEF RowsInv, External, CoolifyAccepts, ExtStarts, ExtEnds, NoteDropped, vars
<1>15. CASE Restart
  BY <1>3, <1>4, <1>15 DEF RowsInv, Restart, HookIdle, PollOff
<1> QED
  BY <1>6, <1>7, <1>8, <1>9, <1>10, <1>11, <1>12, <1>13, <1>14, <1>15 DEF Next, Pipeline, Webhook

\* At the start nobody is about to write anything.
LEMMA RowsInitially == Init => RowsInv
BY DEF Init, RowsInv, Begun, PollOff, HookIdle

LEMMA RowsAlways == Spec => []RowsInv
BY TypeCorrect, EarnedAlways, RowsInitially, RowsInductive, PTL DEF Spec

-----------------------------------------------------------------------------
(***************************************************************************)
(* A run that webhooks write as well.  They may close it under the poller's *)
(* hands, and a late "started" may open it again; otherwise it is the       *)
(* poller that lets go of it, and only once it has closed.                  *)
(***************************************************************************)

Watched(r) ==
    /\ run[r].status \in Open => poll[r].pc # "off"
    /\ poll[r].pc \in {"finalize", "timeout"} => run[r].status \in Terminal
    /\ poll[r].pc = "gate" /\ poll[r].seen.status \in Terminal => run[r].status \in Terminal

CoolifyRun(r) ==
    req[r].driver = "coolify" =>
        /\ pc[r] \in {"idle", "request", "done", "abandoned", "dead"}
        /\ pc[r] \in {"idle", "request"} => ~HasRow(r)
        /\ poll[r].pc = "gate" => poll[r].mapped \in Terminal
        /\ restarts = 0 /\ r \notin reopened => Watched(r)

WebhookInv == \A r \in Runs : CoolifyRun(r)

\* A closed run that is open after a step was opened by a late "started", or by a poller
\* that goes on polling.
Reopens(r) ==
    req[r].driver # "simulate" /\ run[r].status \in Terminal /\ run'[r].status \notin Terminal
        => r \in reopened' \/ poll'[r].pc # "off"

ReopenedIsTended == [][\A r \in Runs : Reopens(r)]_vars

\* Every step keeps the runs Coolify deploys so: each action in turn.
LEMMA WebhookInductive ==
    IInv /\ RowsInv /\ WebhookInv /\ [Next]_vars => \A q \in Runs : CoolifyRun(q)' /\ Reopens(q)
<1> SUFFICES ASSUME IInv, RowsInv, WebhookInv, [Next]_vars
             PROVE  \A q \in Runs : CoolifyRun(q)' /\ Reopens(q)
  OBVIOUS
<1> DEFINE Fine(q) == CoolifyRun(q)' /\ Reopens(q)
<1> USE DEF Open, Terminal
<1>1. Onward /\ TypeOK
  BY StepsGoOnward DEF IInv, EarnedInv
<1>2. \A q \in Runs : CoolifyRun(q) /\ Begun(q) /\ req'[q].driver = req[q].driver
  BY <1>1 DEF WebhookInv, RowsInv, Onward
<1>3. \A q \in Runs : Solo(q) => Fine(q)
  BY <1>2, ClosingInductive DEF IInv, Upheld, StaysClosed, Solo, CoolifyRun, Reopens
<1>4. \A q \in Runs : req[q].driver = "simulate" => Fine(q)
  BY <1>2 DEF CoolifyRun, Reopens
<1>5. ASSUME NEW q \in Runs, UNCHANGED <<pc[q], run[q], poll[q], restarts>>,
             q \in reopened <=> q \in reopened'
      PROVE  Fine(q)
  BY <1>2, <1>5 DEF CoolifyRun, Watched, Reopens, HasRow
<1>6. \A q \in Runs : req[q].driver # "coolify" => Fine(q)
  BY <1>1, <1>3, <1>4 DEF Solo, TypeOK, AllDrivers
<1> HIDE DEF Fine
<1>7. ASSUME NEW r \in Runs, Trigger(r) \/ PipelineThrows(r) PROVE \A q \in Runs : Fine(q)
  <2>1. CASE req[r].driver = "coolify"
    <3>1. /\ pc'[r] \in {"request", "abandoned"} /\ (pc'[r] = "request" => pc[r] = "idle")
          /\ UNCHANGED <<run, poll, restarts, reopened>>
          /\ \A q \in Runs \ {r} : pc'[q] = pc[q]
      BY <1>1, <1>7, <2>1 DEF Trigger, PipelineThrows, Goto, TypeOK
    <3>2. Fine(r)
      BY <1>2, <2>1, <3>1 DEF Fine, CoolifyRun, Watched, Reopens, HasRow
    <3> QED
      BY <1>5, <3>1, <3>2
  <2>2. CASE req[r].driver # "coolify"
    <3>1. /\ UNCHANGED <<poll, restarts, reopened>>
          /\ \A q \in Runs \ {r} : pc'[q] = pc[q] /\ run'[q] = run[q]
      BY <1>1, <1>7 DEF Trigger, PipelineThrows, Goto, CreateRun, TypeOK
    <3> QED
      BY <1>5, <1>6, <2>2, <3>1
  <2> QED
    BY <2>1, <2>2
<1>8. ASSUME NEW r \in Runs, SimBuilding(r) \/ SimSuccess(r) \/ SimFinalize(r)
      PROVE  \A q \in Runs : Fine(q)
  <2>1. req[r].driver = "simulate"
    BY <1>8 DEF SimBuilding, SimSuccess, SimFinalize, IInv, EarnedInv, SimulateOnly
  <2>2. UNCHANGED <<pc, poll, restarts, reopened>> /\ \A q \in Runs \ {r} : run'[q] = run[q]
    BY <1>1, <1>8 DEF SimBuilding, SimSuccess, SimFinalize, UpdateStatus, TypeOK
  <2> QED
    BY <1>4, <1>5, <2>1, <2>2
<1>9. ASSUME NEW r \in Runs,
             \/ EcrBegin(r) \/ EcrReleased(r) \/ SshLaunched(r) \/ SshBuilding(r)
             \/ MarkRefused(r) \/ FinalizeRefused(r) \/ RefusedThrows(r)
      PROVE  \A q \in Runs : Fine(q)
  <2>1. req[r].driver # "coolify"
    BY <1>2, <1>9 DEF CoolifyRun, EcrBegin, EcrReleased, SshLaunched, SshBuilding, MarkRefused,
       FinalizeRefused, RefusedThrows
  <2>2. /\ UNCHANGED <<restarts, reopened>>
        /\ \A q \in Runs \ {r} : pc'[q] = pc[q] /\ run'[q] = run[q] /\ poll'[q] = poll[q]
    BY <1>1, <1>9 DEF EcrBegin, EcrReleased, SshLaunched, SshBuilding, MarkRefused, FinalizeRefused,
       RefusedThrows, Goto, UpdateStatus, StartPolling, TypeOK
  <2> QED
    BY <1>5, <1>6, <2>1, <2>2
<1>10. ASSUME NEW r \in Runs, CoolifyAnswered(r) PROVE \A q \in Runs : Fine(q)
  <2>1. /\ UNCHANGED <<restarts, reopened>>
        /\ \A q \in Runs \ {r} : pc'[q] = pc[q] /\ run'[q] = run[q] /\ poll'[q] = poll[q]
    BY <1>1, <1>10 DEF CoolifyAnswered, Goto, CreateRun, StartPolling, TypeOK
  <2>2. pc'[r] = "done" /\ poll'[r].pc = "wait"
    BY <1>1, <1>10 DEF CoolifyAnswered, Goto, StartPolling, PollStarted, PollOff, TypeOK
  <2>3. Fine(r)
    BY <1>2, <2>1, <2>2 DEF Fine, CoolifyRun, Watched, Reopens
  <2> QED
    BY <1>5, <2>1, <2>3
<1>11. ASSUME NEW r \in Runs, Poller(r) \/ PollDeadline(r) PROVE \A q \in Runs : Fine(q)
  <2>1. /\ UNCHANGED <<pc, restarts, reopened>> /\ poll[r].pc # "off"
        /\ \A q \in Runs \ {r} : run'[q] = run[q] /\ poll'[q] = poll[q]
    BY <1>1, <1>11 DEF Poller, PollDeadline, PollTimeout, PollTimeoutFinalize, PollMiss, PollFetch,
       PollRead, PollSource, PollGate, PollWrite, PollFinalize, PollThrows, SetPoll, UpdateStatus, TypeOK
  <2>2. CASE req[r].driver # "coolify"
    BY <1>5, <1>6, <2>1, <2>2
  <2>3. CASE req[r].driver = "coolify"
    <3>1. HasRow(r) /\ pc[r] \in {"done", "abandoned", "dead"}
      BY <1>2, <2>1, <2>3 DEF Begun, CoolifyRun
    <3>2. poll[r] \in PollState
      BY <1>1 DEF TypeOK
    <3>3. ASSUME run'[r].status \in Terminal PROVE Fine(r) \/ (poll'[r].pc = "gate" /\ poll'[r].mapped \notin Terminal)
      BY <2>1, <2>3, <3>1, <3>3 DEF Fine, CoolifyRun, Watched, Reopens
    <3>4. ASSUME poll'[r].pc \in {"wait", "read", "write"} PROVE Fine(r)
      BY <2>1, <2>3, <3>1, <3>4 DEF Fine, CoolifyRun, Watched, Reopens
    <3>5. ASSUME PollTimeout(r) PROVE Fine(r)
      <4>1. run'[r].status = "failed" /\ poll'[r].pc = "timeout"
        BY <1>1, <3>5 DEF PollTimeout, UpdateStatus, Updated, SetPoll, PollOff, TypeOK
      <4> QED
        BY <3>3, <4>1
    <3>6. ASSUME PollMiss(r) PROVE Fine(r)
      <4>1. poll'[r].pc = "wait" \/ (poll'[r].pc = "off" /\ run'[r].status = "failed")
        BY <1>1, <3>2, <3>6 DEF PollMiss, UpdateStatus, Updated, SetPoll, PollOff, TypeOK, PollState
      <4> QED
        BY <3>3, <3>4, <4>1
    <3>7. ASSUME PollFetch(r) PROVE Fine(r)
      <4>1. poll'[r].pc = "read"
        BY <1>1, <3>2, <3>7 DEF PollFetch, SetPoll, TypeOK, PollState
      <4> QED
        BY <3>4, <4>1
    <3>8. ASSUME PollThrows(r) PROVE Fine(r)
      <4>1. poll'[r].pc = "wait"
        BY <1>1, <3>8 DEF PollThrows, SetPoll, Rearmed, PollStarted, PollOff, TypeOK
      <4> QED
        BY <3>4, <4>1
    <3>9. ASSUME PollSource(r) PROVE Fine(r)
      BY <2>3, <3>9 DEF PollSource
    <3>10. ASSUME PollRead(r) PROVE Fine(r)
      <4>1. \/ poll'[r].pc = "gate" /\ poll'[r].mapped \in Terminal /\ poll'[r].seen = run[r]
            \/ poll'[r].pc \in {"write", "wait"}
        <5>1. \/ /\ poll[r].mapped \in Terminal
                 /\ SetPoll(r, [poll[r] EXCEPT !.pc = "gate", !.seen = run[r]])
              \/ SetPoll(r, [poll[r] EXCEPT !.pc = "write"])
              \/ SetPoll(r, Rearmed(poll[r]))
          BY <3>10 DEF PollRead
        <5>2. poll \in [Runs -> PollState]
          BY <1>1 DEF TypeOK
        <5>3. ASSUME SetPoll(r, [poll[r] EXCEPT !.pc = "gate", !.seen = run[r]])
              PROVE  poll'[r].pc = "gate" /\ poll'[r].mapped = poll[r].mapped /\ poll'[r].seen = run[r]
          BY <5>2, <5>3 DEF SetPoll, PollState
        <5>4. SetPoll(r, [poll[r] EXCEPT !.pc = "write"]) => poll'[r].pc = "write"
          BY <5>2 DEF SetPoll, PollState
        <5>5. SetPoll(r, Rearmed(poll[r])) => poll'[r].pc = "wait"
          BY <5>2 DEF SetPoll, Rearmed, PollStarted, PollOff
        <5> QED
          BY <5>1, <5>3, <5>4, <5>5
      <4>2. run' = run
        BY <3>10 DEF PollRead
      <4>3. ASSUME poll'[r].pc = "gate" /\ poll'[r].mapped \in Terminal /\ poll'[r].seen = run[r]
            PROVE  Fine(r)
        BY <2>1, <2>3, <3>1, <4>2, <4>3 DEF Fine, CoolifyRun, Watched, Reopens
      <4> QED
        BY <3>4, <4>1, <4>3
    <3>11. ASSUME PollGate(r) PROVE Fine(r)
      <4>1. run' = run /\ poll[r].pc = "gate" /\ poll[r].mapped \in Terminal
        BY <1>2, <2>3, <3>11 DEF PollGate, CoolifyRun
      <4>2. poll'[r].pc = "write" \/ (poll'[r].pc = "off" /\ poll[r].seen.status \in Terminal)
        BY <1>1, <3>2, <3>11, <4>1 DEF PollGate, GateAnswers, SetPoll, PollOff, TypeOK, PollState
      <4>3. ASSUME poll'[r].pc = "off", poll[r].seen.status \in Terminal PROVE Fine(r)
        BY <1>2, <2>1, <2>3, <3>1, <4>1, <4>3 DEF Fine, CoolifyRun, Watched, Reopens
      <4> QED
        BY <3>4, <4>2, <4>3
    <3>12. ASSUME PollWrite(r) PROVE Fine(r)
      <4>1. \/ run'[r].status \in Terminal /\ poll'[r].pc = "finalize"
            \/ poll'[r].pc = "wait"
        BY <1>1, <3>2, <3>12 DEF PollWrite, UpdateStatus, Updated, SetPoll, Rearmed, PollStarted, PollOff,
           TypeOK, PollState
      <4> QED
        BY <3>3, <3>4, <4>1
    <3>13. ASSUME PollTimeoutFinalize(r) \/ PollFinalize(r) PROVE Fine(r)
      <4>1. run' = run /\ poll[r].pc \in {"timeout", "finalize"} /\ poll'[r].pc = "off"
        BY <1>1, <3>13 DEF PollTimeoutFinalize, PollFinalize, SetPoll, PollOff, TypeOK
      <4> QED
        BY <1>2, <2>1, <2>3, <3>1, <4>1 DEF Fine, CoolifyRun, Watched, Reopens
    <3>14. ASSUME PollDeadline(r) PROVE Fine(r)
      <4>1. /\ run' = run /\ poll'[r].pc = poll[r].pc /\ poll'[r].mapped = poll[r].mapped
            /\ poll'[r].seen = poll[r].seen
        BY <1>1, <3>2, <3>14 DEF PollDeadline, SetPoll, TypeOK, PollState
      <4> QED
        BY <1>2, <2>1, <2>3, <3>1, <4>1 DEF Fine, CoolifyRun, Watched, Reopens
    <3>15. Fine(r)
      BY <1>11, <3>5, <3>6, <3>7, <3>8, <3>9, <3>10, <3>11, <3>12, <3>13, <3>14 DEF Poller
    <3> QED
      BY <1>5, <2>1, <3>15
  <2> QED
    BY <2>2, <2>3
<1>12. ASSUME NEW h \in Handlers, HookWrite(h) PROVE \A q \in Runs : Fine(q)
  <2>1. PICK r \in Runs : r = hook[h].run /\ req[r].driver = "coolify" /\ HasRow(r)
    BY <1>12 DEF HookWrite, IInv, EarnedInv, HookReadings, HookSound, TypeOK, RowsInv
  <2>2. /\ UNCHANGED <<pc, poll, restarts>> /\ \A q \in Runs \ {r} : run'[q] = run[q]
        /\ \A q \in Runs \ {r} : q \in reopened <=> q \in reopened'
    BY <1>1, <1>12, <2>1 DEF HookWrite, UpdateStatus, TypeOK
  <2>3. \/ run'[r].status \in Terminal
        \/ /\ run'[r].status \in Open
           /\ reopened' = reopened \cup {q \in {r} : run[q].status \in Terminal}
    BY <1>1, <1>12, <2>1 DEF HookWrite, UpdateStatus, Updated, TypeOK, HookState, Status
  <2>4. run'[r].status \in Status /\ pc[r] \in {"done", "abandoned", "dead"}
    BY <1>2, <2>1, <2>3 DEF CoolifyRun, Status
  <2>5. ASSUME run'[r].status \in Terminal PROVE Fine(r)
    BY <1>2, <2>1, <2>2, <2>4, <2>5 DEF Fine, CoolifyRun, Watched, Reopens
  <2>6. ASSUME run'[r].status \in Open, run[r].status \in Terminal PROVE Fine(r)
    <3>1. r \in reopened'
      BY <2>3, <2>6
    <3> QED
      BY <1>2, <2>1, <2>2, <2>4, <3>1 DEF Fine, CoolifyRun, Reopens
  <2>7. ASSUME run'[r].status \in Open, run[r].status \notin Terminal PROVE Fine(r)
    <3>1. run[r].status \in Open /\ (r \in reopened <=> r \in reopened')
      BY <1>1, <2>1, <2>3, <2>7 DEF HasRow, TypeOK, Row, Status
    <3> QED
      BY <1>2, <2>1, <2>2, <2>4, <2>7, <3>1 DEF Fine, CoolifyRun, Watched, Reopens
  <2>8. Fine(r)
    BY <2>4, <2>5, <2>6, <2>7 DEF Status
  <2> QED
    BY <1>5, <2>2, <2>8
<1>13. CASE Restart
  <2>1. restarts' # 0 /\ run' = run
    BY <1>1, <1>13, BoundsAssumption DEF Restart, TypeOK
  <2>2. \A q \in Runs : poll'[q].pc = "off" /\ (pc'[q] = pc[q] \/ pc'[q] = "dead")
    BY <1>13 DEF Restart, PollOff
  <2> QED
    BY <1>2, <2>1, <2>2 DEF Fine, CoolifyRun, Reopens, HasRow
<1>14. ASSUME \/ \E r \in Runs : External(r)
              \/ \E n \in notes : NoteDropped(n)
              \/ \E h \in Handlers : \/ \E n \in notes : HookReceive(h, n)
                                     \/ HookGate(h) \/ HookFinalize(h) \/ HookThrows(h)
              \/ UNCHANGED vars
       PROVE  \A q \in Runs : Fine(q)
  <2>1. UNCHANGED <<pc, run, poll, restarts, reopened>>
    BY <1>14 DEF External, CoolifyAccepts, ExtStarts, ExtEnds, NoteDropped, HookReceive, HookGate,
       HookFinalize, HookThrows, vars
  <2> QED
    BY <1>5, <2>1
<1> QED
  BY <1>7, <1>8, <1>9, <1>10, <1>11, <1>12, <1>13, <1>14 DEF Next, Pipeline, Webhook, Fine

LEMMA WebhookInitially == Init => WebhookInv
BY DEF Init, WebhookInv, CoolifyRun, Watched, HasRow, PollOff, Absent, Open

LEMMA WebhookAlways == Spec => []WebhookInv
<1>1. IInv /\ RowsInv /\ WebhookInv /\ [Next]_vars => WebhookInv'
  BY WebhookInductive DEF WebhookInv
<1> QED
  BY ClosedAlways, RowsAlways, WebhookInitially, <1>1, PTL DEF Spec

\* OpenIsTended: until the process restarts, no path through the pipelines, pollers and
\* webhooks leaves an open run behind, but for a late "started" (handleCoolifyNotification).
THEOREM OpenTended == Spec => []OpenIsTended
<1>1. IInv /\ WebhookInv => OpenIsTended
  BY DEF IInv, TypeOK, AllDrivers, TendedInv, Kept, Solo, WebhookInv, CoolifyRun, Watched, Tended,
     OpenIsTended
<1> QED
  BY ClosedAlways, WebhookAlways, <1>1, PTL

\* pollCoolifyDeployment and handleCoolifyNotification write the same row without looking at
\* each other: a poller that writes an old "building" over an outcome goes on polling, so
\* only a late "started" opens a closed run for good.
THEOREM ReopenedTended == Spec => ReopenedIsTended
<1>1. IInv /\ RowsInv /\ WebhookInv /\ [Next]_vars => [\A r \in Runs : Reopens(r)]_vars
  BY WebhookInductive
<1> QED
  BY ClosedAlways, RowsAlways, WebhookAlways, <1>1, PTL DEF Spec, ReopenedIsTended

-----------------------------------------------------------------------------

\* At the start nothing has been earned, and no row or version exists.
LEMMA LifecycleInit == Init => Lifecycle!Init
<1> SUFFICES ASSUME Init PROVE Lifecycle!Init
  OBVIOUS
<1>1. StatusOf = [r \in Runs |-> "absent"]
  BY DEF StatusOf, Init, Absent
<1>2. EarnedBy \in SUBSET Runs /\ SoloRuns \in SUBSET Runs
  BY DEF EarnedBy, SoloRuns
<1>3. env.tag = NoRun /\ (env.status = "active") = FALSE
  BY DEF Init
<1> QED
  BY <1>1, <1>2, <1>3 DEF Lifecycle!Init

\* Every step of the detailed specification is one of the lifecycle, or a stutter.
LEMMA LifecycleStep ==
    IInv /\ RowsInv /\ [Next]_vars => [Lifecycle!Next]_(Lifecycle!vars)
<1> SUFFICES ASSUME IInv, RowsInv, [Next]_vars PROVE Lifecycle!Next \/ UNCHANGED Lifecycle!vars
  BY DEF Lifecycle!vars
<1> USE DEF IInv
<1>1. Onward
  BY StepsGoOnward DEF EarnedInv
<1>2. EarnedBy \subseteq EarnedBy' /\ EarnedBy' \subseteq Runs
  BY <1>1, Undisturbed DEF EarnedBy
<1>3. SoloRuns' = SoloRuns
  BY <1>1 DEF SoloRuns, Solo, Onward
<1>4. UNCHANGED <<ext, vouched>> => EarnedBy' = EarnedBy
  BY <1>1 DEF EarnedBy, Earned, Onward
<1>5. SuccessIsEarned' /\ ActiveIsEarned'
  BY EarnedInductive DEF EarnedInv
<1>6. EnvironmentShowsClosedRuns' /\ \A r \in Runs : StaysClosed(r)
  BY EnvironmentInductive, ClosingInductive DEF Upheld
<1>7. CASE UNCHANGED <<run, env>>
  <2>1. UNCHANGED <<StatusOf, env.tag, (env.status = "active")>>
    BY <1>7 DEF StatusOf
  <2> QED
    BY <1>2, <1>3, <2>1 DEF Lifecycle!Next, Lifecycle!Earn
<1>8. ASSUME NEW r \in Runs, WritesRow(r) PROVE Lifecycle!Next
  <2> DEFINE s == run'[r].status
  <2>1. StatusOf' = [StatusOf EXCEPT ![r] = s]
    BY <1>8 DEF StatusOf, WritesRow
  <2>2. UNCHANGED <<EarnedBy, SoloRuns, env.tag, (env.status = "active")>>
    BY <1>3, <1>4, <1>8 DEF WritesRow
  <2>3. CASE ~HasRow(r)
    <3>1. Lifecycle!Create(r)
      BY <1>8, <2>1, <2>2, <2>3 DEF Lifecycle!Create, HasRow, WritesRow, StatusOf
    <3> QED
      BY <3>1 DEF Lifecycle!Next
  <2>4. CASE HasRow(r)
    <3>1. s \in Lifecycle!Open \cup Lifecycle!Terminal
      BY <1>8 DEF WritesRow, Status, Open, Terminal, Lifecycle!Open, Lifecycle!Terminal
    <3>2. s = "success" => r \in EarnedBy
      BY <1>5, <2>2 DEF SuccessIsEarned, EarnedBy
    <3>3. r \in SoloRuns /\ StatusOf[r] \in Lifecycle!Terminal => s \in Lifecycle!Terminal
      BY <1>6 DEF SoloRuns, StatusOf, StaysClosed, Terminal, Lifecycle!Terminal
    <3>4. Lifecycle!Record(r, s)
      BY <2>1, <2>2, <2>4, <3>2, <3>3 DEF Lifecycle!Record, HasRow, StatusOf
    <3> QED
      BY <3>1, <3>4 DEF Lifecycle!Next
  <2> QED
    BY <2>3, <2>4
<1>9. ASSUME NEW r \in Runs, WritesEnv(r), ~UNCHANGED env PROVE Lifecycle!Next
  <2>1. env'.tag = r /\ UNCHANGED <<run, ext, vouched>>
    BY <1>9 DEF WritesEnv, FinalizeServiceEnv
  <2>2. StatusOf' = StatusOf /\ EarnedBy' = EarnedBy
    BY <1>4, <2>1 DEF StatusOf
  <2>3. r \in SoloRuns => StatusOf[r] \in Lifecycle!Terminal
    BY <1>3, <1>6, <2>1 DEF EnvironmentShowsClosedRuns, SoloRuns, StatusOf, Terminal, Lifecycle!Terminal
  <2>4. (env'.status = "active") \in BOOLEAN /\ (env'.status = "active" => r \in EarnedBy)
    BY <1>5, <2>1, <2>2 DEF ActiveIsEarned, EarnedBy
  <2>5. Lifecycle!Show(r)
    BY <1>3, <2>1, <2>2, <2>3, <2>4 DEF Lifecycle!Show
  <2> QED
    BY <2>5 DEF Lifecycle!Next
<1>10. ASSUME NEW r \in Runs, WritesEnv(r), UNCHANGED env PROVE UNCHANGED <<run, env>>
  BY <1>10 DEF WritesEnv
<1> QED
  BY Kinds, <1>7, <1>8, <1>9, <1>10 DEF Kind

\* ImplementsLifecycle: for any number of runs, handlers, misses and restarts, pipelines,
\* pollers, webhooks and timers together do only what the lifecycle of a run allows.
THEOREM LifecycleImplemented == Spec => ImplementsLifecycle
<1>1. IInv /\ RowsInv /\ [Next]_vars => [Lifecycle!Next]_(Lifecycle!vars)
  BY LifecycleStep
<1> QED
  BY LifecycleInit, ClosedAlways, RowsAlways, <1>1, PTL DEF Spec, ImplementsLifecycle, Lifecycle!Spec

=============================================================================
