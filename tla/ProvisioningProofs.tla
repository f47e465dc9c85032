------------------------- MODULE ProvisioningProofs -------------------------
(***************************************************************************)
(* Proofs about Provisioning: what is true of the rows and of Coolify for   *)
(* any number of calls and environments.                                   *)
(***************************************************************************)
EXTENDS Provisioning, FiniteSetTheorems, TLAPS

-----------------------------------------------------------------------------
(***************************************************************************)
(* The inductive invariant.                                                *)
(***************************************************************************)

\* An application made for e, in an environment of that name.
AppOf(a, e) ==
    /\ a.env = e
    /\ a.project \in projects
    /\ [by |-> a.place, project |-> a.project, name |-> e] \in places

HasApp(uuid, e) == \E a \in apps : a.by = uuid /\ AppOf(a, e)

\* What a row remembers was made.
Remembered ==
    \A e \in Environments :
        /\ target[e].app # None => HasApp(target[e].app, e)
        /\ target[e].status = "ready" => target[e].app # None

Placed == {"key", "storeKey", "github", "reuse", "app", "store"}

\* What a call has made or found by the time it is at a step.
JobInv(h) ==
    /\ job[h].pc \in {"places", "place"} \cup Placed => job[h].project \in projects
    /\ job[h].pc \in Placed =>
           [by |-> job[h].place, project |-> job[h].project, name |-> job[h].env] \in places
    /\ job[h].pc = "store" => HasApp(h, job[h].env)
    /\ job[h].pc \in Underway /\ job[h].app # None => target[job[h].env].app # None
    /\ job[h].pc = "reuse" => job[h].app # None
    /\ job[h].pc \in {"storeKey", "github"} => job[h].key # None

\* Every environment is in a project that was made.
PlacesInProjects == \A p \in places : p.project \in projects

\* As long as no calls crossed, a call that is about to make something is the only one
\* and there is no such thing yet.
Alone ==
    ~crossed =>
        /\ \A g, h \in Calls : job[g].pc \in Underway /\ job[h].pc \in Underway => g = h
        /\ \A h \in Calls : job[h].pc = "project" => projects = {}
        /\ \A h \in Calls : job[h].pc = "place" =>
               \A p \in places : ~(p.project = job[h].project /\ p.name = job[h].env)

OneOfAKind ==
    ~crossed => /\ \A p, q \in projects : p = q
                /\ \A p, q \in places : p.name = q.name => p = q

IInv ==
    /\ TypeOK
    /\ Remembered
    /\ \A h \in Calls : JobInv(h)
    /\ PlacesInProjects
    /\ Alone
    /\ OneOfAKind
    /\ ProvisioningIsTended

-----------------------------------------------------------------------------
(***************************************************************************)
(* Types.                                                                  *)
(***************************************************************************)

JobsOK == job \in [Calls -> Job] /\ \A h \in Calls : job[h].pc # "idle" => job[h].env \in Environments

\* A call that is written anew with its type leaves the others theirs.
LEMMA JobWritten ==
    ASSUME JobsOK, NEW h \in Calls, NEW j \in Job, j.pc # "idle" => j.env \in Environments,
           SetJob(h, j)
    PROVE  JobsOK'
BY DEF JobsOK, SetJob

\* The forms in which a step rewrites its call keep the type.
LEMMA JobShapes ==
    ASSUME NEW j \in Job, j.pc # "idle", j.env \in Environments, NEW u \in Optional, NEW v \in Optional
    PROVE  /\ \A pc \in {"done", "failed", "abandoned"} \cup Underway :
                  /\ [j EXCEPT !.pc = pc] \in Job /\ [j EXCEPT !.pc = pc].env = j.env
                  /\ [j EXCEPT !.pc = pc, !.key = u, !.app = v] \in Job
                  /\ [j EXCEPT !.pc = pc, !.project = u] \in Job
                  /\ [j EXCEPT !.pc = pc, !.key = u] \in Job
                  /\ [j EXCEPT !.pc = pc, !.app = u] \in Job
           /\ AfterKey(j) \in Job /\ AfterKey(j).env = j.env
           /\ AfterPlace([j EXCEPT !.place = u]) \in Job
           /\ AfterPlace([j EXCEPT !.place = u]).env = j.env
<1>1. /\ AfterKey(j) \in Job /\ AfterKey(j).env = j.env
  BY DEF AfterKey, Job, Underway, Trying
<1>2. [j EXCEPT !.place = u] \in Job
  BY DEF Job
<1>3. /\ AfterPlace([j EXCEPT !.place = u]) \in Job
      /\ AfterPlace([j EXCEPT !.place = u]).env = j.env
  BY <1>2 DEF AfterPlace, AfterKey, Job, Underway, Trying
<1> QED
  BY <1>1, <1>3 DEF Job

LEMMA TypeInitially == Init => TypeOK
<1> SUFFICES ASSUME Init PROVE TypeOK
  OBVIOUS
<1>1. Idle \in Job
  BY DEF Idle, Job, Optional
<1>2. crossed \in BOOLEAN
  BY DEF Init
<1> QED
  BY <1>1, <1>2 DEF Init, TypeOK, Target, Idle, Optional

\* That a call makes what it does of something made depends on JobInv.
LEMMA TypeStep == TypeOK /\ (\A h \in Calls : JobInv(h)) /\ [Next]_vars => TypeOK'
<1> SUFFICES ASSUME TypeOK, \A h \in Calls : JobInv(h), [Next]_vars PROVE TypeOK'
  OBVIOUS
<1>1. JobsOK /\ (JobsOK' /\ UNCHANGED <<target, projects, places, github, apps, crossed>> => TypeOK')
  BY DEF TypeOK, JobsOK
<1>2. ASSUME NEW h \in Calls, job[h].pc # "idle"
      PROVE  /\ job[h] \in Job /\ job[h].env \in Environments
             /\ Row(h) \in Target
             /\ \A row \in Target : SetRow(h, row) => target' \in [Environments -> Target]
  BY <1>2 DEF TypeOK, Row, SetRow
<1>3. ASSUME NEW h \in Calls, job[h].pc # "idle",
             NEW pc \in {"done", "failed", "abandoned"} \cup Underway, Goto(h, pc)
      PROVE  JobsOK'
  <2>1. SetJob(h, [job[h] EXCEPT !.pc = pc])
    BY <1>3 DEF Goto, SetJob
  <2> QED
    BY <1>1, <1>2, <1>3, <2>1, JobShapes, JobWritten DEF Optional
<1>4. ASSUME NEW h \in Calls, job[h].pc # "idle", NEW next \in Job, next.env = job[h].env,
             Answered(h, next)
      PROVE  JobsOK'
  <2>1. [job[h] EXCEPT !.pc = "catch"] \in Job /\ [job[h] EXCEPT !.pc = "catch"].env = job[h].env
    BY <1>2, <1>4, JobShapes DEF Optional, Underway
  <2> QED
    BY <1>1, <1>2, <1>4, <2>1, JobWritten DEF Answered
<1>5. ASSUME NEW h \in Calls, Call(h) PROVE TypeOK'
  <2>1. PICK e \in Environments, private \in BOOLEAN :
           SetJob(h, [Idle EXCEPT !.env = e, !.private = private,
                                  !.pc = IF target[e].status = "ready" /\ target[e].app # None
                                         THEN "done" ELSE "upsert"])
    BY <1>5 DEF Call
  <2>2. JobsOK'
    BY <1>1, <2>1, JobWritten DEF Idle, Job, Optional, Underway
  <2>3. crossed' \in BOOLEAN
    BY <1>5 DEF Call
  <2> QED
    BY <1>5, <2>2, <2>3 DEF Call, TypeOK, JobsOK
<1>6. ASSUME NEW h \in Calls, Upsert(h) PROVE TypeOK'
  <2>1. job[h].pc # "idle" /\ Row(h).key \in Optional /\ Row(h).app \in Optional
    BY <1>2, <1>6 DEF Upsert, Target
  <2> DEFINE pc == IF job[h].private THEN "secret" ELSE "server"
             j == [job[h] EXCEPT !.pc = pc, !.key = Row(h).key, !.app = Row(h).app]
  <2>4. pc \in {"done", "failed", "abandoned"} \cup Underway
    BY DEF Underway, Trying
  <2>5. j \in Job
    BY <1>2, <2>1, <2>4, JobShapes
  <2>6. j.env = job[h].env
    BY <1>2, <2>1 DEF Job
  <2>2. JobsOK'
    BY <1>1, <1>2, <1>6, <2>1, <2>5, <2>6, JobWritten DEF Upsert
  <2>3. target' \in [Environments -> Target]
    BY <1>2, <1>6, <2>1 DEF Upsert, Target
  <2> QED
    BY <1>6, <2>2, <2>3 DEF Upsert, TypeOK, JobsOK
<1>7. ASSUME NEW h \in Calls, SecretStored(h) \/ ThrowsEarly(h) \/ Throws(h) \/ CatchThrows(h)
      PROVE  TypeOK'
  BY <1>1, <1>3, <1>7 DEF SecretStored, ThrowsEarly, Throws, CatchThrows, Underway, Trying
<1>8. ASSUME NEW h \in Calls, FindProject(h) PROVE TypeOK'
  <2>1. ASSUME NEW p \in projects, SetJob(h, [job[h] EXCEPT !.pc = "places", !.project = p])
        PROVE  JobsOK'
    <3>1. p \in Optional /\ "places" \in Underway
      BY DEF TypeOK, Optional, Underway, Trying
    <3>2. /\ [job[h] EXCEPT !.pc = "places", !.project = p] \in Job
          /\ [job[h] EXCEPT !.pc = "places", !.project = p].env = job[h].env
      BY <1>2, <1>8, <3>1, JobShapes DEF FindProject, Job
    <3> QED
      BY <1>1, <1>2, <1>8, <2>1, <3>2, JobWritten DEF FindProject
  <2>2. JobsOK'
    BY <1>3, <1>8, <2>1 DEF FindProject, Underway, Trying
  <2> QED
    BY <1>1, <1>8, <2>2 DEF FindProject
<1>9. ASSUME NEW h \in Calls, CreateProject(h) PROVE TypeOK'
  <2>1. /\ [job[h] EXCEPT !.pc = "places", !.project = h] \in Job
        /\ [job[h] EXCEPT !.pc = "places", !.project = h].env = job[h].env
    <3>1. job[h].pc # "idle" /\ h \in Optional /\ "places" \in Underway
      BY <1>9 DEF CreateProject, Optional, Underway, Trying
    <3>2. [job[h] EXCEPT !.pc = "places", !.project = h] \in Job
      BY <1>2, <3>1, JobShapes
    <3>3. [job[h] EXCEPT !.pc = "places", !.project = h].env = job[h].env
      BY <1>2, <3>1 DEF Job
    <3> QED
      BY <3>2, <3>3
  <2>2. JobsOK'
    BY <1>4, <1>9, <2>1 DEF CreateProject
  <2> QED
    BY <1>9, <2>2 DEF CreateProject, TypeOK, JobsOK
<1>10. ASSUME NEW h \in Calls, FindPlace(h) PROVE TypeOK'
  <2>1. ASSUME NEW p \in places, SetJob(h, AfterPlace([job[h] EXCEPT !.place = p.by]))
        PROVE  JobsOK'
    <3>1. p.by \in Optional
      BY DEF TypeOK, Place, Optional
    <3> QED
      BY <1>1, <1>2, <1>10, <2>1, <3>1, JobShapes, JobWritten DEF FindPlace
  <2>2. JobsOK'
    BY <1>3, <1>10, <2>1 DEF FindPlace, Underway, Trying
  <2> QED
    BY <1>1, <1>10, <2>2 DEF FindPlace
<1>11. ASSUME NEW h \in Calls, CreatePlace(h) PROVE TypeOK'
  <2>1. job[h].project \in Calls
    BY <1>11 DEF CreatePlace, JobInv, TypeOK
  <2>2. JobsOK'
    BY <1>2, <1>4, <1>11, JobShapes DEF CreatePlace, Optional
  <2>3. places' \subseteq Place
    BY <1>2, <1>11, <2>1 DEF CreatePlace, TypeOK, Place
  <2> QED
    BY <1>11, <2>2, <2>3 DEF CreatePlace, TypeOK, JobsOK
<1>12. ASSUME NEW h \in Calls, CreateKey(h) PROVE TypeOK'
  <2>1. job[h].pc # "idle" /\ h \in Optional /\ "storeKey" \in Underway
    BY <1>12 DEF CreateKey, Optional, Underway, Trying
  <2>2. [job[h] EXCEPT !.pc = "storeKey", !.key = h] \in Job
    BY <1>2, <2>1, JobShapes
  <2>3. [job[h] EXCEPT !.pc = "storeKey", !.key = h].env = job[h].env
    BY <1>2, <2>1 DEF Job
  <2>4. JobsOK'
    BY <1>4, <1>12, <2>1, <2>2, <2>3 DEF CreateKey
  <2> QED
    BY <1>1, <1>12, <2>4 DEF CreateKey
<1>13. ASSUME NEW h \in Calls, StoreKey(h) PROVE TypeOK'
  <2>1. job[h].pc # "idle" /\ Row(h).app \in Optional /\ "github" \in Underway
    BY <1>2, <1>13 DEF StoreKey, Target, Underway, Trying
  <2>2. [job[h] EXCEPT !.pc = "github", !.app = Row(h).app] \in Job
    BY <1>2, <2>1, JobShapes
  <2>3. [job[h] EXCEPT !.pc = "github", !.app = Row(h).app].env = job[h].env
    BY <1>2, <2>1 DEF Job
  <2>4. JobsOK'
    BY <1>1, <1>2, <1>13, <2>1, <2>2, <2>3, JobWritten DEF StoreKey
  <2>5. target' \in [Environments -> Target]
    BY <1>2, <1>13, <2>1 DEF StoreKey, Target, Job
  <2> QED
    BY <1>13, <2>4, <2>5 DEF StoreKey, TypeOK, JobsOK
<1>14. ASSUME NEW h \in Calls, AddDeployKey(h) PROVE TypeOK'
  <2>1. job[h].key \in Calls
    BY <1>2, <1>14 DEF AddDeployKey, JobInv, Job, Optional
  <2>2. JobsOK'
    BY <1>2, <1>4, <1>14, JobShapes DEF AddDeployKey, Optional
  <2> QED
    BY <1>14, <2>1, <2>2 DEF AddDeployKey, TypeOK, JobsOK
<1>15. ASSUME NEW h \in Calls, Reuse(h) PROVE TypeOK'
  <2>1. JobsOK'
    BY <1>3, <1>15 DEF Reuse
  <2>2. target' \in [Environments -> Target]
    BY <1>2, <1>15 DEF Reuse, Target
  <2> QED
    BY <1>15, <2>1, <2>2 DEF Reuse, TypeOK, JobsOK
<1>16. ASSUME NEW h \in Calls, CreateApp(h) PROVE TypeOK'
  <2>1. /\ job[h].project \in Calls /\ job[h].place \in Calls
        /\ job[h].env \in Environments /\ job[h].key \in Optional
    BY <1>2, <1>16 DEF CreateApp, JobInv, Placed, TypeOK, Place, Job
  <2>2. [job[h] EXCEPT !.pc = "store"] \in Job /\ [job[h] EXCEPT !.pc = "store"].env = job[h].env
    BY <1>2, <1>16, JobShapes DEF CreateApp, Optional, Underway, Trying
  <2>3. JobsOK'
    BY <1>4, <1>16, <2>2 DEF CreateApp
  <2>4. apps' \subseteq App
    BY <1>16, <2>1 DEF CreateApp, TypeOK, App, Optional
  <2> QED
    BY <1>16, <2>3, <2>4 DEF CreateApp, TypeOK, JobsOK
<1>17. ASSUME NEW h \in Calls, Store(h) PROVE TypeOK'
  <2>1. JobsOK'
    BY <1>3, <1>17 DEF Store
  <2>2. target' \in [Environments -> Target]
    BY <1>2, <1>17 DEF Store, Target, Job, Optional
  <2> QED
    BY <1>17, <2>1, <2>2 DEF Store, TypeOK, JobsOK
<1>18. ASSUME NEW h \in Calls, Catch(h) PROVE TypeOK'
  <2>1. JobsOK'
    BY <1>3, <1>18 DEF Catch
  <2>2. target' \in [Environments -> Target]
    BY <1>2, <1>18 DEF Catch, Target
  <2> QED
    BY <1>18, <2>1, <2>2 DEF Catch, TypeOK, JobsOK
<1>19. CASE Restart
  <2>1. ASSUME NEW h \in Calls
        PROVE  /\ job'[h] \in Job
               /\ job'[h].pc # "idle" => job'[h].env \in Environments
    <3>1. job[h].pc # "idle" => [job[h] EXCEPT !.pc = "abandoned"] \in Job
                                /\ [job[h] EXCEPT !.pc = "abandoned"].env = job[h].env
      BY <1>2, JobShapes DEF Optional
    <3>2. job[h] \in Job /\ (job[h].pc # "idle" => job[h].env \in Environments)
      BY <1>1 DEF JobsOK
    <3>3. "idle" \notin Underway
      BY DEF Underway, Trying
    <3> QED
      BY <1>19, <3>1, <3>2, <3>3 DEF Restart
  <2>2. JobsOK'
    BY <1>19, <2>1 DEF Restart, JobsOK
  <2> QED
    BY <1>1, <1>19, <2>2 DEF Restart
<1>20. CASE UNCHANGED vars
  BY <1>20 DEF vars, TypeOK
<1> QED
  BY <1>5, <1>6, <1>7, <1>8, <1>9, <1>10, <1>11, <1>12, <1>13, <1>14, <1>15, <1>16, <1>17,
     <1>18, <1>19, <1>20 DEF Next, Step

-----------------------------------------------------------------------------
(***************************************************************************)
(* The step.                                                               *)
(***************************************************************************)

\* What was made is never unmade, nor forgotten by a row.
Onward ==
    /\ projects \subseteq projects' /\ places \subseteq places' /\ apps \subseteq apps'
    /\ \A e \in Environments : target[e].app # None => target'[e].app # None

LEMMA HasAppKept ==
    ASSUME Onward, NEW u, NEW e, HasApp(u, e)
    PROVE  HasApp(u, e)'
BY DEF Onward, HasApp, AppOf

\* A call that does not move is right about what it made.
LEMMA Bystander ==
    ASSUME TypeOK, Onward, NEW h \in Calls, JobInv(h), job'[h] = job[h]
    PROVE  JobInv(h)'
<1>1. job[h].pc \in Underway => job[h].env \in Environments
  BY DEF TypeOK, Underway, Trying
<1> QED
  BY <1>1, HasAppKept DEF Onward, JobInv

\* A step that writes the row of one environment, or none, and keeps what it remembers.
LEMMA RowsKept ==
    ASSUME TypeOK, Onward, Remembered,
           \A e \in Environments : target'[e].app = target[e].app
                               /\ (target'[e].status = "ready" => target[e].app # None)
    PROVE  Remembered'
BY HasAppKept DEF Remembered

\* As long as no calls crossed, only the call that moves can make Alone false.
LEMMA AloneKept ==
    ASSUME TypeOK, Alone, NEW h \in Calls, job[h].pc \in Underway, crossed' = crossed,
           \A g \in Calls : g # h => job'[g] = job[g],
           ~crossed /\ job'[h].pc = "project" => projects' = {},
           ~crossed /\ job'[h].pc = "place" =>
               \A p \in places' : ~(p.project = job'[h].project /\ p.name = job'[h].env)
    PROVE  Alone'
BY DEF Alone, Underway, Trying

\* A row that says "provisioning" keeps the call it had.
LEMMA TendedKept ==
    ASSUME TypeOK, ProvisioningIsTended, NEW h \in Calls, job[h].pc \in Underway,
           job'[h].env = job[h].env, \A g \in Calls : g # h => job'[g] = job[g],
           \A e \in Environments : e # job[h].env => target'[e] = target[e],
           target'[job[h].env].status = "provisioning" => job'[h].pc \in Underway \cup {"abandoned"}
    PROVE  ProvisioningIsTended'
<1> SUFFICES ASSUME NEW e \in Environments, target'[e].status = "provisioning"
             PROVE  \E g \in Calls : job'[g].env = e /\ job'[g].pc \in Underway \cup {"abandoned"}
  BY DEF ProvisioningIsTended
<1>1. CASE e = job[h].env
  BY <1>1
<1>2. CASE e # job[h].env
  BY <1>2 DEF ProvisioningIsTended
<1> QED
  BY <1>1, <1>2

\* A step of one call that makes nothing and writes no row.
LEMMA QuietStep ==
    ASSUME IInv, TypeOK', NEW h \in Calls, job[h].pc \in Underway,
           UNCHANGED <<target, projects, places, apps, crossed>>,
           job'[h].env = job[h].env, \A g \in Calls : g # h => job'[g] = job[g],
           job'[h].pc \in Underway \cup {"abandoned"}, JobInv(h)',
           job'[h].pc = "project" => projects = {},
           job'[h].pc = "place" =>
               \A p \in places : ~(p.project = job'[h].project /\ p.name = job'[h].env)
    PROVE  IInv'
<1>1. Onward
  BY DEF Onward
<1>2. \A g \in Calls : JobInv(g)'
  BY <1>1, Bystander DEF IInv
<1>3. Remembered'
  BY <1>1, RowsKept DEF IInv, Remembered
<1>4. Alone'
  BY AloneKept DEF IInv
<1>5. ProvisioningIsTended'
  BY TendedKept DEF IInv
<1>6. PlacesInProjects' /\ OneOfAKind'
  BY DEF IInv, PlacesInProjects, OneOfAKind
<1> QED
  BY <1>2, <1>3, <1>4, <1>5, <1>6 DEF IInv

\* A step of one call that writes its row, but makes nothing in Coolify.
LEMMA RowStep ==
    ASSUME IInv, TypeOK', NEW h \in Calls, job[h].pc \in Underway, NEW row,
           UNCHANGED <<projects, places, apps, crossed>>, SetRow(h, row),
           job'[h].env = job[h].env, \A g \in Calls : g # h => job'[g] = job[g],
           row.status = "provisioning" => job'[h].pc \in Underway \cup {"abandoned"},
           Row(h).app # None => row.app # None,
           row.app # None => HasApp(row.app, job[h].env),
           row.status = "ready" => row.app # None,
           job'[h].pc \notin {"project", "place"},
           Onward => JobInv(h)'
    PROVE  IInv'
<1>1. job[h].env \in Environments
  BY DEF IInv, TypeOK, Underway, Trying
<1>2. /\ target'[job[h].env] = row
      /\ \A e \in Environments : e # job[h].env => target'[e] = target[e]
  BY <1>1 DEF IInv, TypeOK, SetRow
<1>3. Onward
  BY <1>2 DEF Onward, Row
<1>4. \A g \in Calls : JobInv(g)'
  BY <1>3, Bystander DEF IInv
<1>5. Remembered'
  <2>1. ASSUME NEW e \in Environments, NEW u, u = target'[e].app
        PROVE  /\ u # None => HasApp(u, e)'
               /\ target'[e].status = "ready" => u # None
    <3>1. CASE e = job[h].env
      BY <1>2, <1>3, <2>1, <3>1, HasAppKept
    <3>2. CASE e # job[h].env
      BY <1>2, <1>3, <2>1, <3>2, HasAppKept DEF IInv, Remembered
    <3> QED
      BY <3>1, <3>2
  <2> QED
    BY <2>1 DEF Remembered, HasApp, AppOf
<1>6. Alone'
  BY AloneKept DEF IInv
<1>7. ProvisioningIsTended'
  BY <1>2, TendedKept DEF IInv
<1>8. PlacesInProjects' /\ OneOfAKind'
  BY DEF IInv, PlacesInProjects, OneOfAKind
<1> QED
  BY <1>4, <1>5, <1>6, <1>7, <1>8 DEF IInv

\* A step of one call that makes something, and writes no row.
LEMMA MakingStep ==
    ASSUME IInv, TypeOK', NEW h \in Calls, job[h].pc \in Underway, UNCHANGED <<target, crossed>>,
           projects \subseteq projects', places \subseteq places', apps \subseteq apps',
           job'[h].env = job[h].env, \A g \in Calls : g # h => job'[g] = job[g],
           job'[h].pc \in Underway \ {"project", "place"},
           JobInv(h)', PlacesInProjects', OneOfAKind'
    PROVE  IInv'
<1>1. Onward
  BY DEF Onward
<1>2. \A g \in Calls : JobInv(g)'
  BY <1>1, Bystander DEF IInv
<1>3. Remembered'
  BY <1>1, RowsKept DEF IInv, Remembered
<1>4. Alone'
  BY AloneKept DEF IInv
<1>5. ProvisioningIsTended'
  BY TendedKept DEF IInv
<1> QED
  BY <1>2, <1>3, <1>4, <1>5 DEF IInv

LEMMA IInvInitially == Init => IInv
<1> SUFFICES ASSUME Init PROVE IInv
  OBVIOUS
<1>1. \A h \in Calls : job[h].pc = "idle"
  BY DEF Init, Idle
<1>2. \A h \in Calls : JobInv(h)
  BY <1>1 DEF JobInv, Placed, Underway, Trying
<1>3. Remembered /\ PlacesInProjects /\ OneOfAKind /\ ProvisioningIsTended
  BY DEF Init, Remembered, PlacesInProjects, OneOfAKind, ProvisioningIsTended
<1>4. Alone
  BY <1>1 DEF Alone, Underway, Trying
<1> QED
  BY <1>2, <1>3, <1>4, TypeInitially DEF IInv

LEMMA IInvStep == IInv /\ [Next]_vars => IInv'
<1> SUFFICES ASSUME IInv, [Next]_vars PROVE IInv'
  OBVIOUS
<1>1. TypeOK /\ TypeOK' /\ (\A h \in Calls : JobInv(h))
  BY TypeStep DEF IInv
<1>2. ASSUME NEW h \in Calls, job[h].pc # "idle"
      PROVE  job[h] \in Job /\ job[h].env \in Environments /\ Row(h) \in Target
  BY <1>1, <1>2 DEF TypeOK, Row
<1>3. ASSUME NEW h \in Calls, NEW j, SetJob(h, j)
      PROVE  job'[h] = j /\ \A g \in Calls : g # h => job'[g] = job[g]
  BY <1>1, <1>3 DEF SetJob, TypeOK
<1>4. ASSUME NEW h \in Calls, job[h].pc # "idle", NEW pc, job'[h] = [job[h] EXCEPT !.pc = pc]
      PROVE  /\ job'[h].pc = pc /\ job'[h].env = job[h].env /\ job'[h].project = job[h].project
             /\ job'[h].place = job[h].place /\ job'[h].app = job[h].app /\ job'[h].key = job[h].key
  BY <1>2, <1>4 DEF Job
<1>5. ASSUME NEW h \in Calls, job[h].pc # "idle", NEW pc, Goto(h, pc)
      PROVE  /\ job'[h].pc = pc /\ job'[h].env = job[h].env /\ job'[h].project = job[h].project
             /\ job'[h].place = job[h].place /\ job'[h].app = job[h].app /\ job'[h].key = job[h].key
             /\ \A g \in Calls : g # h => job'[g] = job[g]
  <2>1. SetJob(h, [job[h] EXCEPT !.pc = pc])
    BY <1>5 DEF Goto, SetJob
  <2>2. job'[h] = [job[h] EXCEPT !.pc = pc] /\ \A g \in Calls : g # h => job'[g] = job[g]
    BY <1>3, <2>1
  <2> QED
    BY <1>4, <1>5, <2>2
<1>6. ASSUME NEW h \in Calls, job[h].pc # "idle", NEW next, Answered(h, next)
      PROVE  /\ \/ job'[h] = next
                \/ /\ job'[h].pc = "catch" /\ job'[h].env = job[h].env
                   /\ job'[h].project = job[h].project /\ job'[h].place = job[h].place
                   /\ job'[h].app = job[h].app /\ job'[h].key = job[h].key
             /\ \A g \in Calls : g # h => job'[g] = job[g]
  <2>1. CASE SetJob(h, next)
    BY <1>3, <2>1
  <2>2. CASE SetJob(h, [job[h] EXCEPT !.pc = "catch"])
    <3>1. /\ job'[h] = [job[h] EXCEPT !.pc = "catch"]
          /\ \A g \in Calls : g # h => job'[g] = job[g]
      BY <1>3, <2>2
    <3> QED
      BY <1>4, <1>6, <3>1
  <2> QED
    BY <1>6, <2>1, <2>2 DEF Answered
<1>7. ASSUME NEW h \in Calls, job[h].pc \in Underway, Onward, job'[h].pc = "catch",
             job'[h].env = job[h].env, job'[h].app = job[h].app
      PROVE  JobInv(h)'
  BY <1>1, <1>2, <1>7 DEF JobInv, Onward, Placed, Underway, Trying
<1>8. UNCHANGED <<target, projects, places, apps>> => Onward
  BY DEF Onward
<1>9. ASSUME NEW h \in Calls, Call(h) PROVE IInv'
  <2>1. /\ job[h].pc = "idle" /\ job'[h].pc \in {"done", "upsert"} /\ job'[h].app = None
        /\ \A g \in Calls : g # h => job'[g] = job[g]
        /\ UNCHANGED <<target, projects, places, apps>>
        /\ crossed' = (crossed \/ \E g \in Calls : job[g].pc \in Underway)
    <3>1. PICK e \in Environments, private \in BOOLEAN :
             SetJob(h, [Idle EXCEPT !.env = e, !.private = private,
                                    !.pc = IF target[e].status = "ready" /\ target[e].app # None
                                           THEN "done" ELSE "upsert"])
      BY <1>9 DEF Call
    <3> DEFINE j == [Idle EXCEPT !.env = e, !.private = private,
                                 !.pc = IF target[e].status = "ready" /\ target[e].app # None
                                        THEN "done" ELSE "upsert"]
    <3>2. job'[h] = j /\ \A g \in Calls : g # h => job'[g] = job[g]
      BY <1>3, <3>1
    <3>3. j.pc \in {"done", "upsert"} /\ j.app = None
      BY DEF Idle
    <3> QED
      BY <1>9, <3>2, <3>3 DEF Call
  <2>2. JobInv(h)'
    BY <2>1 DEF JobInv, Placed
  <2>3. \A g \in Calls : JobInv(g)'
    BY <1>1, <1>8, <2>1, <2>2, Bystander
  <2>4. Remembered'
    BY <1>1, <1>8, <2>1, RowsKept DEF IInv, Remembered
  <2>5. Alone'
    BY <2>1 DEF IInv, Alone
  <2>6. PlacesInProjects' /\ OneOfAKind'
    BY <2>1 DEF IInv, PlacesInProjects, OneOfAKind
  <2>7. ASSUME NEW e \in Environments, target'[e].status = "provisioning"
        PROVE  \E g \in Calls : job'[g].env = e /\ job'[g].pc \in Underway \cup {"abandoned"}
    BY <2>1, <2>7 DEF IInv, ProvisioningIsTended, Underway, Trying
  <2> QED
    BY <1>1, <2>3, <2>4, <2>5, <2>6, <2>7 DEF IInv, ProvisioningIsTended
<1>10. ASSUME NEW h \in Calls, Upsert(h) PROVE IInv'
  <2> DEFINE row == [Row(h) EXCEPT !.status = "provisioning"]
  <2>1. /\ job[h].pc = "upsert" /\ job'[h].pc \in {"secret", "server"} /\ job'[h].app = Row(h).app
        /\ job'[h].env = job[h].env /\ \A g \in Calls : g # h => job'[g] = job[g]
        /\ UNCHANGED <<projects, places, apps, crossed>> /\ SetRow(h, row)
    <3> DEFINE j == [job[h] EXCEPT !.pc = IF job[h].private THEN "secret" ELSE "server",
                                   !.key = Row(h).key, !.app = Row(h).app]
    <3>1. job[h].pc = "upsert" /\ SetJob(h, j)
      BY <1>10 DEF Upsert
    <3>2. job'[h] = j /\ \A g \in Calls : g # h => job'[g] = job[g]
      BY <1>3, <3>1
    <3>3. j.pc \in {"secret", "server"} /\ j.app = Row(h).app /\ j.env = job[h].env
      BY <1>2, <3>1 DEF Job
    <3> QED
      BY <1>10, <3>1, <3>2, <3>3 DEF Upsert
  <2>2. row.status = "provisioning" /\ row.app = Row(h).app
    BY <1>2, <2>1 DEF Target
  <2>3. row.app # None => HasApp(row.app, job[h].env)
    BY <1>2, <2>1, <2>2 DEF IInv, Remembered, Row
  <2>4. Onward => JobInv(h)'
    BY <1>2, <2>1 DEF Onward, JobInv, Row, Placed
  <2> QED
    BY <1>1, <2>1, <2>2, <2>3, <2>4, RowStep DEF Underway, Trying
<1>11. ASSUME NEW h \in Calls, job[h].pc \in Underway, NEW pc \in {"server", "abandoned", "catch"},
              Goto(h, pc), UNCHANGED <<target, projects, places, apps, crossed>>
       PROVE  IInv'
  <2>1. /\ job'[h].pc = pc /\ job'[h].env = job[h].env /\ job'[h].app = job[h].app
        /\ \A g \in Calls : g # h => job'[g] = job[g]
    BY <1>5, <1>11 DEF Underway, Trying
  <2>2. JobInv(h)'
    BY <1>1, <1>2, <1>11, <2>1 DEF JobInv, Placed, Underway, Trying
  <2> QED
    BY <1>1, <1>11, <2>1, <2>2, QuietStep DEF Underway, Trying
<1>12. ASSUME NEW h \in Calls, SecretStored(h) \/ ThrowsEarly(h) \/ Throws(h) \/ CatchThrows(h)
       PROVE  IInv'
  BY <1>11, <1>12 DEF SecretStored, ThrowsEarly, Throws, CatchThrows, Underway
<1>13. ASSUME NEW h \in Calls, FindProject(h) PROVE IInv'
  <2>1. /\ job[h].pc = "server" /\ job[h].pc \in Underway
        /\ UNCHANGED <<target, projects, places, apps, crossed>>
    BY <1>13 DEF FindProject, Underway, Trying
  <2>2. /\ job'[h].env = job[h].env /\ job'[h].app = job[h].app
        /\ \A g \in Calls : g # h => job'[g] = job[g]
        /\ \/ projects = {} /\ job'[h].pc = "project"
           \/ job'[h].pc = "places" /\ job'[h].project \in projects
    <3>1. CASE projects = {} /\ Goto(h, "project")
      BY <1>5, <2>1, <3>1
    <3>2. ASSUME NEW p \in projects, SetJob(h, [job[h] EXCEPT !.pc = "places", !.project = p])
          PROVE  /\ job'[h].env = job[h].env /\ job'[h].app = job[h].app
                 /\ job'[h].pc = "places" /\ job'[h].project = p
                 /\ \A g \in Calls : g # h => job'[g] = job[g]
      <4>1. /\ job'[h] = [job[h] EXCEPT !.pc = "places", !.project = p]
            /\ \A g \in Calls : g # h => job'[g] = job[g]
        BY <1>3, <3>2
      <4> QED
        BY <1>2, <2>1, <4>1 DEF Job
    <3> QED
      BY <1>13, <3>1, <3>2 DEF FindProject
  <2>3. JobInv(h)'
    BY <1>1, <2>1, <2>2 DEF JobInv, Placed
  <2> QED
    BY <1>1, <2>1, <2>2, <2>3, QuietStep DEF Underway, Trying
<1>14. ASSUME NEW h \in Calls, CreateProject(h) PROVE IInv'
  <2>1. /\ job[h].pc = "project" /\ job[h].pc \in Underway /\ projects' = projects \cup {h}
        /\ UNCHANGED <<target, places, apps, crossed>>
    BY <1>14 DEF CreateProject, Underway, Trying
  <2>2. /\ job'[h].env = job[h].env /\ job'[h].app = job[h].app
        /\ \A g \in Calls : g # h => job'[g] = job[g]
        /\ job'[h].pc = "catch" \/ (job'[h].pc = "places" /\ job'[h].project = h)
    <3> DEFINE next == [job[h] EXCEPT !.pc = "places", !.project = h]
    <3>1. Answered(h, next)
      BY <1>14 DEF CreateProject
    <3>2. /\ next.pc = "places" /\ next.project = h
          /\ next.env = job[h].env /\ next.app = job[h].app
      BY <1>2, <2>1 DEF Job
    <3> HIDE DEF next
    <3> QED
      BY <1>6, <2>1, <3>1, <3>2
  <2>3. JobInv(h)'
    BY <1>1, <2>1, <2>2 DEF JobInv, Placed
  <2>4. PlacesInProjects'
    BY <2>1 DEF IInv, PlacesInProjects
  <2>5. OneOfAKind'
    BY <2>1 DEF IInv, OneOfAKind, Alone
  <2> QED
    BY <1>1, <2>1, <2>2, <2>3, <2>4, <2>5, MakingStep DEF Underway, Trying
<1>15. ASSUME NEW h \in Calls, NEW j, j \in Job, job[h].pc \in {"places", "place"},
              j.env = job[h].env, j.app = job[h].app, j.project = job[h].project,
              [by |-> j.place, project |-> j.project, name |-> j.env] \in places',
              job'[h] = AfterPlace(j), Onward
       PROVE  /\ JobInv(h)' /\ job'[h].env = job[h].env
              /\ job'[h].pc \in {"key", "reuse", "app"}
  <2>1. /\ job'[h].pc \in {"key", "reuse", "app"} /\ job'[h].env = j.env /\ job'[h].app = j.app
        /\ job'[h].project = j.project /\ job'[h].place = j.place
        /\ job'[h].pc = "reuse" => j.app # None
    BY <1>15 DEF AfterPlace, AfterKey, Job
  <2>2. job[h].env \in Environments
    BY <1>2, <1>15
  <2> QED
    BY <1>1, <1>15, <2>1, <2>2 DEF JobInv, Placed, Onward, Underway, Trying
<1>16. ASSUME NEW h \in Calls, FindPlace(h) PROVE IInv'
  <2> DEFINE found == {p \in places : p.project = job[h].project /\ p.name = job[h].env}
  <2>1. /\ job[h].pc = "places" /\ job[h].pc \in Underway /\ job[h] \in Job
        /\ UNCHANGED <<target, projects, places, apps, crossed>>
    BY <1>2, <1>16 DEF FindPlace, Underway, Trying
  <2>2. CASE found = {} /\ Goto(h, "place")
    <3>1. /\ job'[h].pc = "place" /\ job'[h].env = job[h].env /\ job'[h].app = job[h].app
          /\ job'[h].project = job[h].project
          /\ \A g \in Calls : g # h => job'[g] = job[g]
      BY <1>5, <2>1, <2>2
    <3>2. JobInv(h)'
      BY <1>1, <2>1, <3>1 DEF JobInv, Placed, Underway, Trying
    <3> QED
      BY <1>1, <2>1, <2>2, <3>1, <3>2, QuietStep DEF Underway, Trying
  <2>3. ASSUME NEW p \in found, SetJob(h, AfterPlace([job[h] EXCEPT !.place = p.by])) PROVE IInv'
    <3> DEFINE j == [job[h] EXCEPT !.place = p.by]
    <3>1. /\ p \in Place /\ p.project = job[h].project /\ p.name = job[h].env
          /\ p = [by |-> p.by, project |-> job[h].project, name |-> job[h].env]
      BY <1>1 DEF TypeOK, Place
    <3>2. /\ j \in Job /\ j.env = job[h].env /\ j.app = job[h].app /\ j.place = p.by
          /\ j.project = job[h].project
      BY <2>1, <3>1 DEF Job, Place, Optional
    <3>3. [by |-> j.place, project |-> j.project, name |-> j.env] \in places'
      BY <2>1, <3>1, <3>2
    <3>4. job'[h] = AfterPlace(j) /\ \A g \in Calls : g # h => job'[g] = job[g]
      BY <1>3, <2>3
    <3>5. JobInv(h)' /\ job'[h].env = job[h].env /\ job'[h].pc \in {"key", "reuse", "app"}
      BY <1>8, <1>15, <2>1, <3>2, <3>3, <3>4
    <3> QED
      BY <1>1, <2>1, <3>4, <3>5, QuietStep DEF Underway, Trying
  <2> QED
    BY <1>16, <2>2, <2>3 DEF FindPlace
<1>17. ASSUME NEW h \in Calls, CreatePlace(h) PROVE IInv'
  <2> DEFINE new == [by |-> h, project |-> job[h].project, name |-> job[h].env]
             j == [job[h] EXCEPT !.place = h]
  <2>1. /\ job[h].pc = "place" /\ job[h].pc \in Underway /\ job[h] \in Job
        /\ places' = places \cup {new} /\ job[h].project \in projects
        /\ UNCHANGED <<target, projects, apps, crossed>>
    BY <1>1, <1>2, <1>17 DEF CreatePlace, JobInv, Underway, Trying
  <2>2. /\ j \in Job /\ j.env = job[h].env /\ j.app = job[h].app /\ j.place = h
        /\ j.project = job[h].project
    BY <2>1 DEF Job, Optional
  <2>3. Onward
    BY <2>1 DEF Onward
  <2>4. /\ job'[h] = AfterPlace(j) \/ (/\ job'[h].pc = "catch" /\ job'[h].env = job[h].env
                                       /\ job'[h].app = job[h].app)
        /\ \A g \in Calls : g # h => job'[g] = job[g]
    BY <1>6, <1>17, <2>1 DEF CreatePlace
  <2>5. /\ JobInv(h)' /\ job'[h].env = job[h].env
        /\ job'[h].pc \in {"key", "reuse", "app", "catch"}
    <3>1. CASE job'[h] = AfterPlace(j)
      <4>1. [by |-> j.place, project |-> j.project, name |-> j.env] \in places'
        BY <2>1, <2>2
      <4> HIDE DEF j
      <4> QED
        BY <1>15, <2>1, <2>2, <2>3, <3>1, <4>1
    <3>2. CASE job'[h].pc = "catch" /\ job'[h].env = job[h].env /\ job'[h].app = job[h].app
      BY <1>7, <2>1, <2>3, <3>2
    <3> QED
      BY <2>4, <3>1, <3>2
  <2>6. PlacesInProjects'
    BY <2>1 DEF IInv, PlacesInProjects
  <2>7. OneOfAKind'
    <3> SUFFICES ASSUME ~crossed, NEW p \in places', NEW q \in places', p.name = q.name PROVE p = q
      BY <2>1 DEF IInv, OneOfAKind
    <3>1. \A r \in places : r.project = job[h].project /\ r.name # job[h].env
      BY <2>1 DEF IInv, OneOfAKind, PlacesInProjects, Alone
    <3> QED
      BY <2>1, <3>1 DEF IInv, OneOfAKind
  <2> QED
    BY <1>1, <2>1, <2>3, <2>4, <2>5, <2>6, <2>7, MakingStep DEF Onward, Underway, Trying
<1>18. ASSUME NEW h \in Calls, CreateKey(h) PROVE IInv'
  <2>1. /\ job[h].pc = "key" /\ job[h].pc \in Underway
        /\ UNCHANGED <<target, projects, places, apps, crossed>>
    BY <1>18 DEF CreateKey, Underway, Trying
  <2>2. /\ job'[h].env = job[h].env /\ job'[h].app = job[h].app /\ job'[h].project = job[h].project
        /\ job'[h].place = job[h].place /\ \A g \in Calls : g # h => job'[g] = job[g]
        /\ job'[h].pc = "catch" \/ (job'[h].pc = "storeKey" /\ job'[h].key = h)
    <3> DEFINE next == [job[h] EXCEPT !.pc = "storeKey", !.key = h]
    <3>1. Answered(h, next)
      BY <1>18 DEF CreateKey
    <3>2. /\ next.pc = "storeKey" /\ next.key = h /\ next.env = job[h].env
          /\ next.app = job[h].app /\ next.project = job[h].project /\ next.place = job[h].place
      BY <1>2, <2>1 DEF Job
    <3> HIDE DEF next
    <3> QED
      BY <1>6, <2>1, <3>1, <3>2
  <2>3. JobInv(h)'
    BY <1>1, <2>1, <2>2, NoneAssumption DEF JobInv, Placed, Underway, Trying
  <2> QED
    BY <1>1, <2>1, <2>2, <2>3, QuietStep DEF Underway, Trying
<1>19. ASSUME NEW h \in Calls, StoreKey(h) PROVE IInv'
  <2> DEFINE row == [Row(h) EXCEPT !.key = job[h].key]
  <2>1. /\ job[h].pc = "storeKey" /\ job'[h].pc = "github" /\ job'[h].app = Row(h).app
        /\ job'[h].env = job[h].env /\ job'[h].project = job[h].project
        /\ job'[h].place = job[h].place /\ job'[h].key = job[h].key
        /\ \A g \in Calls : g # h => job'[g] = job[g]
        /\ UNCHANGED <<projects, places, apps, crossed>> /\ SetRow(h, row)
    <3> DEFINE j == [job[h] EXCEPT !.pc = "github", !.app = Row(h).app]
    <3>1. job[h].pc = "storeKey" /\ SetJob(h, j)
      BY <1>19 DEF StoreKey
    <3>2. job'[h] = j /\ \A g \in Calls : g # h => job'[g] = job[g]
      BY <1>3, <3>1
    <3>3. /\ j.pc = "github" /\ j.app = Row(h).app /\ j.env = job[h].env
          /\ j.project = job[h].project /\ j.place = job[h].place /\ j.key = job[h].key
      BY <1>2, <3>1 DEF Job
    <3> QED
      BY <1>19, <3>1, <3>2, <3>3 DEF StoreKey
  <2>2. row.status = Row(h).status /\ row.app = Row(h).app
    BY <1>2, <2>1 DEF Target
  <2>3. /\ row.app # None => HasApp(row.app, job[h].env)
        /\ row.status = "ready" => row.app # None
    BY <1>2, <2>1, <2>2 DEF IInv, Remembered, Row
  <2>4. Onward => JobInv(h)'
    BY <1>1, <1>2, <2>1 DEF Onward, JobInv, Row, Placed
  <2> QED
    BY <1>1, <2>1, <2>2, <2>3, <2>4, RowStep DEF Underway, Trying
<1>20. ASSUME NEW h \in Calls, AddDeployKey(h) PROVE IInv'
  <2>1. /\ job[h].pc = "github" /\ job[h].pc \in Underway /\ job[h] \in Job
        /\ UNCHANGED <<target, projects, places, apps, crossed>>
    BY <1>2, <1>20 DEF AddDeployKey, Underway, Trying
  <2>2. /\ AfterKey(job[h]).env = job[h].env /\ AfterKey(job[h]).app = job[h].app
        /\ AfterKey(job[h]).project = job[h].project /\ AfterKey(job[h]).place = job[h].place
        /\ AfterKey(job[h]).pc \in {"reuse", "app"}
        /\ AfterKey(job[h]).pc = "reuse" => job[h].app # None
    BY <2>1 DEF AfterKey, Job
  <2>3. /\ job'[h].env = job[h].env /\ job'[h].app = job[h].app /\ job'[h].project = job[h].project
        /\ job'[h].place = job[h].place /\ \A g \in Calls : g # h => job'[g] = job[g]
        /\ job'[h].pc \in {"catch", "reuse", "app"}
        /\ job'[h].pc = "reuse" => job[h].app # None
    <3>1. Answered(h, AfterKey(job[h]))
      BY <1>20 DEF AddDeployKey
    <3> QED
      BY <1>6, <2>1, <2>2, <3>1
  <2>4. JobInv(h)'
    BY <1>1, <2>1, <2>3 DEF JobInv, Placed, Underway, Trying
  <2> QED
    BY <1>1, <2>1, <2>3, <2>4, QuietStep DEF Underway, Trying
<1>21. ASSUME NEW h \in Calls, Reuse(h) PROVE IInv'
  <2> DEFINE row == [Row(h) EXCEPT !.status = "ready"]
  <2>1. /\ job[h].pc = "reuse" /\ job'[h].pc = "done" /\ job'[h].env = job[h].env
        /\ \A g \in Calls : g # h => job'[g] = job[g]
        /\ UNCHANGED <<projects, places, apps, crossed>> /\ SetRow(h, row)
    BY <1>5, <1>21 DEF Reuse
  <2>2. row.status = "ready" /\ row.app = Row(h).app
    BY <1>2, <2>1 DEF Target
  <2>3. Row(h).app # None
    BY <1>1, <2>1 DEF JobInv, Row, Underway, Trying
  <2>4. HasApp(row.app, job[h].env)
    BY <1>2, <2>1, <2>2, <2>3 DEF IInv, Remembered, Row
  <2>5. JobInv(h)'
    BY <2>1 DEF JobInv, Placed, Underway, Trying
  <2> QED
    BY <1>1, <2>1, <2>2, <2>3, <2>4, <2>5, RowStep DEF Underway, Trying
<1>22. ASSUME NEW h \in Calls, CreateApp(h) PROVE IInv'
  <2> DEFINE a == [by |-> h, env |-> job[h].env, project |-> job[h].project, place |-> job[h].place,
                   key |-> IF job[h].private THEN job[h].key ELSE None]
  <2>1. /\ job[h].pc = "app" /\ job[h].pc \in Underway /\ apps' = apps \cup {a}
        /\ UNCHANGED <<target, projects, places, crossed>>
    BY <1>22 DEF CreateApp, Underway, Trying
  <2>2. /\ job'[h].env = job[h].env /\ job'[h].app = job[h].app /\ job'[h].project = job[h].project
        /\ job'[h].place = job[h].place /\ job'[h].pc \in {"catch", "store"}
        /\ \A g \in Calls : g # h => job'[g] = job[g]
    <3> DEFINE next == [job[h] EXCEPT !.pc = "store"]
    <3>1. Answered(h, next)
      BY <1>22 DEF CreateApp
    <3>2. /\ next.pc = "store" /\ next.env = job[h].env /\ next.app = job[h].app
          /\ next.project = job[h].project /\ next.place = job[h].place
      BY <1>2, <2>1 DEF Job
    <3> HIDE DEF next
    <3> QED
      BY <1>6, <2>1, <3>1, <3>2
  <2>3. AppOf(a, job[h].env)
    BY <1>1, <2>1 DEF JobInv, Placed, AppOf
  <2>4. HasApp(h, job[h].env)'
    BY <2>1, <2>2, <2>3 DEF HasApp, AppOf
  <2>5. JobInv(h)'
    BY <1>1, <2>1, <2>2, <2>4 DEF JobInv, Placed, Underway, Trying
  <2>6. PlacesInProjects' /\ OneOfAKind'
    BY <2>1 DEF IInv, PlacesInProjects, OneOfAKind
  <2> QED
    BY <1>1, <2>1, <2>2, <2>5, <2>6, MakingStep DEF Underway, Trying
<1>23. ASSUME NEW h \in Calls, Store(h) PROVE IInv'
  <2> DEFINE row == [status |-> "ready", app |-> h,
                     key |-> IF job[h].key # None THEN job[h].key ELSE Row(h).key]
  <2>1. /\ job[h].pc = "store" /\ job'[h].pc = "done" /\ job'[h].env = job[h].env
        /\ \A g \in Calls : g # h => job'[g] = job[g]
        /\ UNCHANGED <<projects, places, apps, crossed>> /\ SetRow(h, row)
    BY <1>5, <1>23 DEF Store
  <2>2. row.status = "ready" /\ row.app # None
    BY NoneAssumption
  <2>3. HasApp(row.app, job[h].env)
    BY <1>1, <2>1 DEF JobInv
  <2>4. JobInv(h)'
    BY <2>1 DEF JobInv, Placed, Underway, Trying
  <2> QED
    BY <1>1, <2>1, <2>2, <2>3, <2>4, RowStep DEF Underway, Trying
<1>24. ASSUME NEW h \in Calls, Catch(h) PROVE IInv'
  <2> DEFINE row == [Row(h) EXCEPT !.status = "error"]
  <2>1. /\ job[h].pc = "catch" /\ job'[h].pc = "failed" /\ job'[h].env = job[h].env
        /\ \A g \in Calls : g # h => job'[g] = job[g]
        /\ UNCHANGED <<projects, places, apps, crossed>> /\ SetRow(h, row)
    BY <1>5, <1>24 DEF Catch
  <2>2. row.status = "error" /\ row.app = Row(h).app
    BY <1>2, <2>1 DEF Target
  <2>3. row.app # None => HasApp(row.app, job[h].env)
    BY <1>2, <2>1, <2>2 DEF IInv, Remembered, Row
  <2>4. JobInv(h)'
    BY <2>1 DEF JobInv, Placed, Underway, Trying
  <2> QED
    BY <1>1, <2>1, <2>2, <2>3, <2>4, RowStep DEF Underway, Trying
<1>25. CASE Restart
  <2>1. ASSUME NEW h \in Calls
        PROVE  /\ job'[h].pc \notin Underway
               /\ job'[h].env = job[h].env
               /\ job[h].pc \in Underway \cup {"abandoned"} => job'[h].pc = "abandoned"
    BY <1>1, <1>2, <1>4, <1>25 DEF Restart, TypeOK, Underway, Trying
  <2>2. \A h \in Calls : JobInv(h)'
    BY <2>1 DEF JobInv, Placed, Underway, Trying
  <2>3. Alone'
    BY <2>1 DEF Alone, Underway, Trying
  <2>4. ProvisioningIsTended'
    BY <1>25, <2>1 DEF Restart, IInv, ProvisioningIsTended
  <2>5. Remembered'
    BY <1>1, <1>8, <1>25, RowsKept DEF Restart, IInv, Remembered
  <2>6. PlacesInProjects' /\ OneOfAKind'
    BY <1>25 DEF Restart, IInv, PlacesInProjects, OneOfAKind
  <2> QED
    BY <1>1, <2>2, <2>3, <2>4, <2>5, <2>6 DEF IInv
<1>26. CASE UNCHANGED vars
  <2>1. \A h \in Calls : JobInv(h)'
    BY <1>1, <1>8, <1>26, Bystander DEF vars
  <2>2. Remembered'
    BY <1>1, <1>8, <1>26, RowsKept DEF vars, IInv, Remembered
  <2>3. PlacesInProjects' /\ OneOfAKind' /\ Alone' /\ ProvisioningIsTended'
    BY <1>26 DEF vars, IInv, PlacesInProjects, OneOfAKind, Alone, ProvisioningIsTended
  <2> QED
    BY <1>1, <2>1, <2>2, <2>3 DEF IInv
<1> QED
  BY <1>9, <1>10, <1>12, <1>13, <1>14, <1>16, <1>17, <1>18, <1>19, <1>20, <1>21, <1>22, <1>23,
     <1>24, <1>25, <1>26 DEF Next, Step

LEMMA IInvAlways == Spec => []IInv
BY IInvInitially, IInvStep, PTL DEF Spec

\* TypeOK of Provisioning, for any number of calls and environments.
THEOREM TypeCorrect == Spec => []TypeOK
<1>1. IInv => TypeOK
  BY DEF IInv
<1> QED
  BY IInvAlways, <1>1, PTL

\* ReadyHasItsApp: whatever failed before setCoolifyIds wrote "ready", and whoever else
\* provisions the service, the row names an application made for its environment.
THEOREM ReadyApp == Spec => []ReadyHasItsApp
<1>1. IInv => ReadyHasItsApp
  BY DEF IInv, Remembered, HasApp, AppOf, ReadyHasItsApp
<1> QED
  BY IInvAlways, <1>1, PTL

\* ReprovisionFindsPlaces: calls of provision made one after the other leave one project
\* and one environment of a name in Coolify, however many of them failed on the way.
THEOREM Reprovision == Spec => []ReprovisionFindsPlaces
<1>1. IInv => ReprovisionFindsPlaces
  <2> SUFFICES ASSUME IInv, ~crossed PROVE Cardinality(projects) <= 1
    BY DEF IInv, OneOfAKind, ReprovisionFindsPlaces
  <2>1. CASE projects = {}
    BY <2>1, FS_EmptySet
  <2>2. ASSUME NEW p \in projects PROVE Cardinality(projects) = 1
    <3>1. projects = {p}
      BY DEF IInv, OneOfAKind
    <3> QED
      BY <3>1, FS_Singleton
  <2> QED
    BY <2>1, <2>2
<1> QED
  BY IInvAlways, <1>1, PTL

\* ProvisioningIsTended: the catch block of provision leaves no row at "provisioning",
\* whatever step threw.
THEOREM ProvisioningTended == Spec => []ProvisioningIsTended
<1>1. IInv => ProvisioningIsTended
  BY DEF IInv
<1> QED
  BY IInvAlways, <1>1, PTL

=============================================================================
