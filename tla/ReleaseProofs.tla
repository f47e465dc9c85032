---------------------------- MODULE ReleaseProofs ----------------------------
(***************************************************************************)
(* Theorems about Release, for any number of jobs, commits and set-ups.     *)
(***************************************************************************)
EXTENDS Release, TLAPS

Job == [kind : {"none", "deploy", "source", "manual"}, at : Phases,
        ready : Commits \cup {NoCommit}, release : Commits \cup {NoCommit},
        cloned : Commits \cup {NoCommit}, want : Trees \cup {NoCommit},
        running : MaybeImage, apart : BOOLEAN,
        outcome : {"none", "queued", "refused", "failed", "success"}]

\* The phases in which a release has its commit, and those of the gate by what it has found.
Named    == {"exists", "pull", "local", "build", "tag", "pushRolling", "pushCommit",
             "pinRead", "pinWrite"}
Asking   == {"verify", "compare", "commitTag", "label"}
Agreed   == {"copies", "stop", "up", "count", "seed", "ended"}
Compared == {"compare", "commitTag", "label"} \cup Agreed

(***************************************************************************)
(* What an image tells.  One whose builder had pulled, and had the          *)
(* directory to itself, contains the commit it says it is, and the commit   *)
(* it is tagged with.                                                      *)
(***************************************************************************)

Contains(image, c) == image.clean => image.source \in c .. MaxCommit

Honest(image) == image.label # NoCommit => Contains(image, image.label)

HonestImages ==
    /\ \A t \in Tags : /\ registry[t] # NoImage => Honest(registry[t])
                       /\ server.tags[t] # NoImage => Honest(server.tags[t])
                       /\ host.tags[t] # NoImage => Honest(host.tags[t])
    /\ \A image \in {server.built, server.app, host.app, staging} : image # NoImage => Honest(image)

ByCommit ==
    \A c \in Commits : /\ registry[c] # NoImage => Contains(registry[c], c)
                       /\ server.tags[c] # NoImage => Contains(server.tags[c], c)

BuiltByActions == \A c \in Commits : ci[c] = "success" => registry[c] # NoImage

RoomForThePin == ~git.pinned => git.head < MaxCommit

WorldInv == HonestImages /\ ByCommit /\ BuiltByActions /\ RoomForThePin

(***************************************************************************)
(* What holds of a job.                                                    *)
(***************************************************************************)

Shape(r) ==
    /\ r.running # NoImage => r.at \in Compared /\ Honest(r.running)
    /\ r.at \in Named => r.release \in Commits
    /\ r.at = "workflow" => r.ready = NoCommit
    /\ r.at = "ciRuns" => r.ready \in Commits
    /\ r.at \in Script \cup {"start", "done"} => r.kind # "deploy"
    /\ r.kind = "deploy" => /\ r.want # StagingTree
                            /\ r.outcome = "success" => r.at = "ended"
                            /\ r.at \in Asking => r.want # NoCommit

\* The commit of a release is on the branch, and CI has built what it let through.
Released(r) == r.release \in Commits => r.release <= git.head

Vetted(r) ==
    r.at \in {"guards", "coolify", "deploying"} \cup Releasing =>
        (r.ready # NoCommit => ci[r.ready] = "success")

\* What a release is about to tag, and to push, is there.
Built(r) ==
    /\ r.at = "local" => ~config.remote
    /\ r.at \in {"pull", "build"} => config.remote
    /\ r.at = "tag" => server.built # NoImage /\ Contains(server.built, r.release)
    /\ r.at \in {"pushRolling", "pushCommit"} => server.tags[r.release] # NoImage

\* A production deploy in the gate, or past it, that no other has disturbed since.
Undisturbed(r) ==
    r.kind = "deploy" /\ r.apart /\ (r.at \in Gating \/ (r.at = "ended" /\ r.outcome = "success"))

Shown(r) == Undisturbed(r) /\ r.running # NoImage => host.app = r.running

Right(r) ==
    /\ (Undisturbed(r) /\ r.running # NoImage /\ r.at = "label" /\ config.ecr)
          => Contains(r.running, r.want)
    /\ (Undisturbed(r) /\ r.running # NoImage /\ r.at \in Agreed
           /\ (r.running.label # NoCommit \/ config.ecr))
          => r.want \in Commits /\ Contains(r.running, r.want)
    /\ (Undisturbed(r) /\ r.running # NoImage /\ r.at \in Agreed)
          => r.running.label \in {r.want, NoCommit}

Serves(r) ==
    Undisturbed(r) /\ config.mongo =>
        /\ r.at \in {"stop", "up", "count", "seed", "ended"} => host.copy = "none"
        /\ r.at \in {"count", "seed", "ended"} => host.mongo = "data"

Sound(r) == Shape(r) /\ Released(r) /\ Vetted(r) /\ Built(r) /\ Shown(r) /\ Right(r) /\ Serves(r)

\* While a builder has the directory to itself, what is checked out there contains the
\* commit of every release that has not tagged its image: the others pulled before it.
BuilderIsLast ==
    \A j, k \in Jobs : (At(j, "build") /\ job[j].apart /\ job[k].at \in {"build", "tag"})
                          => server.tree \in job[k].release .. MaxCommit

ReleaseInv == TypeOK /\ WorldInv /\ BuilderIsLast /\ \A j \in Jobs : Sound(job[j])

-----------------------------------------------------------------------------
(***************************************************************************)
(* Kinds of steps.                                                         *)
(***************************************************************************)

WorldTypes ==
    /\ config \in Configs
    /\ git \in [head : Commits, pinned : BOOLEAN]
    /\ ci \in [Commits -> {"none", "running", "success"}]
    /\ registry \in [Tags -> MaybeImage]
    /\ server \in [tree : Trees, built : MaybeImage, app : MaybeImage, tags : [Tags -> MaybeImage]]
    /\ host \in [rolling : BOOLEAN, volume : BOOLEAN, tags : [Tags -> MaybeImage], app : MaybeImage,
                  mongo : {"none", "data", "empty"}, copy : {"none", "data", "empty"}]
    /\ staging \in MaybeImage

LEMMA Types == TypeOK <=> WorldTypes /\ job \in [Jobs -> Job]
  BY DEF TypeOK, WorldTypes, Job

\* Job k is where it was, with what it had, except perhaps the directory to itself.
Stays(k) ==
    /\ job'[k].kind = job[k].kind /\ job'[k].at = job[k].at /\ job'[k].ready = job[k].ready
    /\ job'[k].release = job[k].release /\ job'[k].want = job[k].want
    /\ job'[k].running = job[k].running /\ job'[k].outcome = job[k].outcome
    /\ job'[k].apart => job[k].apart

\* What a step makes of a record, and of the others.
LEMMA GoesTo ==
    ASSUME TypeOK, NEW j \in Jobs, NEW r \in Job, NEW disturbed, Goes(j, r, disturbed)
    PROVE  /\ job' \in [Jobs -> Job] /\ job'[j] = r
           /\ \A k \in Jobs \ {j} : Stays(k) /\ (k \in disturbed => ~job'[k].apart)
<1>1. job \in [Jobs -> Job]
  BY Types
<1>2. ASSUME NEW k \in Jobs
      PROVE  LET d == [job[k] EXCEPT !.apart = FALSE] IN
             /\ d \in Job /\ d.apart = FALSE
             /\ d.kind = job[k].kind /\ d.at = job[k].at /\ d.ready = job[k].ready
             /\ d.release = job[k].release /\ d.want = job[k].want
             /\ d.running = job[k].running /\ d.outcome = job[k].outcome
  BY <1>1 DEF Job
<1>3. job' = [k \in Jobs |-> IF k = j THEN r
                             ELSE IF k \in disturbed THEN [job[k] EXCEPT !.apart = FALSE] ELSE job[k]]
  BY DEF Goes
<1>4. job' \in [Jobs -> Job] /\ job'[j] = r
  BY <1>1, <1>2, <1>3
<1>5. ASSUME NEW k \in Jobs \ {j} PROVE Stays(k) /\ (k \in disturbed => ~job'[k].apart)
  <2>1. CASE k \in disturbed
    BY <1>2, <1>3, <2>1 DEF Stays
  <2>2. CASE k \notin disturbed
    BY <1>3, <2>2 DEF Stays
  <2> QED
    BY <2>1, <2>2
<1> QED
  BY <1>4, <1>5

\* What a step leaves a job that stays.
Spares(k) ==
    /\ config' = config
    /\ git'.head \in git.head .. MaxCommit
    /\ \A c \in Commits : ci[c] = "success" => ci'[c] = "success"
    /\ job[k].at = "tag" => server'.built # NoImage /\ Contains(server'.built, job[k].release)
    /\ job[k].at \in {"pushRolling", "pushCommit"} => server'.tags[job[k].release] # NoImage
    /\ Undisturbed(job'[k]) =>
          /\ host'.app = host.app
          /\ job[k].at \in {"stop", "up", "count", "seed", "ended"} => host'.copy \in {host.copy, "none"}
          /\ job[k].at \in {"count", "seed", "ended"} => host'.mongo \in {host.mongo, "data"}

LEMMA Bystander ==
    ASSUME ReleaseInv, NEW k \in Jobs, Stays(k), Spares(k)
    PROVE  Sound(job[k])'
<1>1. /\ job[k] \in Job /\ Sound(job[k]) /\ git.head \in Nat
      /\ config \in Config /\ git'.head \in git.head .. MaxCommit /\ MaxCommit \in Nat
  BY Types, ReleaseAssumption DEF ReleaseInv, Spares, WorldTypes, Commits
<1>2. Shape(job[k])'
  BY <1>1 DEF Sound, Shape, Stays, Honest, Contains
<1>3. Released(job[k])'
  BY <1>1 DEF Sound, Released, Stays, Spares, Job, Commits
<1>4. Vetted(job[k])'
  BY <1>1 DEF Sound, Vetted, Stays, Spares, Job
<1>5. Built(job[k])'
  BY <1>1 DEF Sound, Built, Stays, Spares, Contains
<1>6. Undisturbed(job'[k]) => Undisturbed(job[k])
  BY DEF Undisturbed, Stays
<1>7. Shown(job[k])'
  BY <1>1, <1>6 DEF Sound, Shown, Undisturbed, Stays, Spares
<1>8. Right(job[k])'
  BY <1>1, <1>6 DEF Sound, Right, Undisturbed, Stays, Spares, Contains
<1>9. Serves(job[k])'
  BY <1>1, <1>6 DEF Sound, Serves, Undisturbed, Stays, Spares
<1> QED
  BY <1>2, <1>3, <1>4, <1>5, <1>7, <1>8, <1>9 DEF Sound

\* One job moves, with what it does to the world.
LEMMA JobMoves ==
    ASSUME ReleaseInv, NEW j \in Jobs, job' \in [Jobs -> Job],
           WorldTypes', WorldInv', BuilderIsLast', Sound(job[j])',
           \A k \in Jobs \ {j} : Stays(k) /\ Spares(k)
    PROVE  ReleaseInv'
<1>1. \A k \in Jobs : Sound(job[k])'
  BY Bystander
<1>2. TypeOK'
  BY DEF TypeOK, WorldTypes, Job
<1> QED
  BY <1>1, <1>2 DEF ReleaseInv

\* One job moves, and nothing else.
LEMMA JobGoesOn ==
    ASSUME ReleaseInv, NEW j \in Jobs, NEW r \in Job, Goes(j, r, {}), UNCHANGED world,
           r.at \notin {"build", "tag"}, Sound(r)
    PROVE  ReleaseInv'
<1>1. /\ job' \in [Jobs -> Job] /\ job'[j] = r
      /\ \A k \in Jobs \ {j} : Stays(k)
  BY GoesTo DEF ReleaseInv
<1>2. WorldTypes' /\ WorldInv'
  BY Types DEF ReleaseInv, WorldTypes, WorldInv, HonestImages, ByCommit, BuiltByActions,
               RoomForThePin, Honest, Contains, world
<1>3. BuilderIsLast'
  BY <1>1 DEF ReleaseInv, BuilderIsLast, Stays, At, world
<1>4. Sound(job[j])'
  BY <1>1 DEF Sound, Shape, Released, Vetted, Built, Shown, Right, Serves, Undisturbed, Contains,
              Honest, world
<1>5. ASSUME NEW k \in Jobs \ {j} PROVE Spares(k)
  <2>1. Sound(job[k]) /\ git.head \in git.head .. MaxCommit
    BY Types, ReleaseAssumption DEF ReleaseInv, WorldTypes, Commits
  <2> QED
    BY <2>1 DEF Spares, Sound, Built, world
<1> QED
  BY <1>1, <1>2, <1>3, <1>4, <1>5, JobMoves

\* A job goes to another phase, with what it has.
LEMMA GoesToPhase ==
    ASSUME ReleaseInv, NEW j \in Jobs, NEW phase \in Phases \ {"workflow", "ciRuns", "build", "tag", "ended"},
           Moves(j, phase), UNCHANGED world, job[j].at # "ended",
           job[j].running # NoImage => phase \in Compared,
           phase \in Named => job[j].release \in Commits,
           phase \in Script \cup {"start", "done"} => job[j].kind # "deploy",
           phase \in Asking => job[j].want # NoCommit \/ job[j].kind # "deploy",
           phase \in {"guards", "coolify", "deploying"} \cup Releasing =>
                (job[j].ready # NoCommit => ci[job[j].ready] = "success"),
           phase = "local" => ~config.remote,
           phase = "pull" => config.remote,
           phase \in {"pushRolling", "pushCommit"} => server.tags[job[j].release] # NoImage,
           phase \in Gating => job[j].at \in Gating \/ job[j].kind # "deploy",
           Undisturbed(job[j]) /\ job[j].running # NoImage =>
              /\ phase = "label" /\ config.ecr => Contains(job[j].running, job[j].want)
              /\ phase \in Agreed /\ (job[j].running.label # NoCommit \/ config.ecr) =>
                    job[j].want \in Commits /\ Contains(job[j].running, job[j].want)
              /\ phase \in Agreed => job[j].running.label \in {job[j].want, NoCommit},
           Undisturbed(job[j]) /\ config.mongo =>
              /\ phase \in {"stop", "up", "count", "seed"} => host.copy = "none"
              /\ phase \in {"count", "seed"} => host.mongo = "data"
    PROVE  ReleaseInv'
<1>1. job \in [Jobs -> Job] /\ job[j] \in Job /\ Sound(job[j])
  BY Types DEF ReleaseInv
<1> DEFINE r == [job[j] EXCEPT !.at = phase]
<1>2. /\ r \in Job /\ r.at = phase
      /\ r.kind = job[j].kind /\ r.ready = job[j].ready
      /\ r.release = job[j].release /\ r.want = job[j].want
      /\ r.running = job[j].running /\ r.outcome = job[j].outcome
      /\ r.apart = job[j].apart
  BY <1>1 DEF Job
<1>3. Goes(j, r, {})
  BY DEF Moves
<1> HIDE DEF r
<1>4. Undisturbed(r) => Undisturbed(job[j])
  BY <1>2 DEF Undisturbed
<1>5. Shape(r) /\ Released(r)
  BY <1>1, <1>2 DEF Sound, Shape, Released
<1>6. Vetted(r) /\ Built(r)
  BY <1>2 DEF Vetted, Built
<1>7. Shown(r)
  BY <1>1, <1>2, <1>4 DEF Sound, Shown
<1>8. Right(r)
  BY <1>2, <1>4 DEF Right
<1>9. Serves(r)
  BY <1>2, <1>4 DEF Serves
<1> QED
  BY <1>2, <1>3, <1>5, <1>6, <1>7, <1>8, <1>9, JobGoesOn DEF Sound

\* A job that ends without success has nothing left to hold.
LEMMA EndedSound ==
    ASSUME ReleaseInv, NEW j \in Jobs, NEW outcome \in {"refused", "failed"}
    PROVE  \E r \in Job : r = Ended(j, outcome) /\ r.at = "ended" /\ Sound(r) /\ Sound(r)'
<1>1. job \in [Jobs -> Job] /\ job[j] \in Job /\ Sound(job[j])
  BY Types DEF ReleaseInv
<1> DEFINE r == [Idle EXCEPT !.kind = job[j].kind, !.at = "ended", !.outcome = outcome,
                             !.want = Idle.want, !.running = Idle.running, !.apart = Idle.apart]
<1>2. r = Ended(j, outcome)
  BY DEF Ended
<1>3. Idle \in Job
  BY DEF Idle, Job, Phases, MaybeImage
<1>4. job[j].kind \in {"none", "deploy", "source", "manual"} /\ "ended" \in Phases
  BY <1>1 DEF Job, Phases
<1>5. r \in Job
  BY <1>3, <1>4 DEF Job
<1>6. r.kind = job[j].kind /\ r.at = "ended" /\ r.outcome = outcome /\ r.running = NoImage
      /\ r.release = NoCommit /\ r.want = NoCommit
  BY DEF Idle
<1>8. PICK v \in Job : v = r
  BY <1>5
<1> HIDE DEF r
<1>7. Sound(v) /\ Sound(v)'
  BY <1>6, <1>8, ReleaseAssumption
  DEF Sound, Shape, Released, Vetted, Built, Shown, Right, Serves, Undisturbed, Named, Script, Asking,
      Releasing, Trees, Gating
<1> QED
  BY <1>2, <1>6, <1>7, <1>8

LEMMA EndsSound ==
    ASSUME ReleaseInv, NEW j \in Jobs, NEW outcome \in {"refused", "failed"}, Ends(j, outcome)
    PROVE  \E r \in Job : Goes(j, r, {}) /\ r.at = "ended" /\ Sound(r)
BY EndedSound DEF Ends

LEMMA EndsOther ==
    ASSUME ReleaseInv, NEW j \in Jobs, NEW outcome \in {"refused", "failed"}, Ends(j, outcome),
           UNCHANGED world
    PROVE  ReleaseInv'
<1>1. PICK r \in Job : Goes(j, r, {}) /\ r.at = "ended" /\ Sound(r)
  BY EndsSound
<1> QED
  BY <1>1, JobGoesOn

\* A deploy that succeeds takes with it what the gate saw.
LEMMA EndsWell ==
    ASSUME ReleaseInv, NEW j \in Jobs, job[j].at = "seed", Ends(j, "success"), UNCHANGED world
    PROVE  ReleaseInv'
<1>1. job \in [Jobs -> Job] /\ job[j] \in Job /\ Sound(job[j])
  BY Types DEF ReleaseInv
<1> DEFINE r == [Idle EXCEPT !.kind = job[j].kind, !.at = "ended", !.outcome = "success",
                             !.want = job[j].want, !.running = job[j].running, !.apart = job[j].apart]
<1>2. Goes(j, r, {})
  BY DEF Ends, Ended
<1>3. Idle \in Job
  BY DEF Idle, Job, Phases, MaybeImage
<1>4. /\ job[j].kind \in {"none", "deploy", "source", "manual"} /\ "ended" \in Phases
      /\ job[j].want \in Trees \cup {NoCommit} /\ job[j].running \in MaybeImage
      /\ job[j].apart \in BOOLEAN
  BY <1>1 DEF Job, Phases
<1>5. r \in Job
  BY <1>3, <1>4 DEF Job
<1>6. r.kind = job[j].kind /\ r.at = "ended" /\ r.outcome = "success" /\ r.running = job[j].running
      /\ r.release = NoCommit /\ r.want = job[j].want /\ r.apart = job[j].apart
  BY DEF Idle
<1> HIDE DEF r
<1>7. Undisturbed(r) => Undisturbed(job[j])
  BY <1>6 DEF Undisturbed, Gating
<1>8. Shape(r) /\ Released(r) /\ Vetted(r) /\ Built(r)
  BY <1>1, <1>6, ReleaseAssumption
  DEF Sound, Shape, Released, Vetted, Built, Named, Script, Asking, Agreed, Compared, Releasing, Trees
<1>9. Shown(r) /\ Right(r) /\ Serves(r)
  BY <1>1, <1>6, <1>7 DEF Sound, Shown, Right, Serves, Agreed
<1> QED
  BY <1>2, <1>5, <1>6, <1>8, <1>9, JobGoesOn DEF Sound

-----------------------------------------------------------------------------
(***************************************************************************)
(* The steps that read the world and leave it.                             *)
(***************************************************************************)

LEMMA BeginKeeps ==
    ASSUME ReleaseInv, NEW j \in Jobs, Begin(j)
    PROVE  ReleaseInv'
<1>1. PICK kind \in {"deploy", "source", "manual"} :
         Goes(j, [Idle EXCEPT !.kind = kind, !.at = IF kind = "deploy" THEN "workflow" ELSE "start"], {})
  BY DEF Begin
<1> DEFINE r == [Idle EXCEPT !.kind = kind, !.at = IF kind = "deploy" THEN "workflow" ELSE "start"]
<1>2. Idle \in Job
  BY DEF Idle, Job, Phases, MaybeImage
<1>3. r \in Job
  <2>1. (IF kind = "deploy" THEN "workflow" ELSE "start") \in Phases
    BY DEF Phases, Checking
  <2> QED
    BY <1>2, <2>1 DEF Job
<1>4. /\ r.kind = kind /\ r.at = (IF kind = "deploy" THEN "workflow" ELSE "start")
      /\ r.ready = NoCommit /\ r.release = NoCommit /\ r.want = NoCommit
      /\ r.running = NoImage /\ r.outcome = "none"
  BY DEF Idle
<1> HIDE DEF r
<1>5. Sound(r)
  BY <1>4, ReleaseAssumption
  DEF Sound, Shape, Released, Vetted, Built, Shown, Right, Serves, Undisturbed, Named, Script, Asking,
      Releasing, Trees, Gating
<1>6. Goes(j, r, {}) /\ UNCHANGED world
  BY <1>1 DEF Begin, r
<1> QED
  BY <1>3, <1>4, <1>5, <1>6, JobGoesOn

\* The guards before the row, and the commit of the release.
LEMMA GuardsKeep ==
    ASSUME ReleaseInv, NEW j \in Jobs,
           CiHead(j) \/ FetchRuns(j) \/ ReleaseHead(j) \/ ImageExists(j) \/ PinRead(j)
    PROVE  ReleaseInv'
<1> USE DEF Named, Script, Asking, Agreed, Compared, Releasing, Gating, Checking
<1>1. /\ job \in [Jobs -> Job] /\ job[j] \in Job /\ Sound(job[j])
      /\ git.head \in Commits /\ config \in Config
  BY Types, ReleaseAssumption DEF ReleaseInv, WorldTypes
<1>2. Shape(job[j]) /\ Vetted(job[j]) /\ Released(job[j])
  BY <1>1 DEF Sound
<1>3. CASE CiHead(j)
  <2> DEFINE r == [job[j] EXCEPT !.at = "ciRuns", !.ready = git.head]
  <2>1. At(j, "workflow") /\ UNCHANGED world
    BY <1>3 DEF CiHead
  <2>2. CASE Goes(j, r, {})
    <3>1. r \in Job
      BY <1>1 DEF Job, Phases
    <3>2. /\ r.at = "ciRuns" /\ r.ready \in Commits /\ r.kind = job[j].kind
          /\ r.release = job[j].release /\ r.want = job[j].want
          /\ r.running = job[j].running /\ r.outcome = job[j].outcome
      BY <1>1 DEF Job
    <3> HIDE DEF r
    <3>3. Sound(r)
      BY <1>2, <2>1, <3>2
      DEF At, Sound, Shape, Released, Vetted, Built, Shown, Right, Serves, Undisturbed
    <3> QED
      BY <2>1, <2>2, <3>1, <3>2, <3>3, JobGoesOn
  <2>3. CASE Moves(j, "guards")
    BY <1>1, <1>2, <2>1, <2>3, GoesToPhase DEF At, Shape, Phases, Undisturbed
  <2> QED
    BY <1>3, <2>2, <2>3 DEF CiHead
<1>4. CASE FetchRuns(j)
  <2>1. At(j, "ciRuns") /\ UNCHANGED world
    BY <1>4 DEF FetchRuns
  <2>2. CASE ci[job[j].ready] = "success" /\ Moves(j, "guards")
    BY <1>1, <1>2, <2>1, <2>2, GoesToPhase DEF At, Shape, Phases, Undisturbed
  <2>3. CASE Ends(j, "refused")
    BY <2>1, <2>3, EndsOther
  <2> QED
    BY <1>4, <2>2, <2>3 DEF FetchRuns
<1>5. CASE ReleaseHead(j)
  <2> DEFINE phase == IF config.skipBuild THEN "pinRead" ELSE "exists"
             r == [job[j] EXCEPT !.release = git.head, !.at = phase]
  <2>1. At(j, "relHead") /\ UNCHANGED world
    BY <1>5 DEF ReleaseHead
  <2>2. CASE Goes(j, r, {})
    <3>1. r \in Job
      <4>1. phase \in Phases
        BY DEF Phases
      <4> HIDE DEF phase
      <4> QED
        BY <1>1, <4>1 DEF Job
    <3>2. /\ r.at \in {"pinRead", "exists"} /\ r.ready = job[j].ready /\ r.kind = job[j].kind
          /\ r.release = git.head /\ r.want = job[j].want
          /\ r.running = job[j].running /\ r.outcome = job[j].outcome
      BY <1>1 DEF Job
    <3> HIDE DEF r
    <3>3. Sound(r)
      BY <1>1, <1>2, <2>1, <3>2
      DEF At, Sound, Shape, Released, Vetted, Built, Shown, Right, Serves, Undisturbed, Commits
    <3> QED
      BY <2>1, <2>2, <3>1, <3>2, <3>3, JobGoesOn
  <2>3. CASE Ends(j, "failed")
    BY <2>1, <2>3, EndsOther
  <2> QED
    BY <1>5, <2>2, <2>3 DEF ReleaseHead
<1>6. CASE ImageExists(j)
  <2>1. At(j, "exists") /\ UNCHANGED world
    BY <1>6 DEF ImageExists
  <2>2. CASE Moves(j, "pinRead")
    BY <1>1, <1>2, <2>1, <2>2, GoesToPhase DEF At, Shape, Vetted, Phases, Undisturbed
  <2>3. CASE Moves(j, "pull") /\ config.remote
    BY <1>1, <1>2, <2>1, <2>3, GoesToPhase DEF At, Shape, Vetted, Phases, Undisturbed
  <2>4. CASE Moves(j, "local") /\ ~config.remote
    BY <1>1, <1>2, <2>1, <2>4, GoesToPhase DEF At, Shape, Vetted, Phases, Undisturbed
  <2> QED
    BY <1>6, <2>2, <2>3, <2>4 DEF ImageExists
<1>7. CASE PinRead(j)
  <2>1. At(j, "pinRead") /\ UNCHANGED world
    BY <1>7 DEF PinRead
  <2>2. ASSUME NEW phase \in {"coolify", "pinWrite"}, Moves(j, phase) PROVE ReleaseInv'
    BY <1>1, <1>2, <2>1, <2>2, GoesToPhase DEF At, Shape, Vetted, Phases, Undisturbed
  <2> QED
    BY <1>7, <2>2 DEF PinRead
<1> QED
  BY <1>3, <1>4, <1>5, <1>6, <1>7

\* Coolify is called, fails, or is given up; the gate is asked.
LEMMA PollerKeeps ==
    ASSUME ReleaseInv, NEW j \in Jobs,
           CallCoolify(j) \/ Deadline(j) \/ StartGate(j)
    PROVE  ReleaseInv'
<1> USE DEF Named, Script, Asking, Agreed, Compared, Releasing, Gating
<1>1. /\ job \in [Jobs -> Job] /\ job[j] \in Job /\ Sound(job[j])
      /\ config \in Config
  BY Types, ReleaseAssumption DEF ReleaseInv, WorldTypes
<1>2. Shape(job[j]) /\ Vetted(job[j]) /\ Released(job[j])
  BY <1>1 DEF Sound
<1>3. CASE CallCoolify(j)
  <2> DEFINE want == IF config.ecr THEN job[j].release ELSE job[j].ready
             r == [job[j] EXCEPT !.at = "deploying", !.want = want]
  <2>1. At(j, "coolify") /\ UNCHANGED world /\ Goes(j, r, {})
    BY <1>3 DEF CallCoolify
  <2>2. want \in Commits \cup {NoCommit}
    BY <1>1 DEF Job
  <2> HIDE DEF want
  <2>3. r \in Job
    BY <1>1, <2>2 DEF Job, Phases, Trees
  <2>4. /\ r.at = "deploying" /\ r.ready = job[j].ready /\ r.kind = job[j].kind
        /\ r.release = job[j].release /\ r.want = want
        /\ r.running = job[j].running /\ r.outcome = job[j].outcome
    BY <1>1 DEF Job
  <2>5. want # StagingTree
    BY <2>2, ReleaseAssumption DEF Trees, StagingTree, Commits
  <2> HIDE DEF r
  <2>6. Sound(r)
    BY <1>2, <2>1, <2>4, <2>5
    DEF At, Sound, Shape, Released, Vetted, Built, Shown, Right, Serves, Undisturbed
  <2> QED
    BY <2>1, <2>3, <2>4, <2>6, JobGoesOn
<1>4. CASE Deadline(j)
  <2> DEFINE r == [job[j] EXCEPT !.at = "late", !.outcome = "failed"]
  <2>1. At(j, "deploying") /\ UNCHANGED world /\ Goes(j, r, {})
    BY <1>4 DEF Deadline
  <2>2. r \in Job
    <3>1. "late" \in Phases
      BY DEF Phases
    <3> QED
      BY <1>1, <3>1 DEF Job
  <2>3. /\ r.at = "late" /\ r.ready = job[j].ready /\ r.kind = job[j].kind
        /\ r.release = job[j].release /\ r.want = job[j].want
        /\ r.running = job[j].running /\ r.outcome = "failed"
    BY <1>1 DEF Job
  <2> HIDE DEF r
  <2>4. Sound(r)
    BY <1>2, <2>1, <2>3
    DEF At, Sound, Shape, Released, Vetted, Built, Shown, Right, Serves, Undisturbed
  <2> QED
    BY <2>1, <2>2, <2>3, <2>4, JobGoesOn
<1>5. CASE StartGate(j)
  <2>1. At(j, "deployed") /\ UNCHANGED world
    BY <1>5 DEF StartGate
  <2>2. PICK want \in {job[j].want, job[j].cloned} :
           Goes(j, [job[j] EXCEPT !.want = want, !.apart = TRUE,
                                  !.at = IF want = NoCommit THEN "copies" ELSE "verify"], {})
    BY <1>5 DEF StartGate
  <2> DEFINE phase == IF want = NoCommit THEN "copies" ELSE "verify"
             r == [job[j] EXCEPT !.want = want, !.apart = TRUE, !.at = phase]
  <2>3. /\ want \in Trees \cup {NoCommit}
        /\ job[j].kind = "deploy" => want # StagingTree
    BY <1>1, <1>2, ReleaseAssumption DEF Job, Shape, Trees, StagingTree, Commits
  <2>4. r \in Job
    <3>1. phase \in Phases
      BY DEF Phases
    <3> HIDE DEF phase
    <3> QED
      BY <1>1, <2>3, <3>1 DEF Job
  <2>5. /\ r.at = phase /\ r.kind = job[j].kind
        /\ r.release = job[j].release /\ r.want = want
        /\ r.running = job[j].running /\ r.outcome = job[j].outcome
    BY <1>1 DEF Job
  <2>6. Goes(j, r, {})
    BY <2>2
  <2> HIDE DEF r
  <2>7. Sound(r)
    BY <1>2, <2>1, <2>3, <2>5
    DEF At, Sound, Shape, Released, Vetted, Built, Shown, Right, Serves, Undisturbed
  <2> QED
    BY <2>1, <2>4, <2>5, <2>6, <2>7, JobGoesOn
<1> QED
  BY <1>3, <1>4, <1>5

\* The sections of the gate that leave the host as it is.
LEMMA GateKeeps ==
    ASSUME ReleaseInv, NEW j \in Jobs,
           Verify(j) \/ CommitTag(j) \/ Label(j) \/ CountUsers(j) \/ Seed(j)
    PROVE  ReleaseInv'
<1> USE DEF Named, Script, Asking, Agreed, Compared, Releasing, Gating
<1>1. /\ job \in [Jobs -> Job] /\ job[j] \in Job /\ Sound(job[j])
      /\ config \in Config /\ WorldInv /\ WorldTypes
  BY Types, ReleaseAssumption DEF ReleaseInv, WorldTypes
<1>2. Shape(job[j]) /\ Shown(job[j]) /\ Right(job[j]) /\ Serves(job[j])
  BY <1>1 DEF Sound
<1>3. job[j].kind = "deploy" /\ job[j].want # NoCommit => job[j].want \in Commits
  BY <1>1, <1>2 DEF Shape, Job, Trees
<1>4. CASE Verify(j)
  <2>1. At(j, "verify") /\ UNCHANGED world
    BY <1>4 DEF Verify
  <2> DEFINE r == [job[j] EXCEPT !.running = Running(j), !.at = "compare"]
  <2>2. CASE Goes(j, r, {})
    <3>1. /\ Running(j) \in MaybeImage
          /\ Running(j) # NoImage => Honest(Running(j))
          /\ job[j].kind = "deploy" => Running(j) = host.app
      BY <1>1 DEF Running, WorldTypes, WorldInv, HonestImages
    <3>2. "compare" \in Phases
      BY DEF Phases
    <3>3. r \in Job
      BY <1>1, <3>1, <3>2 DEF Job
    <3>4. /\ r.at = "compare" /\ r.kind = job[j].kind
          /\ r.release = job[j].release /\ r.want = job[j].want
          /\ r.running = Running(j) /\ r.outcome = job[j].outcome
      BY <1>1 DEF Job
    <3> HIDE DEF r
    <3>5. Shape(r) /\ Released(r) /\ Vetted(r) /\ Built(r)
      BY <1>1, <1>2, <2>1, <3>1, <3>4 DEF At, Sound, Shape, Released, Vetted, Built
    <3>6. Shown(r) /\ Right(r) /\ Serves(r)
      BY <3>1, <3>4 DEF Shown, Right, Serves, Undisturbed
    <3> QED
      BY <2>1, <2>2, <3>3, <3>4, <3>5, <3>6, JobGoesOn DEF Sound
  <2>3. CASE Moves(j, "copies")
    BY <1>2, <2>1, <2>3, GoesToPhase DEF At, Shape, Phases
  <2> QED
    BY <1>4, <2>2, <2>3 DEF Verify
<1>5. CASE CommitTag(j)
  <2>1. At(j, "commitTag") /\ UNCHANGED world
    BY <1>5 DEF CommitTag
  <2>2. CASE Ends(j, "failed")
    BY <2>1, <2>2, EndsOther
  <2>3. CASE /\ registry[job[j].want] # NoImage /\ registry[job[j].want] = job[j].running
             /\ Moves(j, "label")
    <3>1. Undisturbed(job[j]) => Contains(job[j].running, job[j].want)
      BY <1>1, <1>2, <1>3, <2>1, <2>3 DEF At, Undisturbed, Shape, WorldInv, ByCommit
    <3> QED
      BY <1>2, <2>1, <2>3, <3>1, GoesToPhase DEF At, Shape, Phases
  <2> QED
    BY <1>5, <2>2, <2>3 DEF CommitTag
<1>6. CASE Label(j)
  <2>1. At(j, "label") /\ UNCHANGED world
    BY <1>6 DEF Label
  <2>2. CASE Ends(j, "failed")
    BY <2>1, <2>2, EndsOther
  <2>3. CASE Moves(j, "copies") /\ (IF Running(j) = job[j].running THEN job[j].running.label ELSE NoCommit)
                                       \in {job[j].want, NoCommit}
    <3>1. ASSUME Undisturbed(job[j]), job[j].running # NoImage,
                 job[j].running.label # NoCommit \/ config.ecr
          PROVE  job[j].want \in Commits /\ Contains(job[j].running, job[j].want)
      <4>1. Running(j) = job[j].running
        BY <1>2, <3>1 DEF Running, Shown, Undisturbed
      <4>2. job[j].want \in Commits
        BY <1>2, <1>3, <2>1, <3>1 DEF At, Shape, Undisturbed
      <4>3. CASE job[j].running.label # NoCommit
        BY <1>2, <2>3, <3>1, <4>1, <4>2, <4>3 DEF Shape, Honest
      <4>4. CASE config.ecr
        BY <1>2, <2>1, <3>1, <4>2, <4>4 DEF At, Right
      <4> QED
        BY <3>1, <4>3, <4>4
    <3>2. ASSUME Undisturbed(job[j]), job[j].running # NoImage
          PROVE  job[j].running.label \in {job[j].want, NoCommit}
      <4>1. Running(j) = job[j].running
        BY <1>2, <3>2 DEF Running, Shown, Undisturbed
      <4> QED
        BY <2>3, <4>1
    <3> QED
      BY <1>2, <2>1, <2>3, <3>1, <3>2, GoesToPhase DEF At, Shape, Phases
  <2> QED
    BY <1>6, <2>2, <2>3 DEF Label
<1>7. CASE CountUsers(j)
  <2>1. At(j, "count") /\ UNCHANGED world
    BY <1>7 DEF CountUsers
  <2>2. CASE Ends(j, "failed")
    BY <2>1, <2>2, EndsOther
  <2>3. CASE Moves(j, "seed")
    BY <1>2, <2>1, <2>3, GoesToPhase DEF At, Shape, Phases, Right, Serves
  <2> QED
    BY <1>7, <2>2, <2>3 DEF CountUsers
<1>8. CASE Seed(j)
  BY <1>8, EndsWell DEF Seed, At
<1> QED
  BY <1>4, <1>5, <1>6, <1>7, <1>8

\* A call, a command or a script fails.
LEMMA FailureKeeps ==
    ASSUME ReleaseInv, NEW j \in Jobs,
           Throws(j) \/ GateThrows(j) \/ CoolifyFails(j) \/ Dies(j)
    PROVE  ReleaseInv'
<1>1. /\ job \in [Jobs -> Job] /\ job[j] \in Job /\ Shape(job[j])
  BY Types DEF ReleaseInv, Sound
<1>2. CASE Throws(j) \/ GateThrows(j) \/ CoolifyFails(j)
  BY <1>2, EndsOther DEF Throws, GateThrows, CoolifyFails
<1>3. CASE Dies(j)
  BY <1>1, <1>3, GoesToPhase
  DEF Dies, Shape, Phases, Named, Script, Asking, Agreed, Compared, Releasing, Gating, Undisturbed
<1> QED
  BY <1>2, <1>3

\* A build from source is launched, becomes healthy, or is read by its poller.
LEMMA SourceKeeps ==
    ASSUME ReleaseInv, NEW j \in Jobs,
           Launch(j) \/ Healthy(j) \/ PollDone(j) \/ PollError(j) \/ SourceDeadline(j)
    PROVE  ReleaseInv'
<1> USE DEF Named, Script, Asking, Agreed, Compared, Releasing, Gating
<1>1. /\ job \in [Jobs -> Job] /\ job[j] \in Job /\ Shape(job[j]) /\ Released(job[j])
  BY Types DEF ReleaseInv, Sound
\* The outcome is written; the script is where it was.
<1>2. ASSUME NEW outcome \in {"success", "failed"}, job[j].kind # "deploy",
             job[j].at \in Script \cup {"dead", "done"},
             Goes(j, [job[j] EXCEPT !.outcome = outcome], {}), UNCHANGED world
      PROVE  ReleaseInv'
  <2> DEFINE r == [job[j] EXCEPT !.outcome = outcome]
  <2>1. r \in Job
    BY <1>1 DEF Job
  <2>2. /\ r.at = job[j].at /\ r.kind = job[j].kind /\ r.release = job[j].release
        /\ r.want = job[j].want /\ r.running = job[j].running
    BY <1>1 DEF Job
  <2>3. Goes(j, r, {})
    BY <1>2
  <2> HIDE DEF r
  <2>4. Sound(r)
    BY <1>1, <1>2, <2>2
    DEF Sound, Shape, Released, Vetted, Built, Shown, Right, Serves, Undisturbed
  <2> QED
    BY <1>2, <2>1, <2>2, <2>3, <2>4, JobGoesOn
<1>3. CASE Launch(j)
  <2>1. At(j, "start") /\ UNCHANGED world
    BY <1>3 DEF Launch
  <2>2. ASSUME NEW outcome \in {job[j].outcome, "queued"},
               Goes(j, [job[j] EXCEPT !.at = "checkout", !.outcome = outcome], {})
        PROVE  ReleaseInv'
    <3> DEFINE r == [job[j] EXCEPT !.at = "checkout", !.outcome = outcome]
    <3>1. "checkout" \in Phases /\ outcome \in {"none", "queued", "refused", "failed", "success"}
      BY <1>1 DEF Job, Phases
    <3>2. r \in Job
      BY <1>1, <3>1 DEF Job
    <3>3. /\ r.at = "checkout" /\ r.kind = job[j].kind /\ r.release = job[j].release
          /\ r.want = job[j].want /\ r.running = job[j].running
      BY <1>1 DEF Job
    <3>4. Goes(j, r, {})
      BY <2>2
    <3> HIDE DEF r
    <3>5. Sound(r)
      BY <1>1, <2>1, <3>3
      DEF At, Sound, Shape, Released, Vetted, Built, Shown, Right, Serves, Undisturbed
    <3> QED
      BY <2>1, <3>2, <3>3, <3>4, <3>5, JobGoesOn
  <2>3. [job[j] EXCEPT !.at = "checkout"] = [job[j] EXCEPT !.at = "checkout", !.outcome = job[j].outcome]
    BY <1>1 DEF Job
  <2>4. CASE Ends(j, "failed")
    BY <2>1, <2>4, EndsOther
  <2> QED
    BY <1>3, <2>2, <2>3, <2>4 DEF Launch
<1>4. CASE Healthy(j)
  BY <1>1, <1>4, GoesToPhase DEF Healthy, At, Shape, Phases, Undisturbed
<1>5. CASE PollDone(j)
  <2>1. At(j, "done") /\ UNCHANGED world
    BY <1>5 DEF PollDone
  <2>2. CASE job[j].kind = "manual" /\ Goes(j, [job[j] EXCEPT !.outcome = "success"], {})
    BY <1>2, <2>1, <2>2 DEF At
  <2>3. CASE Moves(j, "verify")
    BY <1>1, <2>1, <2>3, GoesToPhase DEF At, Shape, Phases, Undisturbed
  <2> QED
    BY <1>5, <2>2, <2>3 DEF PollDone
<1>6. CASE PollError(j) \/ SourceDeadline(j)
  BY <1>2, <1>6 DEF PollError, SourceDeadline, Polled
<1> QED
  BY <1>3, <1>4, <1>5, <1>6

-----------------------------------------------------------------------------
(***************************************************************************)
(* GitHub.                                                                 *)
(***************************************************************************)

LEMMA WorldMoves ==
    ASSUME ReleaseInv, UNCHANGED job, WorldTypes', WorldInv', BuilderIsLast',
           \A k \in Jobs : Spares(k)
    PROVE  ReleaseInv'
<1>1. \A k \in Jobs : Sound(job[k])'
  BY Bystander DEF Stays
<1>2. TypeOK'
  BY Types DEF ReleaseInv, TypeOK, WorldTypes, Job
<1> QED
  BY <1>1, <1>2 DEF ReleaseInv

\* A job is spared by a step that leaves the build server, the containers and CI alone.
LEMMA Spared ==
    ASSUME ReleaseInv, NEW k \in Jobs,
           config' = config, git'.head \in git.head .. MaxCommit,
           \A c \in Commits : ci[c] = "success" => ci'[c] = "success",
           server'.built = server.built, server'.tags = server.tags,
           host'.app = host.app, host'.copy = host.copy, host'.mongo = host.mongo
    PROVE  Spares(k)
<1>1. Sound(job[k])
  BY DEF ReleaseInv
<1> QED
  BY <1>1 DEF Spares, Sound, Built

LEMMA GitHubKeeps ==
    ASSUME ReleaseInv, Push \/ \E c \in Commits : Actions(c)
    PROVE  ReleaseInv'
<1>1. WorldTypes /\ WorldInv /\ MaxCommit \in Nat /\ git.head \in git.head .. MaxCommit
  BY Types, ReleaseAssumption DEF ReleaseInv, WorldTypes, Commits
<1>2. CASE Push
  <2>1. UNCHANGED <<config, ci, registry, server, host, staging, job>>
    BY <1>2 DEF Push
  <2>2. /\ git'.head = git.head + 1 /\ git'.pinned = git.pinned /\ git.head < MaxCommit
        /\ ~git.pinned => git.head < MaxCommit - 1
        /\ git' \in [head : Commits, pinned : BOOLEAN]
    BY <1>1, <1>2 DEF Push, WorldTypes, Commits
  <2>3. WorldTypes' /\ WorldInv'
    BY <1>1, <2>1, <2>2
    DEF WorldTypes, WorldInv, HonestImages, ByCommit, BuiltByActions, RoomForThePin, Honest, Contains
  <2>4. BuilderIsLast'
    BY <2>1 DEF ReleaseInv, BuilderIsLast, At
  <2>5. git'.head \in git.head .. MaxCommit
    BY <1>1, <2>2
  <2>6. \A k \in Jobs : Spares(k)
    BY <2>1, <2>5, Spared
  <2> QED
    BY <2>1, <2>3, <2>4, <2>6, WorldMoves
<1>3. ASSUME NEW c \in Commits, Actions(c) PROVE ReleaseInv'
  <2>1. UNCHANGED <<config, git, server, host, staging, job>>
    BY <1>3 DEF Actions
  <2> DEFINE image == [source |-> c, label |-> IF config.labelled THEN c ELSE NoCommit,
                       by |-> "actions", clean |-> TRUE]
  <2>2. /\ image \in MaybeImage /\ image # NoImage
        /\ Honest(image) /\ Contains(image, c)
    <3>1. image \in Image
      BY DEF Image, Trees
    <3>2. Contains(image, c)
      BY <1>1 DEF Contains, Commits
    <3> QED
      BY <3>1, <3>2, ReleaseAssumption DEF MaybeImage, Honest
  <2> HIDE DEF image
  <2>3. /\ ci' \in [Commits -> {"none", "running", "success"}]
        /\ registry' \in [Tags -> MaybeImage]
        /\ \A t \in Tags : registry'[t] \in {registry[t], image}
        /\ \A d \in Commits : /\ registry'[d] = registry[d] \/ (d = c /\ registry'[d] = image)
                              /\ ci[d] = "success" => ci'[d] = "success"
                              /\ ci'[d] = "success" => ci[d] = "success" \/ registry'[d] = image
    <3>1. CASE UNCHANGED registry /\ ci[c] # "success" /\ \E s \in {"none", "running"} : ci' = [ci EXCEPT ![c] = s]
      BY <1>1, <3>1 DEF WorldTypes
    <3>2. CASE /\ ci' = [ci EXCEPT ![c] = "success"]
               /\ registry' = [registry EXCEPT ![Rolling] = image, ![c] = image]
      <4>1. Rolling \in Tags /\ Rolling \notin Commits /\ Commits \subseteq Tags
        BY ReleaseAssumption DEF Tags
      <4> QED
        BY <1>1, <2>2, <3>2, <4>1 DEF WorldTypes
    <3> QED
      BY <1>3, <3>1, <3>2 DEF Actions, image
  <2>4. Commits \subseteq Tags
    BY DEF Tags
  <2>5. WorldTypes' /\ WorldInv'
    <3>1. WorldTypes'
      BY <1>1, <2>1, <2>3 DEF WorldTypes
    <3>2. HonestImages'
      BY <1>1, <2>1, <2>2, <2>3 DEF WorldInv, HonestImages, Honest, Contains
    <3>3. ByCommit'
      BY <1>1, <2>1, <2>2, <2>3 DEF WorldInv, ByCommit, Contains
    <3>4. BuiltByActions'
      BY <1>1, <2>1, <2>2, <2>3 DEF WorldInv, BuiltByActions
    <3>5. RoomForThePin'
      BY <1>1, <2>1 DEF WorldInv, RoomForThePin
    <3> QED
      BY <3>1, <3>2, <3>3, <3>4, <3>5 DEF WorldInv
  <2>6. BuilderIsLast'
    BY <2>1 DEF ReleaseInv, BuilderIsLast, At
  <2>7. \A k \in Jobs : Spares(k)
    BY <1>1, <2>1, <2>3, Spared
  <2> QED
    BY <2>1, <2>5, <2>6, <2>7, WorldMoves
<1> QED
  BY <1>2, <1>3

-----------------------------------------------------------------------------
(***************************************************************************)
(* The steps that build, tag and push an image, and those on the hosts.    *)
(***************************************************************************)

\* What holds before any step of a job.
LEMMA BeforeAStep ==
    ASSUME ReleaseInv, NEW j \in Jobs
    PROVE  /\ job \in [Jobs -> Job] /\ job[j] \in Job /\ Sound(job[j])
           /\ WorldTypes /\ WorldInv /\ BuilderIsLast /\ config \in Config
           /\ MaxCommit \in Nat /\ git.head \in Commits /\ git.head \in git.head .. MaxCommit
           /\ Commits \subseteq Tags /\ Rolling \in Tags /\ Rolling \notin Commits
  BY Types, ReleaseAssumption DEF ReleaseInv, WorldTypes, Commits, Tags

\* A record with another phase.
LEMMA PhaseOf ==
    ASSUME NEW r \in Job, NEW phase \in Phases
    PROVE  LET n == [r EXCEPT !.at = phase] IN
           /\ n \in Job /\ n.at = phase
           /\ n.kind = r.kind /\ n.ready = r.ready /\ n.release = r.release /\ n.want = r.want
           /\ n.running = r.running /\ n.outcome = r.outcome /\ n.apart = r.apart
  BY DEF Job

\* One that has, or has had, the directory to itself.
LEMMA ApartOf ==
    ASSUME NEW r \in Job, NEW phase \in Phases
    PROVE  LET n == [r EXCEPT !.at = phase, !.apart = TRUE] IN
           /\ n \in Job /\ n.at = phase
           /\ n.kind = r.kind /\ n.ready = r.ready /\ n.release = r.release /\ n.want = r.want
           /\ n.running = r.running /\ n.outcome = r.outcome
  BY DEF Job

\* The directory as it was, and nobody new at work in it.
LEMMA DirectoryKept ==
    ASSUME ReleaseInv, NEW j \in Jobs, server'.tree = server.tree,
           job'[j].at \notin {"build", "tag"}, \A k \in Jobs \ {j} : Stays(k)
    PROVE  BuilderIsLast'
  BY DEF ReleaseInv, BuilderIsLast, At, Stays

LEMMA PinVolumeKeeps ==
    ASSUME ReleaseInv, NEW j \in Jobs, PinVolume(j)
    PROVE  ReleaseInv'
<1> USE DEF Named, Script, Asking, Agreed, Compared, Releasing, Gating
<1>1. Sound(job[j]) /\ job[j] \in Job /\ WorldTypes /\ WorldInv /\ git.head \in git.head .. MaxCommit
  BY BeforeAStep
<1>2. PICK phase \in {"relHead", "coolify"} : Moves(j, phase)
  BY DEF PinVolume
<1>3. At(j, "guards") /\ UNCHANGED <<config, git, ci, registry, server, staging>>
  BY DEF PinVolume
<1>4. /\ WorldTypes' /\ host'.tags = host.tags /\ host'.app = host.app
      /\ host'.copy = host.copy /\ host'.mongo = host.mongo
  <2>1. host' = host \/ host' = [host EXCEPT !.volume = TRUE]
    BY DEF PinVolume
  <2>2. /\ host' \in [rolling : BOOLEAN, volume : BOOLEAN, tags : [Tags -> MaybeImage],
                     app : MaybeImage, mongo : {"none", "data", "empty"}, copy : {"none", "data", "empty"}]
        /\ host'.tags = host.tags /\ host'.app = host.app
        /\ host'.copy = host.copy /\ host'.mongo = host.mongo
    BY <1>1, <2>1 DEF WorldTypes
  <2> QED
    BY <1>1, <1>3, <2>2 DEF WorldTypes
<1>5. WorldInv'
  BY <1>1, <1>3, <1>4
  DEF WorldInv, HonestImages, ByCommit, BuiltByActions, RoomForThePin, Honest, Contains
<1> DEFINE r == [job[j] EXCEPT !.at = phase]
<1>6. /\ r \in Job /\ r.at = phase
      /\ r.kind = job[j].kind /\ r.ready = job[j].ready /\ r.release = job[j].release
      /\ r.want = job[j].want /\ r.running = job[j].running /\ r.outcome = job[j].outcome
  <2>1. phase \in Phases
    BY DEF Phases
  <2> QED
    BY <1>1, <2>1, PhaseOf
<1>7. Goes(j, r, {})
  BY <1>2 DEF Moves
<1> HIDE DEF r
<1>8. job' \in [Jobs -> Job] /\ job'[j] = r /\ \A k \in Jobs \ {j} : Stays(k)
  BY <1>6, <1>7, GoesTo DEF ReleaseInv
<1>9. Sound(job[j])'
  BY <1>1, <1>3, <1>6, <1>8
  DEF At, Sound, Shape, Released, Vetted, Built, Shown, Right, Serves, Undisturbed
<1>10. \A k \in Jobs : Spares(k)
  BY <1>1, <1>3, <1>4, Spared
<1>11. BuilderIsLast'
  BY <1>3, <1>6, <1>8, DirectoryKept
<1> QED
  BY <1>4, <1>5, <1>8, <1>9, <1>10, <1>11, JobMoves

\* An image is built, and goes by the local name: here it contains the commits of all that
\* have not tagged theirs, or its builder is not sure.
LEMMA BuildKeeps ==
    ASSUME ReleaseInv, NEW j \in Jobs, BuildLocal(j) \/ Build(j)
    PROVE  ReleaseInv'
<1> USE DEF Named, Script, Asking, Agreed, Compared, Releasing, Gating
<1>1. /\ Sound(job[j]) /\ job[j] \in Job /\ WorldTypes /\ WorldInv /\ BuilderIsLast
      /\ git.head \in git.head .. MaxCommit
  BY BeforeAStep
<1>2. PICK tree \in Trees, clean \in BOOLEAN :
         /\ server' = [server EXCEPT !.built = [source |-> tree, label |-> job[j].release,
                                                by |-> j, clean |-> clean]]
         /\ clean => At(j, "build") /\ job[j].apart /\ tree = server.tree
  BY <1>1 DEF BuildLocal, Build, WorldTypes, Job
<1>3. /\ job[j].at \in {"local", "build"}
      /\ UNCHANGED <<config, git, ci, registry, host, staging>>
      /\ Goes(j, [job[j] EXCEPT !.at = "tag"], Sharing({"tag"}))
  BY DEF BuildLocal, Build, At
<1>4. job[j].release \in Commits
  BY <1>1, <1>3 DEF Sound, Shape
<1> DEFINE image == [source |-> tree, label |-> job[j].release, by |-> j, clean |-> clean]
<1>5. image \in Image /\ image # NoImage
  BY <1>2, <1>4, ReleaseAssumption DEF Image
<1>6. \A k \in Jobs : job[k].at \in {"build", "tag"} => Contains(image, job[k].release)
  BY <1>1, <1>2 DEF Contains, BuilderIsLast
<1>7. Contains(image, job[j].release) /\ Honest(image)
  BY <1>2, <1>6 DEF Honest, Contains, At
<1>8. /\ server'.built = image /\ server'.tree = server.tree /\ server'.app = server.app
      /\ server'.tags = server.tags
      /\ server' \in [tree : Trees, built : MaybeImage, app : MaybeImage, tags : [Tags -> MaybeImage]]
  BY <1>1, <1>2, <1>5 DEF WorldTypes, MaybeImage
<1> HIDE DEF image
<1> DEFINE r == [job[j] EXCEPT !.at = "tag"]
<1>9. /\ r \in Job /\ r.at = "tag"
      /\ r.kind = job[j].kind /\ r.ready = job[j].ready /\ r.release = job[j].release
      /\ r.want = job[j].want /\ r.running = job[j].running /\ r.outcome = job[j].outcome
  <2>1. "tag" \in Phases
    BY DEF Phases
  <2> QED
    BY <1>1, <2>1, PhaseOf
<1> HIDE DEF r
<1>10. job' \in [Jobs -> Job] /\ job'[j] = r /\ \A k \in Jobs \ {j} : Stays(k)
  BY <1>3, <1>9, GoesTo DEF ReleaseInv, r
<1>11. WorldTypes'
  BY <1>1, <1>3, <1>8 DEF WorldTypes
<1>12. WorldInv'
  BY <1>1, <1>3, <1>7, <1>8
  DEF WorldInv, HonestImages, ByCommit, BuiltByActions, RoomForThePin, Honest, Contains
<1>13. BuilderIsLast'
  <2>1. ASSUME NEW i \in Jobs, NEW k \in Jobs, job'[i].at = "build", job'[i].apart,
               job'[k].at \in {"build", "tag"}
        PROVE  server.tree \in job'[k].release .. MaxCommit
    <3>1. i # j /\ job[i].at = "build" /\ job[i].apart
      BY <1>9, <1>10, <2>1 DEF Stays
    <3>2. config.remote
      BY <3>1 DEF ReleaseInv, Sound, Built
    <3>3. job[j].at = "build"
      BY <1>1, <1>3, <3>2 DEF Sound, Built
    <3>4. job[k].at \in {"build", "tag"} /\ job'[k].release = job[k].release
      BY <1>9, <1>10, <2>1, <3>3 DEF Stays
    <3> QED
      BY <1>1, <3>1, <3>4 DEF BuilderIsLast, At
  <2> QED
    BY <1>8, <2>1 DEF BuilderIsLast, At
<1>14. ASSUME NEW k \in Jobs \ {j} PROVE Spares(k)
  <2>1. Sound(job[k])
    BY DEF ReleaseInv
  <2> QED
    BY <1>1, <1>3, <1>5, <1>6, <1>8, <2>1 DEF Spares, Sound, Built
<1>15. Sound(job[j])'
  BY <1>1, <1>3, <1>4, <1>5, <1>8, <1>7, <1>9, <1>10
  DEF Sound, Shape, Released, Vetted, Built, Shown, Right, Serves, Undisturbed, Contains, Honest
<1> QED
  BY <1>10, <1>11, <1>12, <1>13, <1>14, <1>15, JobMoves

\* The builder that has just pulled has the branch's head, which contains the commit of
\* every release; the directory of the others is no longer theirs.
LEMMA PullKeeps ==
    ASSUME ReleaseInv, NEW j \in Jobs, Pull(j)
    PROVE  ReleaseInv'
<1> USE DEF Named, Script, Asking, Agreed, Compared, Releasing, Gating
<1>1. /\ Sound(job[j]) /\ job[j] \in Job /\ WorldTypes /\ WorldInv /\ git.head \in Commits
      /\ MaxCommit \in Nat /\ git.head \in git.head .. MaxCommit
  BY BeforeAStep
<1>2. At(j, "pull") /\ UNCHANGED <<config, git, ci, registry, host, staging>>
  BY DEF Pull
<1> DEFINE goesOn(pulled) == [job[j] EXCEPT !.at = "build", !.apart = pulled]
           others == Sharing({"build", "compose"})
\* The job goes on, or ends, as r; nobody who builds there has the directory to himself but j,
\* and he only if he has pulled.
<1>3. ASSUME NEW r \in Job, Goes(j, r, others), Sound(r)',
             (r.at = "build" /\ r.release = job[j].release) \/ r.at = "ended",
             r.at = "build" /\ r.apart => server'.tree = git.head,
             server' = server \/ \E tree \in 1 .. git.head : server' = [server EXCEPT !.tree = tree]
      PROVE  ReleaseInv'
  <2>1. /\ server'.built = server.built /\ server'.app = server.app /\ server'.tags = server.tags
        /\ server' \in [tree : Trees, built : MaybeImage, app : MaybeImage, tags : [Tags -> MaybeImage]]
    BY <1>1, <1>3 DEF WorldTypes, Trees, Commits
  <2>2. /\ job' \in [Jobs -> Job] /\ job'[j] = r
        /\ \A k \in Jobs \ {j} : Stays(k) /\ (job[k].at = "build" => ~job'[k].apart)
    BY <1>3, GoesTo DEF ReleaseInv, Sharing
  <2>3. WorldTypes' /\ WorldInv'
    BY <1>1, <1>2, <2>1
    DEF WorldTypes, WorldInv, HonestImages, ByCommit, BuiltByActions, RoomForThePin, Honest, Contains
  <2>4. BuilderIsLast'
    <3>1. ASSUME NEW k \in Jobs, job'[k].at \in {"build", "tag"}
          PROVE  git.head \in job'[k].release .. MaxCommit
      <4>1. /\ job'[k].release \in Commits /\ job'[k].release = job[k].release
            /\ Released(job[k])
        BY <1>1, <1>2, <1>3, <2>2, <3>1 DEF ReleaseInv, Sound, Shape, Stays, At
      <4> QED
        BY <1>1, <4>1 DEF Released, Commits
    <3>2. ASSUME NEW k \in Jobs, job'[k].at = "build", job'[k].apart PROVE server'.tree = git.head
      BY <1>3, <2>2, <3>2 DEF Stays
    <3> QED
      BY <3>1, <3>2 DEF BuilderIsLast, At
  <2>5. Sound(job[j])'
    BY <1>3, <2>2 DEF Sound, Shape, Released, Vetted, Built, Shown, Right, Serves, Undisturbed,
                      Contains, Honest
  <2>6. \A k \in Jobs : Spares(k)
    BY <1>1, <1>2, <2>1, Spared
  <2> QED
    BY <2>2, <2>3, <2>4, <2>5, <2>6, JobMoves
\* The build goes on, in what has been pulled or in what is there.
<1>4. ASSUME NEW pulled \in BOOLEAN, Goes(j, goesOn(pulled), others),
             IF pulled THEN server' = [server EXCEPT !.tree = git.head] ELSE server' = server
      PROVE  ReleaseInv'
  <2>1. PICK r \in Job :
           /\ r = goesOn(pulled) /\ r.at = "build" /\ r.apart = pulled
           /\ r.kind = job[j].kind /\ r.ready = job[j].ready /\ r.release = job[j].release
           /\ r.want = job[j].want /\ r.running = job[j].running /\ r.outcome = job[j].outcome
    <3>1. "build" \in Phases
      BY DEF Phases
    <3>2. /\ goesOn(pulled) \in Job
          /\ goesOn(pulled).at = "build" /\ goesOn(pulled).apart = pulled
          /\ goesOn(pulled).kind = job[j].kind /\ goesOn(pulled).ready = job[j].ready
          /\ goesOn(pulled).release = job[j].release /\ goesOn(pulled).want = job[j].want
          /\ goesOn(pulled).running = job[j].running /\ goesOn(pulled).outcome = job[j].outcome
      BY <1>1, <1>4, <3>1 DEF Job
    <3> HIDE DEF goesOn
    <3> QED
      BY <3>2
  <2>2. Goes(j, r, others)
    BY <1>4, <2>1
  <2>3. Sound(r)'
    BY <1>1, <1>2, <2>1
    DEF At, Sound, Shape, Released, Vetted, Built, Shown, Right, Serves, Undisturbed
  <2>4. /\ pulled => server'.tree = git.head
        /\ server' = server \/ \E tree \in 1 .. git.head : server' = [server EXCEPT !.tree = tree]
    BY <1>1, <1>4 DEF WorldTypes, Commits
  <2> HIDE DEF goesOn, others
  <2> QED
    BY <1>3, <2>1, <2>2, <2>3, <2>4
\* The pull fails, and the script with it.
<1>5. ASSUME Goes(j, Ended(j, "failed"), others),
             \E tree \in 1 .. git.head : server' = [server EXCEPT !.tree = tree]
      PROVE  ReleaseInv'
  <2>1. PICK r \in Job : r = Ended(j, "failed") /\ r.at = "ended" /\ Sound(r)'
    BY EndedSound
  <2> QED
    BY <1>3, <1>5, <2>1
<1> QED
  BY <1>4, <1>5 DEF Pull

LEMMA TagKeeps ==
    ASSUME ReleaseInv, NEW j \in Jobs, Tag(j)
    PROVE  ReleaseInv'
<1> USE DEF Named, Script, Asking, Agreed, Compared, Releasing, Gating
<1>1. /\ Sound(job[j]) /\ job[j] \in Job /\ WorldTypes /\ WorldInv
      /\ git.head \in git.head .. MaxCommit
      /\ Commits \subseteq Tags /\ Rolling \in Tags /\ Rolling \notin Commits
  BY BeforeAStep
<1>2. /\ At(j, "tag") /\ UNCHANGED <<config, git, ci, registry, host, staging>>
      /\ server' = [server EXCEPT !.tags[Rolling] = server.built, !.tags[job[j].release] = server.built]
      /\ Goes(j, [job[j] EXCEPT !.at = "pushRolling"],
              {k \in Sharing({"pushRolling", "pushCommit"}) : job[k].release = job[j].release})
  BY DEF Tag
<1>3. /\ job[j].release \in Commits /\ server.built # NoImage /\ Honest(server.built)
      /\ Contains(server.built, job[j].release)
  BY <1>1, <1>2 DEF At, Sound, Shape, Built, WorldInv, HonestImages
<1> DEFINE tags == [server.tags EXCEPT ![Rolling] = server.built, ![job[j].release] = server.built]
<1>4. /\ tags \in [Tags -> MaybeImage]
      /\ \A t \in Tags : tags[t] = IF t \in {Rolling, job[j].release} THEN server.built ELSE server.tags[t]
  BY <1>1, <1>3 DEF WorldTypes
<1>5. /\ server'.tree = server.tree /\ server'.built = server.built /\ server'.app = server.app
      /\ server'.tags = tags
      /\ server' \in [tree : Trees, built : MaybeImage, app : MaybeImage, tags : [Tags -> MaybeImage]]
  <2>1. server' = [server EXCEPT !.tags = tags]
    BY <1>1, <1>2 DEF WorldTypes
  <2> HIDE DEF tags
  <2> QED
    BY <1>1, <1>4, <2>1 DEF WorldTypes
<1> HIDE DEF tags
<1> DEFINE r == [job[j] EXCEPT !.at = "pushRolling"]
<1>6. /\ r \in Job /\ r.at = "pushRolling"
      /\ r.kind = job[j].kind /\ r.ready = job[j].ready /\ r.release = job[j].release
      /\ r.want = job[j].want /\ r.running = job[j].running /\ r.outcome = job[j].outcome
  <2>1. "pushRolling" \in Phases
    BY DEF Phases
  <2> QED
    BY <1>1, <2>1, PhaseOf
<1> HIDE DEF r
<1>7. job' \in [Jobs -> Job] /\ job'[j] = r /\ \A k \in Jobs \ {j} : Stays(k)
  BY <1>2, <1>6, GoesTo DEF ReleaseInv, r
<1>8. WorldTypes'
  BY <1>1, <1>2, <1>5 DEF WorldTypes
<1>9. WorldInv'
  <2>1. HonestImages'
    BY <1>1, <1>2, <1>3, <1>4, <1>5 DEF WorldInv, HonestImages, Honest, Contains
  <2>2. ByCommit'
    BY <1>1, <1>2, <1>3, <1>4, <1>5 DEF WorldInv, ByCommit, Contains
  <2> QED
    BY <1>1, <1>2, <2>1, <2>2 DEF WorldInv, BuiltByActions, RoomForThePin
<1>10. BuilderIsLast'
  BY <1>5, <1>6, <1>7, DirectoryKept
<1>11. ASSUME NEW k \in Jobs \ {j} PROVE Spares(k)
  <2>1. Sound(job[k])
    BY DEF ReleaseInv
  <2> QED
    BY <1>1, <1>2, <1>3, <1>4, <1>5, <2>1 DEF Spares, Sound, Shape, Built
<1>12. Sound(job[j])'
  BY <1>1, <1>2, <1>3, <1>4, <1>5, <1>6, <1>7
  DEF At, Sound, Shape, Released, Vetted, Built, Shown, Right, Serves, Undisturbed
<1> QED
  BY <1>7, <1>8, <1>9, <1>10, <1>11, <1>12, JobMoves

\* What is pushed under a commit contains it.
LEMMA PushKeeps ==
    ASSUME ReleaseInv, NEW j \in Jobs, PushRolling(j) \/ PushCommit(j)
    PROVE  ReleaseInv'
<1> USE DEF Named, Script, Asking, Agreed, Compared, Releasing, Gating
<1>1. /\ Sound(job[j]) /\ job[j] \in Job /\ WorldTypes /\ WorldInv
      /\ git.head \in git.head .. MaxCommit
      /\ Commits \subseteq Tags /\ Rolling \in Tags /\ Rolling \notin Commits
  BY BeforeAStep
<1>2. PICK tag \in {Rolling, job[j].release}, phase \in {"pushCommit", "pinRead"} :
         /\ registry' = [registry EXCEPT ![tag] = server.tags[tag]]
         /\ tag = Rolling \/ server.tags[tag] # NoImage
         /\ Moves(j, phase)
  BY <1>1 DEF PushRolling, PushCommit, At, Sound, Built
<1>3. /\ job[j].at \in {"pushRolling", "pushCommit"}
      /\ UNCHANGED <<config, git, ci, server, host, staging>>
  BY DEF PushRolling, PushCommit, At
<1>4. job[j].release \in Commits /\ tag \in Tags
  BY <1>1, <1>3 DEF Sound, Shape
<1>5. /\ registry' \in [Tags -> MaybeImage]
      /\ \A t \in Tags : registry'[t] = IF t = tag THEN server.tags[t] ELSE registry[t]
  BY <1>1, <1>2, <1>4 DEF WorldTypes
<1> DEFINE r == [job[j] EXCEPT !.at = phase]
<1>6. /\ r \in Job /\ r.at = phase
      /\ r.kind = job[j].kind /\ r.ready = job[j].ready /\ r.release = job[j].release
      /\ r.want = job[j].want /\ r.running = job[j].running /\ r.outcome = job[j].outcome
  <2>1. phase \in Phases
    BY DEF Phases
  <2> QED
    BY <1>1, <2>1, PhaseOf
<1>7. Goes(j, r, {})
  BY <1>2 DEF Moves
<1> HIDE DEF r
<1>8. job' \in [Jobs -> Job] /\ job'[j] = r /\ \A k \in Jobs \ {j} : Stays(k)
  BY <1>6, <1>7, GoesTo DEF ReleaseInv
<1>9. WorldTypes'
  BY <1>1, <1>3, <1>5 DEF WorldTypes
<1>10. WorldInv'
  <2>1. HonestImages'
    BY <1>1, <1>3, <1>5 DEF WorldInv, HonestImages, Honest, Contains
  <2>2. ByCommit'
    BY <1>1, <1>3, <1>5 DEF WorldInv, ByCommit, Contains
  <2>3. BuiltByActions'
    BY <1>1, <1>2, <1>3, <1>5 DEF WorldInv, BuiltByActions
  <2> QED
    BY <1>1, <1>3, <2>1, <2>2, <2>3 DEF WorldInv, RoomForThePin
<1>11. BuilderIsLast'
  BY <1>3, <1>6, <1>8, DirectoryKept
<1>12. \A k \in Jobs : Spares(k)
  BY <1>1, <1>3, Spared
<1>13. Sound(job[j])'
  BY <1>1, <1>3, <1>4, <1>6, <1>8
  DEF Sound, Shape, Released, Vetted, Built, Shown, Right, Serves, Undisturbed
<1> QED
  BY <1>8, <1>9, <1>10, <1>11, <1>12, <1>13, JobMoves

\* The pin is a commit of the branch.
LEMMA PinWriteKeeps ==
    ASSUME ReleaseInv, NEW j \in Jobs, PinWrite(j)
    PROVE  ReleaseInv'
<1> USE DEF Named, Script, Asking, Agreed, Compared, Releasing, Gating
<1>1. /\ Sound(job[j]) /\ job[j] \in Job /\ WorldTypes /\ WorldInv
      /\ MaxCommit \in Nat /\ git.head \in Commits
  BY BeforeAStep
<1>2. At(j, "pinWrite") /\ UNCHANGED <<config, ci, registry, server, host, staging>>
  BY DEF PinWrite
<1>3. CASE Ends(j, "failed") /\ UNCHANGED git
  BY <1>2, <1>3, EndsOther DEF world
<1>4. CASE ~git.pinned /\ git' = [head |-> git.head + 1, pinned |-> TRUE] /\ Moves(j, "coolify")
  <2>1. git'.head \in Commits /\ git'.pinned = TRUE /\ git'.head \in git.head .. MaxCommit
    BY <1>1, <1>4 DEF WorldInv, RoomForThePin, Commits
  <2>2. WorldTypes' /\ WorldInv'
    BY <1>1, <1>2, <1>4, <2>1
    DEF WorldTypes, WorldInv, HonestImages, ByCommit, BuiltByActions, RoomForThePin, Honest, Contains
  <2> DEFINE r == [job[j] EXCEPT !.at = "coolify"]
  <2>3. /\ r \in Job /\ r.at = "coolify"
        /\ r.kind = job[j].kind /\ r.ready = job[j].ready /\ r.release = job[j].release
        /\ r.want = job[j].want /\ r.running = job[j].running /\ r.outcome = job[j].outcome
    <3>1. "coolify" \in Phases
      BY DEF Phases
    <3> QED
      BY <1>1, <3>1, PhaseOf
  <2>4. Goes(j, r, {})
    BY <1>4 DEF Moves
  <2> HIDE DEF r
  <2>5. job' \in [Jobs -> Job] /\ job'[j] = r /\ \A k \in Jobs \ {j} : Stays(k)
    BY <2>3, <2>4, GoesTo DEF ReleaseInv
  <2>6. Sound(job[j])'
    BY <1>1, <1>2, <2>1, <2>3, <2>5
    DEF At, Sound, Shape, Released, Vetted, Built, Shown, Right, Serves, Undisturbed, Commits
  <2>7. BuilderIsLast'
    BY <1>2, <2>3, <2>5, DirectoryKept
  <2>8. \A k \in Jobs : Spares(k)
    BY <1>2, <2>1, Spared
  <2> QED
    BY <2>2, <2>5, <2>6, <2>7, <2>8, JobMoves
<1> QED
  BY <1>3, <1>4 DEF PinWrite

-----------------------------------------------------------------------------
(***************************************************************************)
(* The host.                                                               *)
(***************************************************************************)

HostType == [rolling : BOOLEAN, volume : BOOLEAN, tags : [Tags -> MaybeImage], app : MaybeImage,
             mongo : {"none", "data", "empty"}, copy : {"none", "data", "empty"}]

\* Coolify brings a deploy up: every other that was in the gate, or through it, is disturbed.
LEMMA CoolifyKeeps ==
    ASSUME ReleaseInv, NEW j \in Jobs, CoolifyDeploys(j)
    PROVE  ReleaseInv'
<1> USE DEF Named, Script, Asking, Agreed, Compared, Releasing, Gating
<1>1. /\ Sound(job[j]) /\ job[j] \in Job /\ WorldTypes /\ WorldInv /\ git.head \in Commits
      /\ git.head \in git.head .. MaxCommit /\ Rolling \in Tags
  BY BeforeAStep
<1> DEFINE tag == IF git.pinned THEN Rolling ELSE Before
           copy(volume) == IF ~config.mongo THEN "none" ELSE IF volume THEN "data" ELSE "empty"
<1>2. tag \in Tags
  BY DEF Tags
<1>3. PICK image \in {host.tags[tag], registry[tag]} \ {NoImage}, volume \in {host.volume, FALSE} :
         host' = [host EXCEPT !.rolling = git.pinned, !.volume = volume, !.tags[tag] = image,
                              !.app = image, !.copy = copy(volume)]
  BY DEF CoolifyDeploys
<1>4. /\ job[j].at \in {"deploying", "late"}
      /\ UNCHANGED <<config, git, ci, registry, server, staging>>
  BY DEF CoolifyDeploys
<1>5. image \in MaybeImage /\ Honest(image)
  BY <1>1, <1>2, <1>3 DEF WorldTypes, WorldInv, HonestImages
<1>6. /\ host' \in HostType
      /\ host'.app = image
      /\ \A t \in Tags : host'.tags[t] \in {host.tags[t], image}
  <2> DEFINE tags == [host.tags EXCEPT ![tag] = image]
  <2>1. /\ tags \in [Tags -> MaybeImage]
        /\ \A t \in Tags : tags[t] \in {host.tags[t], image}
    BY <1>1, <1>2, <1>5 DEF WorldTypes
  <2>2. copy(volume) \in {"none", "data", "empty"} /\ volume \in BOOLEAN /\ git.pinned \in BOOLEAN
    BY <1>1 DEF WorldTypes
  <2>3. host' = [host EXCEPT !.rolling = git.pinned, !.volume = volume, !.tags = tags,
                             !.app = image, !.copy = copy(volume)]
    BY <1>1, <1>3 DEF WorldTypes
  <2> HIDE DEF tags, copy
  <2>4. host \in HostType
    BY <1>1 DEF WorldTypes, HostType
  <2>5. host' \in HostType
    BY <1>5, <2>1, <2>2, <2>3, <2>4 DEF HostType
  <2>6. host'.app = image /\ host'.tags = tags
    BY <2>3, <2>4 DEF HostType
  <2> QED
    BY <2>1, <2>5, <2>6
<1> HIDE DEF tag, copy
<1> DEFINE phase == IF job[j].at = "late" THEN "ended" ELSE "deployed"
           r == [job[j] EXCEPT !.cloned = git.head, !.apart = TRUE, !.at = phase]
<1>7. Goes(j, r, Production(Gating \cup {"ended"}))
  <2>1. Goes(j, [job[j] EXCEPT !.cloned = git.head, !.apart = TRUE,
                               !.at = IF @ = "late" THEN "ended" ELSE "deployed"],
             Production(Gating \cup {"ended"}))
    BY DEF CoolifyDeploys
  <2>2. r = [job[j] EXCEPT !.cloned = git.head, !.apart = TRUE,
                           !.at = IF @ = "late" THEN "ended" ELSE "deployed"]
    BY <1>1 DEF Job
  <2> HIDE DEF r
  <2> QED
    BY <2>1, <2>2
<1>8. /\ r \in Job /\ r.at = phase
      /\ r.kind = job[j].kind /\ r.ready = job[j].ready /\ r.release = job[j].release
      /\ r.want = job[j].want /\ r.running = job[j].running /\ r.outcome = job[j].outcome
  <2>1. phase \in Phases
    BY DEF Phases
  <2> HIDE DEF phase
  <2> QED
    BY <1>1, <2>1 DEF Job
<1> HIDE DEF r
<1>9. /\ job' \in [Jobs -> Job] /\ job'[j] = r
      /\ \A k \in Jobs \ {j} : /\ Stays(k)
                               /\ k \in Production(Gating \cup {"ended"}) => ~job'[k].apart
  BY <1>7, <1>8, GoesTo DEF ReleaseInv
<1>10. \A k \in Jobs \ {j} : ~Undisturbed(job'[k])
  BY <1>9 DEF Stays, Undisturbed, Production, Sharing
<1>11. WorldTypes'
  BY <1>1, <1>4, <1>6 DEF WorldTypes, HostType
<1>12. WorldInv'
  <2>1. HonestImages'
    BY <1>1, <1>4, <1>5, <1>6 DEF WorldInv, HonestImages, Honest, Contains
  <2> QED
    BY <1>1, <1>4, <2>1 DEF WorldInv, ByCommit, BuiltByActions, RoomForThePin, Contains
<1>13. BuilderIsLast'
  BY <1>4, <1>8, <1>9, DirectoryKept
<1>14. ASSUME NEW k \in Jobs \ {j} PROVE Spares(k)
  <2>1. Sound(job[k])
    BY DEF ReleaseInv
  <2> QED
    BY <1>1, <1>4, <1>10, <2>1 DEF Spares, Sound, Built
<1>15. Sound(job[j])'
  BY <1>1, <1>4, <1>8, <1>9
  DEF Sound, Shape, Released, Vetted, Built, Shown, Right, Serves, Undisturbed
<1> QED
  BY <1>9, <1>11, <1>12, <1>13, <1>14, <1>15, JobMoves

\* The image of the compose file is pulled, and is the one that runs.
LEMMA CompareKeeps ==
    ASSUME ReleaseInv, NEW j \in Jobs, Compare(j)
    PROVE  ReleaseInv'
<1> USE DEF Named, Script, Asking, Agreed, Compared, Releasing, Gating
<1>1. /\ Sound(job[j]) /\ job[j] \in Job /\ WorldTypes /\ WorldInv
      /\ git.head \in git.head .. MaxCommit
  BY BeforeAStep
<1>2. At(j, "compare") /\ UNCHANGED <<config, git, ci, registry, server, staging>>
  BY DEF Compare
<1>3. Composed(j) \in Tags
  BY DEF Composed, Tags
<1>4. /\ host' \in HostType
      /\ host'.app = host.app /\ host'.copy = host.copy /\ host'.mongo = host.mongo
      /\ \A t \in Tags : host'.tags[t] \in {host.tags[t], registry[t]}
  <2> DEFINE tags == [host.tags EXCEPT ![Composed(j)] = registry[Composed(j)]]
  <2>1. /\ tags \in [Tags -> MaybeImage]
        /\ \A t \in Tags : tags[t] \in {host.tags[t], registry[t]}
    BY <1>1, <1>3 DEF WorldTypes
  <2>2. host \in HostType
    BY <1>1 DEF WorldTypes, HostType
  <2>3. host' = [host EXCEPT !.tags = tags] \/ host' = host
    BY <2>2 DEF Compare, HostType
  <2> HIDE DEF tags
  <2>4. CASE host' = [host EXCEPT !.tags = tags]
    BY <2>1, <2>2, <2>4 DEF HostType
  <2> QED
    BY <2>2, <2>3, <2>4 DEF HostType
<1>5. WorldTypes' /\ WorldInv'
  <2>1. WorldTypes'
    BY <1>1, <1>2, <1>4 DEF WorldTypes, HostType
  <2>2. HonestImages'
    BY <1>1, <1>2, <1>4 DEF WorldInv, HonestImages, Honest, Contains
  <2> QED
    BY <1>1, <1>2, <2>1, <2>2 DEF WorldInv, ByCommit, BuiltByActions, RoomForThePin, Contains
<1>6. \A k \in Jobs : Spares(k)
  BY <1>1, <1>2, <1>4, Spared
\* The job goes on with r, a record that is sound as things are.
<1>7. ASSUME NEW r \in Job, Goes(j, r, {}), r.at \notin {"build", "tag"}, Sound(r)
      PROVE  ReleaseInv'
  <2>1. job' \in [Jobs -> Job] /\ job'[j] = r /\ \A k \in Jobs \ {j} : Stays(k)
    BY <1>7, GoesTo DEF ReleaseInv
  <2>2. Sound(job[j])'
    BY <1>2, <1>4, <1>7, <2>1
    DEF Sound, Shape, Released, Vetted, Built, Shown, Right, Serves, Undisturbed, Contains, Honest
  <2>3. BuilderIsLast'
    BY <1>2, <1>7, <2>1, DirectoryKept
  <2> QED
    BY <1>5, <1>6, <2>1, <2>2, <2>3, JobMoves
<1>8. CASE Ends(j, "failed")
  <2>1. PICK r \in Job : Goes(j, r, {}) /\ r.at = "ended" /\ Sound(r)
    BY <1>8, EndsSound
  <2> QED
    BY <1>7, <2>1
<1>9. ASSUME NEW phase \in {"commitTag", "label"}, Moves(j, phase),
             phase = "label" => ~config.ecr \/ job[j].kind # "deploy"
      PROVE  ReleaseInv'
  <2> DEFINE r == [job[j] EXCEPT !.at = phase]
  <2>1. /\ r \in Job /\ r.at = phase
        /\ r.kind = job[j].kind /\ r.ready = job[j].ready /\ r.release = job[j].release
        /\ r.want = job[j].want /\ r.running = job[j].running /\ r.outcome = job[j].outcome
        /\ r.apart = job[j].apart
    <3>1. phase \in Phases
      BY DEF Phases
    <3> QED
      BY <1>1, <3>1, PhaseOf
  <2>2. Goes(j, r, {})
    BY <1>9 DEF Moves
  <2> HIDE DEF r
  <2>3. Sound(r)
    BY <1>1, <1>2, <1>9, <2>1
    DEF At, Sound, Shape, Released, Vetted, Built, Shown, Right, Serves, Undisturbed
  <2> QED
    BY <1>7, <2>1, <2>2, <2>3
<1> QED
  BY <1>8, <1>9 DEF Compare

\* The database: Coolify's own is removed, and the deploy's is taken down and brought up on
\* the data, which disturbs every other deploy that had counted on it.
LEMMA MongoKeeps ==
    ASSUME ReleaseInv, NEW j \in Jobs, DropCopies(j) \/ StopMongo(j) \/ StartMongo(j)
    PROVE  ReleaseInv'
<1> USE DEF Named, Script, Asking, Agreed, Compared, Releasing, Gating
<1>1. /\ Sound(job[j]) /\ job[j] \in Job /\ WorldTypes /\ WorldInv
      /\ git.head \in git.head .. MaxCommit
  BY BeforeAStep
<1>2. /\ job[j].at \in {"copies", "stop", "up"}
      /\ UNCHANGED <<config, git, ci, registry, server, staging>>
  BY DEF DropCopies, StopMongo, StartMongo, At
<1>3. host \in HostType
  BY <1>1 DEF WorldTypes, HostType
<1>4. ASSUME NEW phase \in {"stop", "up", "count"}, NEW disturbed,
             Goes(j, [job[j] EXCEPT !.at = phase], disturbed),
             host' \in HostType, host'.tags = host.tags, host'.app = host.app,
             host'.copy \in {host.copy, "none"},
             Undisturbed(job[j]) /\ config.mongo => host'.copy = "none",
             phase = "count" => host'.mongo = "data",
             \/ host'.mongo \in {host.mongo, "data"}
             \/ disturbed = Production({"up", "count", "seed", "ended"})
      PROVE  ReleaseInv'
  <2> DEFINE r == [job[j] EXCEPT !.at = phase]
  <2>1. /\ r \in Job /\ r.at = phase
        /\ r.kind = job[j].kind /\ r.ready = job[j].ready /\ r.release = job[j].release
        /\ r.want = job[j].want /\ r.running = job[j].running /\ r.outcome = job[j].outcome
        /\ r.apart = job[j].apart
    <3>1. phase \in Phases
      BY DEF Phases
    <3> QED
      BY <1>1, <3>1, PhaseOf
  <2>2. Goes(j, r, disturbed)
    BY <1>4
  <2> HIDE DEF r
  <2>3. /\ job' \in [Jobs -> Job] /\ job'[j] = r
        /\ \A k \in Jobs \ {j} : Stays(k) /\ (k \in disturbed => ~job'[k].apart)
    BY <2>1, <2>2, GoesTo DEF ReleaseInv
  <2>4. WorldTypes'
    BY <1>1, <1>2, <1>4 DEF WorldTypes, HostType
  <2>5. WorldInv'
    BY <1>1, <1>2, <1>4
    DEF WorldInv, HonestImages, ByCommit, BuiltByActions, RoomForThePin, Honest, Contains
  <2>6. BuilderIsLast'
    BY <1>2, <2>1, <2>3, DirectoryKept
  <2>7. ASSUME NEW k \in Jobs \ {j} PROVE Spares(k)
    <3>1. Sound(job[k])
      BY DEF ReleaseInv
    <3>2. Undisturbed(job'[k]) /\ job[k].at \in {"count", "seed", "ended"} => host'.mongo \in {host.mongo, "data"}
      BY <1>4, <2>3 DEF Undisturbed, Stays, Production, Sharing
    <3> QED
      BY <1>1, <1>2, <1>4, <3>1, <3>2 DEF Spares, Sound, Built
  <2>8. Sound(job[j])'
    <3>1. Undisturbed(r) => Undisturbed(job[j])
      BY <1>2, <2>1 DEF Undisturbed
    <3>2. Shape(r) /\ Released(r) /\ Shown(r) /\ Right(r)
      BY <1>1, <1>2, <2>1, <3>1 DEF Sound, Shape, Released, Shown, Right
    <3>3. Vetted(job[j])' /\ Built(job[j])' /\ Serves(job[j])'
      BY <1>2, <1>4, <2>1, <2>3, <3>1 DEF Vetted, Built, Serves
    <3>4. Shape(job[j])' /\ Released(job[j])' /\ Shown(job[j])' /\ Right(job[j])'
      BY <1>2, <1>4, <2>3, <3>2 DEF Shape, Released, Shown, Right, Undisturbed, Contains, Honest
    <3> QED
      BY <3>3, <3>4 DEF Sound
  <2> QED
    BY <2>3, <2>4, <2>5, <2>6, <2>7, <2>8, JobMoves
<1>5. CASE DropCopies(j)
  <2>1. CASE host' = [host EXCEPT !.copy = "none"] /\ Moves(j, "stop")
    <3>1. /\ host' \in HostType /\ host'.tags = host.tags /\ host'.app = host.app
          /\ host'.copy = "none" /\ host'.mongo = host.mongo
      BY <1>3, <2>1 DEF HostType
    <3> QED
      BY <1>4, <2>1, <3>1 DEF Moves
  <2>2. CASE Moves(j, "seed") /\ UNCHANGED host /\ ~(config.mongo /\ job[j].kind = "deploy")
    <3>1. At(j, "copies") /\ UNCHANGED world
      BY <1>2, <1>5, <2>2 DEF DropCopies, world
    <3> QED
      BY <1>1, <2>2, <3>1, GoesToPhase DEF At, Sound, Shape, Phases, Right, Undisturbed
  <2> QED
    BY <1>5, <2>1, <2>2 DEF DropCopies
<1>6. CASE StopMongo(j)
  <2>1. /\ host' \in HostType /\ host'.tags = host.tags /\ host'.app = host.app
        /\ host'.copy = host.copy
    BY <1>3, <1>6 DEF StopMongo, HostType
  <2>2. Undisturbed(job[j]) /\ config.mongo => host'.copy = "none"
    BY <1>1, <1>6, <2>1 DEF StopMongo, At, Sound, Serves
  <2>3. Goes(j, [job[j] EXCEPT !.at = "up"], Production({"up", "count", "seed", "ended"}))
    BY <1>6 DEF StopMongo
  <2> QED
    BY <1>4, <2>1, <2>2, <2>3
<1>7. CASE StartMongo(j)
  <2>1. /\ host' \in HostType /\ host'.tags = host.tags /\ host'.app = host.app
        /\ host'.copy = host.copy /\ host'.mongo = "data"
    BY <1>3, <1>7 DEF StartMongo, HostType
  <2>2. Undisturbed(job[j]) /\ config.mongo => host'.copy = "none"
    BY <1>1, <1>7, <2>1 DEF StartMongo, At, Sound, Serves
  <2>3. Goes(j, [job[j] EXCEPT !.at = "count"], {})
    BY <1>7 DEF StartMongo, Moves
  <2> QED
    BY <1>4, <2>1, <2>2, <2>3
<1> QED
  BY <1>5, <1>6, <1>7

\* A build from source checks the staging branch out in the directory of the builders,
\* none of whom is alone there any more; its image names no commit.
LEMMA ScriptKeeps ==
    ASSUME ReleaseInv, NEW j \in Jobs, Checkout(j) \/ Compose(j) \/ Recreate(j)
    PROVE  ReleaseInv'
<1> USE DEF Named, Script, Asking, Agreed, Compared, Releasing, Gating
<1>1. /\ Sound(job[j]) /\ job[j] \in Job /\ WorldTypes /\ WorldInv
      /\ git.head \in git.head .. MaxCommit
  BY BeforeAStep
<1>2. job[j].at \in Script /\ UNCHANGED <<config, git, ci, registry, host>>
  BY DEF Checkout, Compose, Recreate, At
<1>3. job[j].kind # "deploy" /\ job[j].running = NoImage
  BY <1>1, <1>2 DEF Sound, Shape
\* The script goes on with r, having left alone what is built and tagged.
<1>4. ASSUME NEW r \in Job, NEW disturbed, Goes(j, r, disturbed),
             r.at \in {"compose", "recreate", "health"},
             r.kind = job[j].kind, r.release = job[j].release, r.running = job[j].running,
             server'.built = server.built, server'.tags = server.tags,
             server'.tree = server.tree \/ disturbed = Sharing({"build", "compose"}),
             WorldTypes', HonestImages'
      PROVE  ReleaseInv'
  <2>1. /\ job' \in [Jobs -> Job] /\ job'[j] = r
        /\ \A k \in Jobs \ {j} : Stays(k) /\ (k \in disturbed => ~job'[k].apart)
    BY <1>4, GoesTo DEF ReleaseInv
  <2>2. WorldInv'
    BY <1>1, <1>2, <1>4 DEF WorldInv, ByCommit, BuiltByActions, RoomForThePin, Contains
  <2>3. BuilderIsLast'
    <3>1. CASE server'.tree = server.tree
      BY <1>4, <2>1, <3>1, DirectoryKept
    <3>2. CASE disturbed = Sharing({"build", "compose"})
      <4>1. \A k \in Jobs : job'[k].at = "build" => ~job'[k].apart
        BY <1>4, <2>1, <3>2 DEF Stays, Sharing
      <4> QED
        BY <4>1 DEF BuilderIsLast, At
    <3> QED
      BY <1>4, <3>1, <3>2
  <2>4. \A k \in Jobs : Spares(k)
    BY <1>1, <1>2, <1>4, Spared
  <2>5. Sound(job[j])'
    BY <1>1, <1>2, <1>3, <1>4, <2>1
    DEF Sound, Shape, Released, Vetted, Built, Shown, Right, Serves, Undisturbed
  <2> QED
    BY <1>4, <2>1, <2>2, <2>3, <2>4, <2>5, JobMoves
<1>5. CASE Checkout(j)
  <2> DEFINE r == [job[j] EXCEPT !.at = "compose", !.want = StagingTree, !.apart = TRUE]
  <2>1. /\ r \in Job /\ r.at = "compose" /\ r.kind = job[j].kind
        /\ r.release = job[j].release /\ r.running = job[j].running
    <3>1. "compose" \in Phases /\ StagingTree \in Trees
      BY DEF Phases, Trees
    <3> QED
      BY <1>1, <3>1 DEF Job
  <2>2. Goes(j, r, Sharing({"build", "compose"})) /\ UNCHANGED staging
    BY <1>5 DEF Checkout
  <2> HIDE DEF r
  <2>3. /\ server' \in [tree : Trees, built : MaybeImage, app : MaybeImage, tags : [Tags -> MaybeImage]]
        /\ server'.built = server.built /\ server'.app = server.app /\ server'.tags = server.tags
    <3>1. server' = [server EXCEPT !.tree = StagingTree] /\ StagingTree \in Trees
      BY <1>5 DEF Checkout, Trees
    <3> QED
      BY <1>1, <3>1 DEF WorldTypes
  <2>4. WorldTypes'
    BY <1>1, <1>2, <2>2, <2>3 DEF WorldTypes
  <2>5. HonestImages'
    BY <1>1, <1>2, <2>2, <2>3 DEF WorldInv, HonestImages, Honest, Contains
  <2> QED
    BY <1>4, <2>1, <2>2, <2>3, <2>4, <2>5
<1>6. CASE Compose(j)
  <2> DEFINE r == [job[j] EXCEPT !.at = "recreate"]
             image == [source |-> server.tree, label |-> NoCommit, by |-> j, clean |-> job[j].apart]
  <2>1. /\ r \in Job /\ r.at = "recreate" /\ r.kind = job[j].kind
        /\ r.release = job[j].release /\ r.running = job[j].running
    <3>1. "recreate" \in Phases
      BY DEF Phases
    <3> QED
      BY <1>1, <3>1, PhaseOf
  <2>2. Goes(j, r, Sharing({"recreate"})) /\ UNCHANGED staging
    BY <1>6 DEF Compose
  <2> HIDE DEF r
  <2>3. image \in MaybeImage /\ Honest(image)
    BY <1>1 DEF WorldTypes, Job, MaybeImage, Image, Honest
  <2>4. server' = [server EXCEPT !.app = image]
    BY <1>6 DEF Compose
  <2> HIDE DEF image
  <2>5. /\ server' \in [tree : Trees, built : MaybeImage, app : MaybeImage, tags : [Tags -> MaybeImage]]
        /\ server'.tree = server.tree /\ server'.built = server.built /\ server'.app = image
        /\ server'.tags = server.tags
    BY <1>1, <2>3, <2>4 DEF WorldTypes
  <2>6. WorldTypes'
    BY <1>1, <1>2, <2>2, <2>5 DEF WorldTypes
  <2>7. HonestImages'
    BY <1>1, <1>2, <2>2, <2>3, <2>5 DEF WorldInv, HonestImages, Honest, Contains
  <2> QED
    BY <1>4, <2>1, <2>2, <2>5, <2>6, <2>7
<1>7. CASE Recreate(j)
  <2> DEFINE r == [job[j] EXCEPT !.at = "health"]
  <2>1. /\ r \in Job /\ r.at = "health" /\ r.kind = job[j].kind
        /\ r.release = job[j].release /\ r.running = job[j].running
    <3>1. "health" \in Phases
      BY DEF Phases
    <3> QED
      BY <1>1, <3>1, PhaseOf
  <2>2. Goes(j, r, Sharing({"health", "done"})) /\ UNCHANGED server /\ staging' = server.app
    BY <1>7 DEF Recreate
  <2> HIDE DEF r
  <2>3. WorldTypes'
    BY <1>1, <1>2, <2>2 DEF WorldTypes
  <2>4. HonestImages'
    BY <1>1, <1>2, <2>2 DEF WorldInv, HonestImages, Honest, Contains
  <2> QED
    BY <1>4, <2>1, <2>2, <2>3, <2>4
<1> QED
  BY <1>5, <1>6, <1>7

-----------------------------------------------------------------------------
(***************************************************************************)
(* The invariant, and what it says.                                        *)
(***************************************************************************)

LEMMA Initially == Init => ReleaseInv
<1> SUFFICES ASSUME Init PROVE ReleaseInv
  OBVIOUS
<1>1. /\ MaxCommit \in Nat /\ 1 < MaxCommit /\ 1 \in Commits /\ NoCommit \notin Trees
      /\ {Rolling, Before} \subseteq Tags /\ {Rolling, Before} \cap Commits = {}
  BY ReleaseAssumption DEF Commits, Tags
<1>2. OldImage \in MaybeImage /\ Honest(OldImage)
  BY <1>1 DEF OldImage, MaybeImage, Image, Trees, Honest
<1>3. Idle \in Job
  BY DEF Idle, Job, Phases, MaybeImage
<1>4. /\ config \in Configs /\ git \in [head : Commits, pinned : BOOLEAN] /\ git.head = 1
      /\ ci \in [Commits -> {"none"}]
      /\ registry \in [Tags -> MaybeImage] /\ \A c \in Commits : registry[c] = NoImage
      /\ \A t \in Tags : registry[t] \in {OldImage, NoImage}
  BY <1>1, <1>2 DEF Init, MaybeImage, Tags
<1>5. /\ server.built = NoImage /\ server.app = NoImage
      /\ \A t \in Tags : server.tags[t] = NoImage
      /\ server \in [tree : Trees, built : MaybeImage, app : MaybeImage, tags : [Tags -> MaybeImage]]
  BY DEF Init, MaybeImage, Trees
<1>6. /\ host \in HostType /\ host.app = OldImage
      /\ \A t \in Tags : host.tags[t] \in {OldImage, NoImage}
  <2> DEFINE mongo == IF config.mongo THEN "empty" ELSE "none"
             tags == [t \in Tags |-> IF t = Before THEN OldImage ELSE NoImage]
  <2>1. host = [rolling |-> git.pinned, volume |-> FALSE, tags |-> tags, app |-> OldImage,
                mongo |-> mongo, copy |-> "none"]
    BY DEF Init
  <2>2. /\ mongo \in {"none", "data", "empty"} /\ git.pinned \in BOOLEAN
        /\ tags \in [Tags -> MaybeImage] /\ \A t \in Tags : tags[t] \in {OldImage, NoImage}
    BY <1>2, <1>4 DEF MaybeImage
  <2> HIDE DEF mongo, tags
  <2> QED
    BY <1>2, <2>1, <2>2 DEF HostType
<1>7. staging = NoImage /\ job = [j \in Jobs |-> Idle] /\ job \in [Jobs -> Job]
  BY <1>3 DEF Init
<1>8. TypeOK
  <2>1. WorldTypes
    BY <1>4, <1>5, <1>6, <1>7 DEF WorldTypes, HostType, MaybeImage
  <2> QED
    BY <1>7, <2>1, Types
<1>9. WorldInv
  <2>1. HonestImages
    BY <1>2, <1>4, <1>5, <1>6, <1>7 DEF HonestImages
  <2> QED
    BY <1>1, <1>4, <1>5, <2>1 DEF WorldInv, ByCommit, BuiltByActions, RoomForThePin, Tags
<1>10. BuilderIsLast
  BY <1>7 DEF BuilderIsLast, At, Idle
<1>11. \A j \in Jobs : Sound(job[j])
  BY <1>1, <1>7
  DEF Idle, Sound, Shape, Released, Vetted, Built, Shown, Right, Serves, Undisturbed, Named, Script,
      Asking, Releasing, Gating, Trees
<1> QED
  BY <1>8, <1>9, <1>10, <1>11 DEF ReleaseInv

LEMMA ReleaseInductive ==
    ASSUME ReleaseInv, [Next]_vars
    PROVE  ReleaseInv'
<1>1. CASE UNCHANGED vars
  <2>1. UNCHANGED <<config, git, ci, registry, server, host, staging, job>>
    BY <1>1 DEF vars
  <2>2. WorldTypes' /\ WorldInv' /\ BuilderIsLast'
    BY <2>1, Types
    DEF ReleaseInv, WorldTypes, WorldInv, HonestImages, ByCommit, BuiltByActions, RoomForThePin,
        Honest, Contains, BuilderIsLast, At
  <2>3. git'.head \in git.head .. MaxCommit
    BY <2>1, Types, ReleaseAssumption DEF ReleaseInv, WorldTypes, Commits
  <2>4. \A k \in Jobs : Spares(k)
    BY <2>1, <2>3, Spared
  <2> QED
    BY <2>1, <2>2, <2>4, WorldMoves
<1>2. CASE Push \/ \E c \in Commits : Actions(c)
  BY <1>2, GitHubKeeps
<1>3. ASSUME NEW j \in Jobs, Begin(j) PROVE ReleaseInv'
  BY <1>3, BeginKeeps
<1>4. ASSUME NEW j \in Jobs, Step(j) PROVE ReleaseInv'
  BY <1>4, GuardsKeep, PinVolumeKeeps, BuildKeeps, PullKeeps, TagKeeps, PushKeeps, PinWriteKeeps,
     PollerKeeps, GateKeeps, CompareKeeps, MongoKeeps, SourceKeeps DEF Step
<1>5. ASSUME NEW j \in Jobs, Outside(j) PROVE ReleaseInv'
  BY <1>5, CoolifyKeeps, FailureKeeps, ScriptKeeps, SourceKeeps DEF Outside
<1>6. ASSUME NEW j \in Jobs, Timer(j) PROVE ReleaseInv'
  BY <1>6, PollerKeeps, SourceKeeps DEF Timer
<1> QED
  BY <1>1, <1>2, <1>3, <1>4, <1>5, <1>6 DEF Next

LEMMA Invariant == Spec => []ReleaseInv
  BY Initially, ReleaseInductive, PTL DEF Spec

\* Whatever the deploys, the builds and their hosts do, every image, job and container is
\* one of those the code tells apart.
THEOREM TypeCorrect == Spec => []TypeOK
<1>1. ReleaseInv => TypeOK
  BY DEF ReleaseInv
<1> QED
  BY <1>1, Invariant, PTL

\* What the comparisons of buildImageVerifySection are worth: a production deploy that
\* succeeds with a commit, and that no other has disturbed, is served by the image they
\* compared, and by code that contains the commit if the image's builder had reached the
\* branch in a directory to itself, for any number of deploys and builds that share the
\* branch, the registry and that directory.
THEOREM CommitVerified == Spec => []VerifiedRunsCommit
<1>1. ASSUME ReleaseInv, NEW j \in Jobs,
             job[j].kind = "deploy", job[j].outcome = "success", job[j].apart,
             job[j].running # NoImage
      PROVE  /\ host.app = job[j].running
             /\ job[j].running.label \in {job[j].want, NoCommit}
             /\ job[j].running.clean /\ (job[j].running.label # NoCommit \/ config.ecr)
                  => job[j].running.source # StagingTree /\ job[j].running.source >= job[j].want
  <2>1. Shape(job[j]) /\ Shown(job[j]) /\ Right(job[j]) /\ MaxCommit \in Nat
    BY <1>1, BeforeAStep DEF Sound
  <2>2. job[j].at = "ended" /\ Undisturbed(job[j])
    BY <1>1, <2>1 DEF Shape, Undisturbed
  <2>3. ASSUME job[j].running.clean, job[j].running.label # NoCommit \/ config.ecr
        PROVE  job[j].running.source # StagingTree /\ job[j].running.source >= job[j].want
    <3>1. job[j].want \in 1 .. MaxCommit /\ job[j].running.source \in job[j].want .. MaxCommit
      BY <1>1, <2>1, <2>2, <2>3 DEF Right, Agreed, Contains, Commits
    <3> QED
      BY <2>1, <3>1 DEF StagingTree
  <2> QED
    BY <1>1, <2>1, <2>2, <2>3 DEF Shown, Right, Agreed
<1>2. ReleaseInv => VerifiedRunsCommit
  BY <1>1 DEF VerifiedRunsCommit
<1> QED
  BY <1>2, Invariant, PTL

\* The mongo section of the gate: the deploy that succeeds last leaves the database on the
\* data volume, and none of Coolify's beside it.
THEOREM DataServed == Spec => []SuccessServesData
<1>1. ASSUME ReleaseInv, NEW j \in Jobs,
             job[j].kind = "deploy", job[j].outcome = "success", job[j].apart, config.mongo
      PROVE  host.mongo = "data" /\ host.copy = "none"
  <2>1. Shape(job[j]) /\ Serves(job[j])
    BY <1>1, BeforeAStep DEF Sound
  <2> QED
    BY <1>1, <2>1 DEF Shape, Serves, Undisturbed
<1>2. ReleaseInv => SuccessServesData
  BY <1>1 DEF SuccessServesData
<1> QED
  BY <1>2, Invariant, PTL

\* What CI readiness promises: the commit it let through has its image in the registry by
\* the time Coolify is asked to deploy, and nothing pushed since has put an older one there
\* but a release whose builder had not pulled, or shared its directory.
THEOREM ImageReady == Spec => []ReadyHadItsImage
<1>1. ASSUME ReleaseInv, NEW j \in Jobs, At(j, "deploying"), job[j].ready # NoCommit
      PROVE  /\ registry[job[j].ready] # NoImage
             /\ registry[job[j].ready].clean =>
                   registry[job[j].ready].source \in job[j].ready .. MaxCommit
  <2>1. Vetted(job[j]) /\ job[j] \in Job /\ WorldInv
    BY <1>1, BeforeAStep DEF Sound
  <2>2. job[j].ready \in Commits /\ ci[job[j].ready] = "success"
    BY <1>1, <2>1 DEF Vetted, At, Job
  <2> QED
    BY <2>1, <2>2 DEF WorldInv, ByCommit, BuiltByActions, Contains
<1>2. ReleaseInv => ReadyHadItsImage
  BY <1>1 DEF ReadyHadItsImage
<1> QED
  BY <1>2, Invariant, PTL

=============================================================================
