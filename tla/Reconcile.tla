------------------------------ MODULE Reconcile ------------------------------
(***************************************************************************)
(* Taking over a server that already runs something: the cards of the       *)
(* wizard's Reconcile step, the scan and the reconciliation behind them, and  *)
(* the host they work on.  A card scans the host, shows what is in Coolify's  *)
(* way, and on a click has the ticked containers removed, dead nginx         *)
(* upstreams sent to the new application, and Coolify's own proxy put out.    *)
(*                                                                         *)
(* One action is one event handler or one call over SSH.  A card's request   *)
(* may end (the proxy in between waits 120 s) while the API goes on.          *)
(***************************************************************************)
EXTENDS Naturals, SequencesExt

CONSTANTS
    Cards,       \* mounted cards for this server, of one operator or several
    Jobs,        \* requests the API serves at the same time
    Names,       \* container names
    Locations,   \* nginx locations
    PortOf,      \* the host port a container publishes, if it publishes one
    Upstreams,   \* the ports nginx may forward to at first
    AppPort,     \* the port of the application to come
    None,
    MaxClicks,   \* bound on what the operators do
    MaxChanges   \* bound on what others do to the host's containers

Ports == {PortOf[n] : n \in Names}

ASSUME ReconcileAssumption ==
    /\ PortOf \in [Names -> Nat \ {0}] /\ Upstreams \subseteq Nat \ {0} /\ AppPort \in Nat \ {0}
    /\ IsFiniteSet(Locations) /\ None \notin Jobs
    /\ MaxClicks \in Nat /\ MaxChanges \in Nat

VARIABLES
    box,      \* the containers of the host
    route,    \* where nginx's files send each location
    serving,  \* where the running nginx sends it
    front,    \* who holds ports 80 and 443
    proxy,    \* Coolify's proxy for the server
    card, work, clicks, changes

reconcileVars == <<box, route, serving, front, proxy, card, work, clicks, changes>>
world == <<box, route, serving, front, proxy, clicks, changes>>
host == <<box, route, serving, front, proxy, changes>>

\* A container is Coolify's, or is not and publishes ports ("legacy") or none ("quiet").
Container == {"absent", "legacy", "quiet", "managed"}

\* Who holds ports 80 and 443: nginx, another server that may stay ("caddy"), or
\* nobody that matters, Coolify's own proxy included.
Door == {"nginx", "caddy", "none"}

Owners(ports) == {n \in Names : PortOf[n] \in ports}

Listening(boxes) == {PortOf[n] : n \in {m \in Names : boxes[m] \in {"legacy", "managed"}}}

\* What a scan tells the card: suggestedStopContainers, the other containers that are not
\* Coolify's, the front door, and whether an upstream is dead.
Report == [ok : BOOLEAN, suggested : SUBSET Names, quiet : SUBSET Names, front : Door, dead : BOOLEAN]
Blank  == [ok |-> FALSE, suggested |-> {}, quiet |-> {}, front |-> "none", dead |-> FALSE]

Listed(report) == report.suggested \cup report.quiet

Plan   == [stop : SUBSET Names, proxyNone : BOOLEAN, retarget : BOOLEAN]
NoPlan == [stop |-> {}, proxyNone |-> FALSE, retarget |-> FALSE]

\* "changed": the containers that have changed since the host was read.  "dead": the
\* upstreams a reconciliation is to rewrite; "unheard": the containers with such a port
\* that the list of listeners left out, and those that have changed since it was made.
Fresh == [at |-> "shown", job |-> None, report |-> Blank, plan |-> NoPlan, changed |-> {}]
NoWork == [at |-> "idle", plan |-> NoPlan, report |-> Blank, changed |-> {}, dead |-> {},
           unheard |-> {}, failed |-> FALSE, done |-> FALSE]

ReconcileInit ==
    /\ box \in [Names -> Container]
    /\ route \in [Locations -> Upstreams] /\ serving = route
    /\ front \in Door
    /\ proxy = "own"
    /\ card = [c \in Cards |-> Fresh]
    /\ work = [j \in Jobs |-> NoWork]
    /\ clicks = 0 /\ changes = 0

-----------------------------------------------------------------------------
(***************************************************************************)
(* The card.                                                               *)
(***************************************************************************)

Shows(c, k) == card' = [card EXCEPT ![c] = k]

Clicks == clicks < MaxClicks /\ clicks' = clicks + 1

Asks(c, k, j, request) ==
    /\ work[j].at = "idle"
    /\ work' = [work EXCEPT ![j] = request]
    /\ Shows(c, [k EXCEPT !.job = j])
    /\ UNCHANGED host

\* Is request j a reconciliation?  It is never asked for without a tick.
Reconciling(j) == work[j].plan # NoPlan

\* The card has done with its request: an answer that came is forgotten, and so is a
\* scan under way, which changes nothing.
Closed(c) ==
    [j \in Jobs |->
        IF j = card[c].job /\ (work[j].at \in {"answered", "over"} \/ ~Reconciling(j))
        THEN NoWork ELSE work[j]]

ScanRequest == [NoWork EXCEPT !.at = "docker"]

\* The card mounts.
Mount(c, j) ==
    /\ card[c].at = "shown"
    /\ Asks(c, [card[c] EXCEPT !.at = "scanning"], j, ScanRequest)
    /\ UNCHANGED clicks

\* "Re-scan" is clicked.  Report and ticks stay meanwhile.
Scan(c, j) ==
    /\ card[c].at = "ready"
    /\ Asks(c, [card[c] EXCEPT !.at = "scanning"], j, ScanRequest)
    /\ Clicks

\* The boxes are never disabled, not even while a request is under way.
Tick(c) ==
    /\ card[c].report.ok
    /\ \/ \E n \in Listed(card[c].report) :
            Shows(c, [card[c] EXCEPT !.plan.stop = IF n \in @ THEN @ \ {n} ELSE @ \cup {n}])
       \/ /\ card[c].report.front # "none"
          /\ Shows(c, [card[c] EXCEPT !.plan.proxyNone = ~@])
       \/ /\ card[c].report.dead
          /\ Shows(c, [card[c] EXCEPT !.plan.retarget = ~@])
    /\ Clicks
    /\ UNCHANGED <<work, host>>

\* The request carries the ticks of the click.
Reconcile(c, j) ==
    /\ card[c].at = "ready" /\ card[c].report.ok /\ card[c].plan # NoPlan
    /\ Asks(c, [card[c] EXCEPT !.at = "reconciling"], j,
            [NoWork EXCEPT !.at = "proxy", !.plan = card[c].plan, !.changed = card[c].changed])
    /\ Clicks

\* Mutant: a scan adds its suggestions to the ticks there are.
ScannedKeepsTicks(c) ==
    /\ card[c].at = "scanning" /\ work[card[c].job].at = "answered"
    /\ LET report == work[card[c].job].report IN
       Shows(c, [card[c] EXCEPT !.at = "ready", !.job = None, !.report = report,
                   !.plan.stop = @ \cup report.suggested, !.changed = work[card[c].job].changed])
    /\ work' = Closed(c)
    /\ UNCHANGED world

\* The answer replaces the report, and the suggestions replace the ticks.
Scanned(c) ==
    /\ card[c].at = "scanning" /\ work[card[c].job].at = "answered"
    /\ LET report == work[card[c].job].report IN
       Shows(c, [card[c] EXCEPT !.at = "ready", !.job = None, !.report = report,
                   !.plan = [stop |-> report.suggested, proxyNone |-> report.front # "none",
                             retarget |-> report.dead],
                   !.changed = work[card[c].job].changed])
    /\ work' = Closed(c)
    /\ UNCHANGED world

\* reconcile ends with a scan of its own, which clears the result it has just shown.
Reconciled(c) ==
    /\ card[c].at = "reconciling" /\ work[card[c].job].at = "answered"
    /\ Shows(c, [card[c] EXCEPT !.at = "scanning"])
    /\ work' = [work EXCEPT ![card[c].job] = ScanRequest]
    /\ UNCHANGED world

\* Mutant: the card does not forget the request it no longer waits for.
FailsStillWaits(c) ==
    /\ card[c].at \in {"scanning", "reconciling"}
    /\ Shows(c, [card[c] EXCEPT !.at = "ready"])
    /\ work' = Closed(c)
    /\ UNCHANGED world

\* The request is refused or cut off: report and ticks stay as they were, and the
\* API, if it is at work, goes on.
Fails(c) ==
    /\ card[c].at \in {"scanning", "reconciling"}
    /\ Shows(c, [card[c] EXCEPT !.at = "ready", !.job = None])
    /\ work' = Closed(c)
    /\ UNCHANGED world

\* The operator goes to another step and comes back.
Leave(c) ==
    /\ card[c].at # "shown"
    /\ Shows(c, Fresh)
    /\ work' = Closed(c)
    /\ Clicks
    /\ UNCHANGED host

-----------------------------------------------------------------------------
(***************************************************************************)
(* The API.                                                                *)
(***************************************************************************)

Goes(j, k) == work' = [work EXCEPT ![j] = k]

\* The answer, or nothing if nobody waits for it any more.
Answered(j, as, report) ==
    IF \E c \in Cards : card[c].job = j
    THEN [NoWork EXCEPT !.at = as, !.report = report, !.changed = work[j].changed] ELSE NoWork

\* sshTarget refuses (the server is gone or not the tenant's, it has no address or no
\* key), Coolify does not answer, or the API process ends: nothing more comes of it.
Ends(j) ==
    /\ work[j].at \notin {"idle", "answered", "over"}
    /\ Goes(j, Answered(j, "over", Blank))
    /\ UNCHANGED <<card, world>>

\* Coolify is told to run no proxy; if that fails, the rest is done all the same.
SetProxyNone(j) ==
    /\ work[j].at = "proxy"
    /\ LET next == IF work[j].plan.retarget THEN "docker" ELSE "remove" IN
       \/ /\ work[j].plan.proxyNone /\ proxy' = "none"
          /\ Goes(j, [work[j] EXCEPT !.at = next, !.done = TRUE])
       \/ /\ UNCHANGED proxy
          /\ Goes(j, [work[j] EXCEPT !.at = next])
    /\ UNCHANGED <<box, route, serving, front, clicks, changes, card>>

\* The end of a scan: the card's answer, or on with the reconciliation, which looks at
\* the dead upstreams only.
ScanEnds(j, report, dead) ==
    IF Reconciling(j)
    THEN [work[j] EXCEPT !.at = IF dead = {} THEN "remove" ELSE "sed", !.report = Blank, !.dead = dead]
    ELSE Answered(j, "answered", [report EXCEPT !.dead = dead # {}])

\* Mutant: whatever publishes ports is in the way.
ClassifyAll(boxes, owner) ==
    [ok |-> TRUE, suggested |-> {n \in Names : boxes[n] \in {"legacy", "managed"}},
     quiet |-> {n \in Names : boxes[n] = "quiet"}, front |-> owner, dead |-> FALSE]

\* classify
Classify(boxes, owner) ==
    [ok |-> TRUE, suggested |-> {n \in Names : boxes[n] = "legacy"},
     quiet |-> {n \in Names : boxes[n] = "quiet"}, front |-> owner, dead |-> FALSE]

\* The first command of a scan.  Each part of it that fails on the host prints nothing;
\* when SSH itself fails the report says so.
ScanHost(j) ==
    /\ work[j].at = "docker"
    /\ \E boxes \in {box, [n \in Names |-> "absent"]}, owner \in {front, "none"}, ssh \in BOOLEAN :
         LET found  == IF ssh THEN Classify(boxes, owner) ELSE Blank
             report == IF Reconciling(j) THEN Blank ELSE found
             read   == IF Reconciling(j) THEN work[j].changed ELSE {}
         IN Goes(j, IF found.front = "nginx"
                    THEN [work[j] EXCEPT !.at = "nginx", !.report = report, !.changed = read]
                    ELSE [ScanEnds(j, report, {}) EXCEPT !.changed = read])
    /\ UNCHANGED <<card, world>>

\* Mutant: every upstream is taken for dead.
DeadUpstreamsAll(heard) == {route[l] : l \in Locations}

\* deadNginxUpstreamPorts of what the files say and of the ports heard to have a listener.
DeadUpstreams(heard) == {route[l] : l \in Locations} \ heard

\* attachNginxRoutes, whose failure leaves the routes out.  The list of listeners is the
\* end of a pipe that nothing checks: what ss did not print, or all if it is not there,
\* counts as not listening.
ScanNginx(j) ==
    /\ work[j].at = "nginx"
    /\ \E heard \in SUBSET Listening(box) : \E dead \in {DeadUpstreams(heard), {}} :
         LET missed == IF Reconciling(j) THEN dead \cap (Listening(box) \ heard) ELSE {} IN
         Goes(j, [ScanEnds(j, work[j].report, dead) EXCEPT !.unheard = Owners(missed)])
    /\ UNCHANGED <<card, world>>

\* runSshCommand: a command that has worked may still throw, when its time is up or the
\* connection breaks; one that has not worked always throws.
SshOutcome == {o \in [worked : BOOLEAN, said : BOOLEAN] : o.said => o.worked}

\* "s|http://localhost:<dead>|http://localhost:<to>|g" has no end to the port: it also
\* matches one that only begins with those digits, and keeps the rest of them.
Magnitudes == {1, 10, 100, 1000, 10000}
Begins(p, port) == \E m \in Magnitudes : port \div m = p
Sed(port, p, to) ==
    IF Begins(p, port)
    THEN LET m == CHOOSE i \in Magnitudes : port \div i = p IN (to * m) + (port % m)
    ELSE port

\* One expression per dead port, one after the other, over every file.
Rewritten(port, dead) ==
    LET after[n \in 0..Len(dead)] == IF n = 0 THEN port ELSE Sed(after[n - 1], dead[n], AppPort)
    IN  after[Len(dead)]

Retargeted(files, dead) == [l \in Locations |-> Rewritten(files[l], dead)]

\* sed, then nginx -t, then the reload: it may stop in between, or SSH may give up on it.
Retarget(j) ==
    /\ work[j].at = "sed"
    /\ \/ /\ UNCHANGED <<route, serving>>
          /\ Goes(j, [work[j] EXCEPT !.at = "remove", !.dead = {}, !.unheard = {}])
       \/ \E dead \in SetToSeqs(work[j].dead), reload \in SshOutcome :
          /\ route' = Retargeted(route, dead)
          /\ serving' = IF reload.worked THEN route' ELSE serving
          /\ Goes(j, [work[j] EXCEPT !.at = "remove", !.done = @ \/ reload.said,
                                    !.dead = {}, !.unheard = {}])
    /\ UNCHANGED <<box, front, proxy, clicks, changes, card>>

\* docker rm -f, one name after the other: each may fail, and may have worked all the same.
RemoveNext(j) ==
    /\ work[j].at = "remove"
    /\ \E n \in work[j].plan.stop, rm \in SshOutcome :
         /\ box' = IF rm.worked THEN [box EXCEPT ![n] = "absent"] ELSE box
         /\ Goes(j, [work[j] EXCEPT !.plan.stop = @ \ {n}, !.failed = @ \/ ~rm.said,
                                   !.done = @ \/ rm.said])
    /\ UNCHANGED <<route, serving, front, proxy, clicks, changes, card>>

\* Only when something failed and nothing at all was done is the request refused.
Finish(j) ==
    /\ work[j].at = "remove" /\ work[j].plan.stop = {}
    /\ Goes(j, Answered(j, IF work[j].failed /\ ~work[j].done THEN "over" ELSE "answered", Blank))
    /\ UNCHANGED <<card, world>>

-----------------------------------------------------------------------------

\* Others start, stop and replace containers: Coolify's deploys, the server's owner.
HostChanges ==
    /\ changes < MaxChanges /\ changes' = changes + 1
    /\ \E n \in Names, kind \in Container :
         /\ box[n] # kind /\ box' = [box EXCEPT ![n] = kind]
         /\ card' = [c \in Cards |-> IF card[c].report.ok
                                     THEN [card[c] EXCEPT !.changed = @ \cup {n}] ELSE card[c]]
         /\ work' = [j \in Jobs |-> IF work[j].at = "idle" THEN NoWork
                                   ELSE [work[j] EXCEPT !.changed = @ \cup {n},
                                           !.unheard = IF work[j].at = "sed" THEN @ \cup {n} ELSE {}]]
    /\ UNCHANGED <<route, serving, front, proxy, clicks>>

ReconcileNext ==
    \/ \E c \in Cards : Tick(c) \/ Scanned(c) \/ Reconciled(c) \/ Fails(c) \/ Leave(c)
    \/ \E c \in Cards, j \in Jobs : Mount(c, j) \/ Scan(c, j) \/ Reconcile(c, j)
    \/ \E j \in Jobs : \/ Ends(j) \/ SetProxyNone(j) \/ ScanHost(j)
                       \/ ScanNginx(j) \/ Retarget(j) \/ RemoveNext(j) \/ Finish(j)
    \/ HostChanges

ReconcileSpec == ReconcileInit /\ [][ReconcileNext]_reconcileVars

-----------------------------------------------------------------------------
(***************************************************************************)
(* What must hold.                                                         *)
(***************************************************************************)

Card == [at : {"shown", "ready", "scanning", "reconciling"}, job : Jobs \cup {None},
         report : Report, plan : Plan, changed : SUBSET Names]
Work == [at : {"idle", "proxy", "docker", "nginx", "sed", "remove", "answered", "over"},
         plan : Plan, report : Report, changed : SUBSET Names, dead : SUBSET Nat,
         unheard : SUBSET Names, failed : BOOLEAN, done : BOOLEAN]

\* Types, and a card waits exactly for the request it has sent.
ReconcileTypeOK ==
    /\ box \in [Names -> Container]
    /\ route \in [Locations -> Nat \ {0}] /\ serving \in [Locations -> Nat \ {0}]
    /\ front \in Door /\ proxy \in {"own", "none"}
    /\ card \in [Cards -> Card] /\ work \in [Jobs -> Work]
    /\ \A c \in Cards : card[c].job # None <=> card[c].at \in {"scanning", "reconciling"}
    /\ clicks \in 0..MaxClicks /\ changes \in 0..MaxChanges

\* "Nothing is changed unless you tick it and confirm": a reconciliation takes a
\* container of Coolify's from the host only if it became Coolify's after the scan that
\* the operator was looking at when they clicked: no tick outlives the report it was
\* made in, however scans fail, overlap and are repeated.
ManagedSurvive ==
    [][\A j \in Jobs, n \in Names :
         /\ work[j].at = "remove" /\ n \in work[j].plan.stop \ work'[j].plan.stop
         /\ box[n] = "managed" /\ box'[n] = "absent"
         => n \in work[j].changed]_reconcileVars

\* "Safe sed: retarget specific dead upstream ports": a reconciliation leaves a route
\* alone whose port has a listener, unless its own list of listeners left that port out
\* or the port's owner came up after the list was made; what an earlier scan, or the
\* card, took for dead does not count.  The last exception is the code's too: the
\* expression has no end to the port, so it also rewrites a live port that begins with
\* the digits of a dead one.
ServedRoutesStay ==
    [][\A j \in Jobs, l \in Locations :
         (work[j].at = "sed" /\ work'[j].at # "sed" /\ route'[l] # route[l])
         => \/ \E n \in work[j].unheard : PortOf[n] = route[l]
            \/ route[l] \notin Listening(box)
            \/ \E p \in work[j].dead \ {route[l]} : Begins(p, route[l])]_reconcileVars

=============================================================================
