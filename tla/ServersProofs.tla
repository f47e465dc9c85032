---------------------------- MODULE ServersProofs ----------------------------
(***************************************************************************)
(* Theorems about Servers, for any number of requests, tenants, hosts and   *)
(* keys, and about Reconcile, for any number of cards, requests, containers  *)
(* and nginx locations.                                                     *)
(***************************************************************************)
EXTENDS Servers, Reconcile, FiniteSetTheorems, SequenceTheorems, TLAPS

\* The places of a request that registers, and those of one that has its server.
Registering == {"find", "findKey", "createKey", "findKeyAgain", "create", "findAgain"}
Checking    == {"look", "trigger", "poll", "verdict"}

(***************************************************************************)
(* What a request holds.  Until it has stored its key there is none under   *)
(* its name; the key it creates a server with is the one it was given; and  *)
(* a host it was told is in use is in use, though not by a server it may    *)
(* see.                                                                    *)
(***************************************************************************)

StoresOnce(q) ==
    job[q].pc \in {"idle", "find", "findKey", "createKey"} => key[q] = NoPaste

Registers(q) ==
    job[q].pc \in Registering => /\ job[q].paste \in Paste
                                 /\ job[q].host \in Hosts /\ job[q].tenant \in Tenants

HoldsServer(q) ==
    /\ job[q].found # NoHost => Exists(job[q].found)
    /\ job[q].pc \in Checking => job[q].found # NoHost

HoldsKey(q) ==
    job[q].pc = "create" => /\ job[q].key \in KeyIds
                            /\ key[job[q].key] # NoPaste
                            /\ SshPrivateKeysMatch(key[job[q].key], job[q].paste)

HostInUse(q) ==
    /\ job[q].pc = "findAgain" => Exists(job[q].host)
    /\ job[q].answer = "taken" =>
          /\ job[q].pc = "done" /\ job[q].host \in Hosts
          /\ Exists(job[q].host) /\ ~Visible(job[q].host, job[q].tenant)

RequestInv(q) ==
    StoresOnce(q) /\ Registers(q) /\ HoldsServer(q) /\ HoldsKey(q) /\ HostInUse(q)

\* A server has a key that Coolify has.  One that a registration created has its key, and
\* the registration is past all that could change what was pasted.
ServerInv(h) ==
    Exists(h) =>
        /\ server[h].key \in KeyIds /\ key[server[h].key] # NoPaste
        /\ server[h].by \in Requests =>
              /\ job[server[h].by].pc \in Checking \cup {"done"}
              /\ job[server[h].by].paste \in Paste
              /\ SshPrivateKeysMatch(key[server[h].key], job[server[h].by].paste)

ServersInv ==
    /\ key \in [KeyIds -> Key] /\ server \in [Hosts -> Server] /\ job \in [Requests -> Job]
    /\ \A q \in Requests : RequestInv(q)
    /\ \A h \in Hosts : ServerInv(h)

-----------------------------------------------------------------------------

\* Line endings apart, a key stays the key it was.
LEMMA Normal ==
    ASSUME NEW p \in Paste
    PROVE  /\ Normalize(p) \in Paste
           /\ SshPrivateKeysMatch(Normalize(p), p)
<1>1. Normalize(p) \in Paste
  BY DEF Normalize, Paste
<1>2. Normalize(Normalize(p)) = Normalize(p)
  BY DEF Normalize, Paste
<1> QED
  BY <1>1, <1>2 DEF SshPrivateKeysMatch

\* What a request leaves behind when it is answered.
LEMMA AnswerRecord ==
    ASSUME ServersInv, NEW q \in Requests, NEW answer \in Answers, Answer(q, answer)
    PROVE  /\ job' \in [Requests -> Job]
           /\ \A p \in Requests \ {q} : job'[p] = job[p]
           /\ job'[q].pc = "done" /\ job'[q].answer = answer /\ job'[q].found = NoHost
           /\ job'[q].paste = job[q].paste
           /\ answer = "taken" => /\ job'[q].tenant = job[q].tenant
                                  /\ job'[q].host = job[q].host
<1> DEFINE left == [Idle EXCEPT !.pc = "done", !.answer = answer, !.paste = job[q].paste,
                               !.tenant = IF answer = "taken" THEN job[q].tenant ELSE @,
                               !.host = IF answer = "taken" THEN job[q].host ELSE @]
<1>1. job \in [Requests -> Job] /\ job[q] \in Job
  BY DEF ServersInv
<1>2. job' = [job EXCEPT ![q] = left]
  BY DEF Answer, Set
<1>3. Idle \in Job
  BY DEF Idle, Job, Key, Kind, Answers
<1> DEFINE tenant == IF answer = "taken" THEN job[q].tenant ELSE Nobody
           address == IF answer = "taken" THEN job[q].host ELSE NoHost
<1>4. left \in Job
  <2>1. tenant \in Tenants \cup {Nobody} /\ address \in Hosts \cup {NoHost} /\ job[q].paste \in Key
    BY <1>1 DEF Job
  <2>2. left = [[[[[Idle EXCEPT !.pc = "done"] EXCEPT !.answer = answer] EXCEPT !.paste = job[q].paste]
                   EXCEPT !.tenant = tenant] EXCEPT !.host = address]
    BY DEF Idle
  <2> HIDE DEF left, tenant, address
  <2> QED
    BY <1>3, <2>1, <2>2 DEF Job
<1>5. /\ left.pc = "done" /\ left.answer = answer /\ left.found = NoHost
      /\ left.paste = job[q].paste
      /\ answer = "taken" => left.tenant = job[q].tenant /\ left.host = job[q].host
  BY DEF Idle
<1> HIDE DEF left
<1>6. job' \in [Requests -> Job] /\ job'[q] = left /\ \A p \in Requests \ {q} : job'[p] = job[p]
  BY <1>1, <1>2, <1>4
<1> QED
  BY <1>5, <1>6

-----------------------------------------------------------------------------

\* What no step takes back: keys and servers stay what they are, and a registration that
\* has its server keeps what was pasted.
Onward ==
    /\ \A k \in KeyIds : key[k] # NoPaste => key'[k] = key[k]
    /\ \A h \in Hosts : Exists(h) => /\ server'[h].by = server[h].by
                                     /\ server'[h].owner = server[h].owner
                                     /\ server'[h].key = server[h].key
    /\ \A q \in Requests : job[q].pc \in Checking \cup {"done"} =>
          job'[q].pc \in Checking \cup {"done"} /\ job'[q].paste = job[q].paste

\* A request that does nothing keeps what it holds.
LEMMA Bystander ==
    ASSUME ServersInv, Onward, NEW q \in Requests, job'[q] = job[q], key'[q] = key[q]
    PROVE  RequestInv(q)'
<1>1. RequestInv(q) /\ job[q] \in Job
  BY DEF ServersInv
<1>2. StoresOnce(q)' /\ Registers(q)'
  BY <1>1 DEF RequestInv, StoresOnce, Registers
<1>3. HoldsServer(q)'
  BY <1>1, ServersAssumption DEF RequestInv, HoldsServer, Onward, Exists, Job
<1>4. HoldsKey(q)'
  BY <1>1 DEF RequestInv, HoldsKey, Onward
<1>5. HostInUse(q)'
  BY <1>1 DEF RequestInv, HostInUse, Onward, Exists, Visible, Registers, Registering
<1> QED
  BY <1>2, <1>3, <1>4, <1>5 DEF RequestInv

\* A server that was there keeps its key.
LEMMA ServerStays ==
    ASSUME ServersInv, Onward, NEW h \in Hosts, server'[h].by = server[h].by
    PROVE  ServerInv(h)'
<1>1. ServerInv(h) /\ server[h] \in Server
  BY DEF ServersInv
<1> QED
  BY <1>1 DEF ServerInv, Onward, Exists

\* One request moves, with what it stored and the server it created.
LEMMA Moves ==
    ASSUME ServersInv, Onward, NEW q \in Requests,
           key' \in [KeyIds -> Key], server' \in [Hosts -> Server], job' \in [Requests -> Job],
           \A p \in Requests \ {q} : job'[p] = job[p] /\ key'[p] = key[p],
           RequestInv(q)',
           \A h \in Hosts : server'[h].by = server[h].by \/ ServerInv(h)'
    PROVE  ServersInv'
<1>1. \A p \in Requests : RequestInv(p)'
  BY Bystander
<1>2. \A h \in Hosts : ServerInv(h)'
  BY ServerStays
<1> QED
  BY <1>1, <1>2 DEF ServersInv

\* A request is answered; no key and no server is stored.
LEMMA IsAnswered ==
    ASSUME ServersInv, NEW q \in Requests, NEW answer \in Answers, Answer(q, answer),
           UNCHANGED <<key, server>>,
           job[q].pc # "idle",
           answer = "taken" => job[q].pc = "findAgain" /\ ~Visible(job[q].host, job[q].tenant)
    PROVE  ServersInv'
<1>1. Onward
  BY AnswerRecord DEF Onward
<1>2. RequestInv(q) /\ key[q] \in Key
  BY DEF ServersInv, KeyIds
<1>3. HostInUse(q)'
  BY <1>2, AnswerRecord DEF RequestInv, HostInUse, Registers, Registering, Exists, Visible
<1>4. RequestInv(q)'
  BY <1>3, AnswerRecord
  DEF RequestInv, StoresOnce, Registers, Registering, HoldsServer, HoldsKey, Checking
<1> QED
  BY <1>1, <1>4, AnswerRecord, Moves DEF ServersInv

\* A request goes on; no key and no server is stored.
LEMMA GoesOn ==
    ASSUME ServersInv, NEW q \in Requests, NEW j \in Job, Set(q, j), UNCHANGED <<key, server>>,
           job[q].pc \in Checking => j.pc \in Checking,
           job[q].pc # "done", j.pc \notin {"idle", "done"},
           j.paste = job[q].paste \/ job[q].pc \in {"idle", "find"},
           j.answer # "taken",
           j.pc \in {"find", "findKey", "createKey"} =>
                job[q].pc \in {"idle", "find", "findKey", "createKey"},
           j.pc \in Registering =>
                j.paste \in Paste /\ j.host \in Hosts /\ j.tenant \in Tenants,
           j.found # NoHost => Exists(j.found),
           j.pc \in Checking => j.found # NoHost,
           j.pc = "create" => /\ j.key \in KeyIds /\ key[j.key] # NoPaste
                              /\ SshPrivateKeysMatch(key[j.key], j.paste),
           j.pc = "findAgain" => Exists(j.host)
    PROVE  ServersInv'
<1>1. job \in [Requests -> Job] /\ RequestInv(q)
  BY DEF ServersInv
<1>2. /\ job' \in [Requests -> Job] /\ job'[q] = j
      /\ \A p \in Requests \ {q} : job'[p] = job[p]
  BY <1>1 DEF Set
<1>3. Onward
  BY <1>2 DEF Onward, Checking
<1>4. RequestInv(q)'
  BY <1>1, <1>2
  DEF RequestInv, StoresOnce, Registers, Registering, HoldsServer, HoldsKey, HostInUse,
      Checking, Exists
<1> QED
  BY <1>2, <1>3, <1>4, Moves DEF ServersInv

\* The key is at hand, and has just been stored or was known.
LEMMA KeyAtHand ==
    ASSUME ServersInv, NEW q \in Requests, NEW k \in KeyIds, WithKey(q, k),
           job[q].pc \in {"findKey", "createKey", "findKeyAgain"},
           UNCHANGED server, key' \in [KeyIds -> Key],
           \A p \in KeyIds : key[p] # NoPaste \/ p # q => key'[p] = key[p],
           key'[k] # NoPaste, SshPrivateKeysMatch(key'[k], job[q].paste)
    PROVE  ServersInv'
<1>1. job \in [Requests -> Job] /\ job[q] \in Job /\ RequestInv(q)
  BY DEF ServersInv
<1>2. /\ job[q].paste \in Paste /\ job[q].host \in Hosts /\ job[q].tenant \in Tenants
      /\ job[q].answer # "taken"
      /\ job[q].found # NoHost => Exists(job[q].found)
  BY <1>1 DEF RequestInv, Registers, Registering, HostInUse, HoldsServer
<1> DEFINE j == IF job[q].found # NoHost THEN [job[q] EXCEPT !.pc = "trigger", !.found = job[q].found]
                ELSE [job[q] EXCEPT !.pc = "create", !.key = k]
<1>3. j \in Job
  BY <1>1 DEF Job, Underway
<1>4. /\ job' = [job EXCEPT ![q] = j]
      /\ j.pc = IF job[q].found # NoHost THEN "trigger" ELSE "create"
      /\ j.pc = "create" => j.key = k
      /\ j.found = job[q].found /\ j.host = job[q].host /\ j.tenant = job[q].tenant
      /\ j.paste = job[q].paste /\ j.answer = job[q].answer
  BY <1>1 DEF WithKey, Check, Set, Job
<1> HIDE DEF j
<1>5. job' \in [Requests -> Job] /\ job'[q] = j /\ \A p \in Requests \ {q} : job'[p] = job[p]
  BY <1>1, <1>3, <1>4
<1>6. Onward
  BY <1>1, <1>5 DEF Onward, Checking
<1>7. RequestInv(q)'
  BY <1>2, <1>4, <1>5
  DEF RequestInv, StoresOnce, Registers, Registering, HoldsServer, HoldsKey, HostInUse,
      Checking, Exists
<1> QED
  BY <1>5, <1>6, <1>7, Moves DEF ServersInv, KeyIds

\* A look, a poll or the deadline: the request keeps its server.
LEMMA ChecksOn ==
    ASSUME ServersInv, NEW q \in Requests, NEW pc \in {"trigger", "poll", "verdict"}, Goto(q, pc),
           UNCHANGED <<key, server>>, job[q].pc \in Checking
    PROVE  ServersInv'
<1>1. job \in [Requests -> Job] /\ job[q] \in Job /\ RequestInv(q)
  BY DEF ServersInv
<1> DEFINE j == [job[q] EXCEPT !.pc = pc]
<1>2. j \in Job
  BY <1>1 DEF Job, Underway
<1>3. /\ Set(q, j) /\ j.pc = pc /\ j.found = job[q].found
      /\ j.paste = job[q].paste /\ j.answer = job[q].answer
  BY <1>1 DEF Job, Goto
<1> HIDE DEF j
<1> QED
  BY <1>1, <1>2, <1>3, GoesOn DEF Checking, Registering, RequestInv, HoldsServer, HostInUse

\* A new server has the key the registration looked up, or stored.
LEMMA NewServerRight ==
    ASSUME ServersInv, NEW q \in Requests, job[q].pc = "create",
           NEW h \in Hosts, h = job[q].host, ~Exists(h),
           server' = [server EXCEPT ![h] = NewServer(q)], UNCHANGED key,
           job'[q].pc \in Checking \cup {"done"}, job'[q].paste = job[q].paste
    PROVE  /\ server' \in [Hosts -> Server]
           /\ Exists(h)'
           /\ \A x \in Hosts \ {h} : server'[x] = server[x]
           /\ ServerInv(h)'
<1>1. /\ server \in [Hosts -> Server] /\ RequestInv(q)
      /\ job[q].host \in Hosts /\ job[q].tenant \in Tenants /\ job[q].paste \in Paste
  BY DEF ServersInv, RequestInv, Registers, Registering
<1>2. /\ job[q].key \in KeyIds /\ key[job[q].key] # NoPaste
      /\ SshPrivateKeysMatch(key[job[q].key], job[q].paste)
  BY <1>1 DEF RequestInv, HoldsKey
<1>3. NewServer(q) \in Server
  BY <1>1, <1>2 DEF NewServer, Server
<1>4. server'[h] = NewServer(q) /\ \A x \in Hosts \ {h} : server'[x] = server[x]
  BY <1>1
<1>5. Exists(h)'
  BY <1>4, ServersAssumption DEF Exists, NewServer
<1>6. ServerInv(h)'
  BY <1>1, <1>2, <1>4 DEF ServerInv, NewServer
<1> QED
  BY <1>1, <1>3, <1>4, <1>5, <1>6

LEMMA CreatesServer ==
    ASSUME ServersInv, NEW q \in Requests, job[q].pc = "create",
           NEW h \in Hosts, h = job[q].host, ~Exists(h),
           server' = [server EXCEPT ![h] = NewServer(q)], UNCHANGED key,
           Check(q, h)
    PROVE  ServersInv'
<1>1. /\ job \in [Requests -> Job] /\ job[q] \in Job /\ RequestInv(q)
      /\ job[q].answer # "taken"
  BY DEF ServersInv, RequestInv, Registers, Registering, HostInUse
<1> DEFINE j == [job[q] EXCEPT !.pc = "trigger", !.found = h]
<1>2. j \in Job
  BY <1>1 DEF Job, Underway
<1>3. /\ job' = [job EXCEPT ![q] = j]
      /\ j.pc = "trigger" /\ j.found = h
      /\ j.paste = job[q].paste /\ j.answer = job[q].answer
  BY <1>1 DEF Job, Check, Set
<1> HIDE DEF j
<1>4. job' \in [Requests -> Job] /\ job'[q] = j /\ \A p \in Requests \ {q} : job'[p] = job[p]
  BY <1>1, <1>2, <1>3
<1>5. /\ server' \in [Hosts -> Server]
      /\ Exists(h)'
      /\ \A x \in Hosts \ {h} : server'[x] = server[x]
      /\ ServerInv(h)'
  BY <1>3, <1>4, NewServerRight DEF Checking
<1>6. Onward
  BY <1>4, <1>5 DEF Onward, Checking
<1>7. RequestInv(q)'
  <2>1. job'[q].pc = "trigger" /\ job'[q].found = h /\ job'[q].answer # "taken"
    BY <1>1, <1>3, <1>4
  <2>2. HoldsServer(q)'
    BY <1>5, <2>1, ServersAssumption DEF HoldsServer, Exists
  <2> QED
    BY <2>1, <2>2 DEF RequestInv, StoresOnce, Registers, Registering, HoldsKey, HostInUse
<1> QED
  BY <1>4, <1>5, <1>6, <1>7, Moves DEF ServersInv

\* The call fails, and Coolify has the server all the same.
LEMMA CreatedThenFailed ==
    ASSUME ServersInv, NEW q \in Requests, job[q].pc = "create",
           NEW h \in Hosts, h = job[q].host, ~Exists(h),
           server' = [server EXCEPT ![h] = NewServer(q)], UNCHANGED key,
           Answer(q, "failed")
    PROVE  ServersInv'
<1>1. /\ job' \in [Requests -> Job]
      /\ \A p \in Requests \ {q} : job'[p] = job[p]
      /\ job'[q].pc = "done" /\ job'[q].answer = "failed" /\ job'[q].found = NoHost
      /\ job'[q].paste = job[q].paste
  BY AnswerRecord DEF Answers
<1>2. /\ server' \in [Hosts -> Server]
      /\ \A x \in Hosts \ {h} : server'[x] = server[x]
      /\ ServerInv(h)'
  BY <1>1, NewServerRight
<1>3. Onward
  BY <1>1, <1>2 DEF Onward, Checking
<1>4. RequestInv(q)'
  BY <1>1
  DEF RequestInv, StoresOnce, Registers, Registering, HoldsServer, HoldsKey, HostInUse, Checking
<1> QED
  BY <1>1, <1>2, <1>3, <1>4, Moves DEF ServersInv

\* The call fails, and Coolify has the key all the same.
LEMMA StoredThenFailed ==
    ASSUME ServersInv, NEW q \in Requests, job[q].pc = "createKey", UNCHANGED server,
           key' = [key EXCEPT ![q] = Normalize(job[q].paste)], Answer(q, "failed")
    PROVE  ServersInv'
<1>1. /\ job' \in [Requests -> Job]
      /\ \A p \in Requests \ {q} : job'[p] = job[p]
      /\ job'[q].pc = "done" /\ job'[q].answer = "failed" /\ job'[q].found = NoHost
      /\ job'[q].paste = job[q].paste
  BY AnswerRecord DEF Answers
<1>2. key \in [KeyIds -> Key] /\ q \in KeyIds /\ job[q].paste \in Paste /\ key[q] = NoPaste
  BY DEF ServersInv, KeyIds, RequestInv, Registers, Registering, StoresOnce
<1>3. key' \in [KeyIds -> Key] /\ \A k \in KeyIds \ {q} : key'[k] = key[k]
  BY <1>2, Normal DEF Key
<1>4. Onward
  BY <1>1, <1>2, <1>3 DEF Onward, Checking
<1>5. RequestInv(q)'
  BY <1>1
  DEF RequestInv, StoresOnce, Registers, Registering, HoldsServer, HoldsKey, HostInUse, Checking
<1> QED
  BY <1>1, <1>3, <1>4, <1>5, Moves DEF ServersInv, KeyIds

LEMMA Initially == Init => ServersInv
<1> SUFFICES ASSUME Init PROVE ServersInv
  OBVIOUS
<1>1. PICK p \in Pastes : AssertValid(p)
  BY ServersAssumption DEF AssertValid
<1>2. (CHOOSE x \in Pastes : AssertValid(x)) \in Paste
  BY <1>1, ServersAssumption
<1>3. /\ key \in [KeyIds -> Key] /\ key[First] \in Paste
      /\ \A q \in Requests : key[q] = NoPaste
  BY <1>2, ServersAssumption DEF Init, KeyIds, Key
<1>4. job \in [Requests -> Job] /\ \A q \in Requests : job[q] = Idle
  <2>1. Idle \in Job
    BY DEF Idle, Job, Key, Kind, Answers
  <2> QED
    BY <2>1 DEF Init
<1>5. server \in [Hosts -> Server]
  BY DEF Init
<1>6. ASSUME NEW q \in Requests PROVE RequestInv(q)
  <2>1. job[q].pc = "idle" /\ job[q].found = NoHost /\ job[q].answer = "none"
    BY <1>4 DEF Idle
  <2> QED
    BY <1>3, <2>1
    DEF RequestInv, StoresOnce, Registers, Registering, HoldsServer, HoldsKey, HostInUse,
        Checking, Registering
<1>7. ASSUME NEW h \in Hosts PROVE ServerInv(h)
  <2>1. ~Exists(h) \/ (server[h].by = First /\ server[h].key = First)
    BY DEF Init, Exists, NoServer
  <2> QED
    BY <1>3, <2>1, ServersAssumption DEF ServerInv, KeyIds
<1> QED
  BY <1>3, <1>4, <1>5, <1>6, <1>7 DEF ServersInv

\* Every step of a request preserves the invariant: each action in turn.
LEMMA RequestStep ==
    ASSUME ServersInv, NEW q \in Requests,
           (\E i \in Inputs : Begin(q, i)) \/ Step(q) \/ Deadline(q) \/ Throws(q)
    PROVE  ServersInv'
<1>1. /\ key \in [KeyIds -> Key] /\ server \in [Hosts -> Server] /\ job \in [Requests -> Job]
      /\ job[q] \in Job /\ RequestInv(q) /\ q \in KeyIds
  BY DEF ServersInv, KeyIds
<1>2. job[q].pc # "done" => job[q].answer # "taken"
  BY <1>1 DEF RequestInv, HostInUse
<1>3. job[q].pc \in Registering =>
         job[q].paste \in Paste /\ job[q].host \in Hosts /\ job[q].tenant \in Tenants
  BY <1>1 DEF RequestInv, Registers
<1>4. /\ job[q].found # NoHost => Exists(job[q].found)
      /\ job[q].pc \in Checking => job[q].found # NoHost
  BY <1>1 DEF RequestInv, HoldsServer
<1>5. ASSUME NEW i \in Inputs, Begin(q, i) PROVE ServersInv'
  <2>1. /\ i.kind \in Kind /\ i.tenant \in Tenants /\ i.host \in Hosts /\ i.paste \in Key
        /\ i.kind = "register" => i.paste \in Paste
        /\ i.kind # "register" => Exists(i.host)
    BY ServersAssumption DEF Inputs, Key
  <2> DEFINE j == [Idle EXCEPT !.kind = i.kind, !.tenant = i.tenant, !.host = i.host, !.paste = i.paste,
                           !.found = IF i.kind = "register" THEN NoHost ELSE i.host,
                           !.pc = CASE i.kind = "register" -> "find"
                                    [] i.kind = "validate" -> "trigger"
                                    [] OTHER               -> "look"]
  <2>2. /\ j.paste = i.paste /\ j.host = i.host /\ j.tenant = i.tenant /\ j.answer = "none"
        /\ i.kind = "register" => j.pc = "find" /\ j.found = NoHost
        /\ i.kind # "register" => j.pc \in {"look", "trigger"} /\ j.found = i.host
    BY DEF Idle
  <2>3. j \in Job
    BY <2>1 DEF Idle, Job, Key, Kind, Answers, Underway
  <2>4. Set(q, j) /\ job[q].pc = "idle" /\ UNCHANGED <<key, server>>
    BY <1>5 DEF Begin
  <2> HIDE DEF j
  <2> QED
    BY <2>1, <2>2, <2>3, <2>4, GoesOn, ServersAssumption DEF Checking, Registering
<1>6. CASE Refuse(q)
  BY <1>6, IsAnswered DEF Refuse, Answers
<1>7. CASE FindByHost(q)
  <2> DEFINE found == IF Visible(job[q].host, job[q].tenant) THEN job[q].host ELSE NoHost
             j == [job[q] EXCEPT !.pc = "findKey", !.paste = Normalize(@), !.found = found]
  <2>1. job[q].pc = "find" /\ Set(q, j) /\ UNCHANGED <<key, server>>
    BY <1>7 DEF FindByHost
  <2>2. Normalize(job[q].paste) \in Paste
    BY <2>1, <1>3, Normal DEF Registering
  <2>3. found \in Hosts \cup {NoHost} /\ (found # NoHost => Exists(found))
    BY <2>1, <1>3 DEF Registering, Visible
  <2> HIDE DEF found
  <2>4. /\ j.pc = "findKey" /\ j.paste = Normalize(job[q].paste) /\ j.found = found
        /\ j.host = job[q].host /\ j.tenant = job[q].tenant /\ j.answer = job[q].answer
        /\ j \in Job
    BY <1>1, <2>2, <2>3 DEF Job, Key, Underway
  <2> HIDE DEF j
  <2> QED
    BY <1>2, <1>3, <2>1, <2>2, <2>3, <2>4, GoesOn DEF Checking, Registering
<1>8. CASE FindKey(q)
  <2>1. job[q].pc \in {"findKey", "findKeyAgain"} /\ UNCHANGED <<key, server>>
    BY <1>8 DEF FindKey
  <2>2. ASSUME NEW k \in Matching(q), WithKey(q, k) PROVE ServersInv'
    BY <2>1, <2>2, <1>1, KeyAtHand DEF Matching
  <2>3. CASE Goto(q, "createKey") /\ job[q].pc = "findKey"
    <3> DEFINE j == [job[q] EXCEPT !.pc = "createKey"]
    <3>1. j \in Job /\ Set(q, j) /\ j.pc = "createKey" /\ j.found = job[q].found
          /\ j.paste = job[q].paste /\ j.host = job[q].host /\ j.tenant = job[q].tenant
          /\ j.answer = job[q].answer
      BY <1>1, <2>3 DEF Job, Underway, Goto
    <3> HIDE DEF j
    <3> QED
      BY <1>2, <1>3, <1>4, <2>1, <2>3, <3>1, GoesOn DEF Checking, Registering
  <2>4. CASE Answer(q, "failed")
    BY <2>1, <2>4, IsAnswered DEF Answers
  <2> QED
    BY <1>8, <2>2, <2>3, <2>4 DEF FindKey
<1>9. CASE CreateKey(q)
  <2>1. job[q].pc = "createKey" /\ UNCHANGED server /\ job[q].paste \in Paste
    BY <1>3, <1>9 DEF CreateKey, Registering
  <2>2. CASE key' = [key EXCEPT ![q] = Normalize(job[q].paste)] /\ WithKey(q, q)
    <3>1. /\ key' \in [KeyIds -> Key] /\ key'[q] # NoPaste
          /\ SshPrivateKeysMatch(key'[q], job[q].paste)
      BY <1>1, <2>1, <2>2, Normal, ServersAssumption DEF Key
    <3>2. key[q] = NoPaste
      BY <1>1, <2>1 DEF RequestInv, StoresOnce
    <3> QED
      BY <1>1, <2>1, <2>2, <3>1, <3>2, KeyAtHand
  <2>3. CASE Goto(q, "findKeyAgain") /\ UNCHANGED key
    <3> DEFINE j == [job[q] EXCEPT !.pc = "findKeyAgain"]
    <3>1. j \in Job /\ Set(q, j) /\ j.pc = "findKeyAgain" /\ j.found = job[q].found
          /\ j.paste = job[q].paste /\ j.host = job[q].host /\ j.tenant = job[q].tenant
          /\ j.answer = job[q].answer
      BY <1>1, <2>3 DEF Job, Underway, Goto
    <3> HIDE DEF j
    <3> QED
      BY <1>2, <1>3, <1>4, <2>1, <2>3, <3>1, GoesOn DEF Checking, Registering
  <2> QED
    BY <1>9, <2>2, <2>3 DEF CreateKey
<1>10. CASE CreateServer(q)
  <2>1. job[q].pc = "create" /\ UNCHANGED key
    BY <1>10 DEF CreateServer
  <2>2. CASE ~Exists(job[q].host) /\ server' = [server EXCEPT ![job[q].host] = NewServer(q)]
             /\ Check(q, job[q].host)
    BY <1>3, <2>1, <2>2, CreatesServer DEF Registering
  <2>3. CASE Exists(job[q].host) /\ Goto(q, "findAgain") /\ UNCHANGED server
    <3> DEFINE j == [job[q] EXCEPT !.pc = "findAgain"]
    <3>1. j \in Job /\ Set(q, j) /\ j.pc = "findAgain" /\ j.found = job[q].found
          /\ j.paste = job[q].paste /\ j.host = job[q].host /\ j.tenant = job[q].tenant
          /\ j.answer = job[q].answer
      BY <1>1, <2>3 DEF Job, Underway, Goto
    <3> HIDE DEF j
    <3> QED
      BY <1>2, <1>3, <1>4, <2>1, <2>3, <3>1, GoesOn DEF Checking, Registering
  <2> QED
    BY <1>10, <2>2, <2>3 DEF CreateServer
<1>11. CASE FindAgain(q)
  <2>1. job[q].pc = "findAgain" /\ UNCHANGED <<key, server>>
    BY <1>11 DEF FindAgain
  <2>2. CASE Visible(job[q].host, job[q].tenant) /\ Check(q, job[q].host)
    <3> DEFINE j == [job[q] EXCEPT !.pc = "trigger", !.found = job[q].host]
    <3>1. j \in Job /\ Set(q, j) /\ j.pc = "trigger" /\ j.found = job[q].host
          /\ j.paste = job[q].paste /\ j.answer = job[q].answer
      BY <1>1, <1>3, <2>1, <2>2 DEF Job, Underway, Check, Registering
    <3>2. job[q].host # NoHost /\ Exists(job[q].host)
      BY <1>3, <2>1, <2>2, ServersAssumption DEF Registering, Visible
    <3> HIDE DEF j
    <3> QED
      BY <1>2, <2>1, <3>1, <3>2, GoesOn DEF Checking, Registering
  <2>3. CASE ~Visible(job[q].host, job[q].tenant) /\ Answer(q, "taken")
    BY <2>1, <2>3, IsAnswered DEF Answers
  <2> QED
    BY <1>11, <2>2, <2>3 DEF FindAgain
<1>12. CASE Look(q)
  <2>1. job[q].pc = "look" /\ UNCHANGED <<key, server>>
    BY <1>12 DEF Look
  <2>2. CASE Goto(q, "trigger")
    BY <1>1, <1>2, <1>4, <2>1, <2>2, ChecksOn DEF Checking
  <2>3. ASSUME NEW answer \in {"not found", "valid", "invalid"}, Answer(q, answer) PROVE ServersInv'
    BY <2>1, <2>3, IsAnswered DEF Answers
  <2> QED
    BY <1>12, <2>2, <2>3 DEF Look
<1>13. CASE TriggerValidation(q)
  BY <1>1, <1>2, <1>4, <1>13, ChecksOn DEF TriggerValidation, Checking
<1>14. CASE Poll(q)
  <2>1. job[q].pc = "poll" /\ UNCHANGED <<key, server>>
    BY <1>14 DEF Poll
  <2>2. CASE Goto(q, "verdict")
    BY <1>1, <1>2, <1>4, <2>1, <2>2, ChecksOn DEF Checking
  <2>3. ASSUME NEW answer \in {"not found", "valid", "conflict"}, Answer(q, answer) PROVE ServersInv'
    BY <2>1, <2>3, IsAnswered DEF Answers
  <2> QED
    BY <1>14, <2>2, <2>3 DEF Poll
<1>15. CASE Verdict(q)
  BY <1>15, IsAnswered DEF Verdict, Answers
<1>16. CASE Deadline(q)
  <2> DEFINE j == [job[q] EXCEPT !.late = TRUE]
  <2>1. /\ j \in Job /\ j.pc = "poll" /\ j.found = job[q].found
        /\ j.paste = job[q].paste /\ j.answer = job[q].answer
        /\ job[q].pc = "poll" /\ Set(q, j) /\ UNCHANGED <<key, server>>
    BY <1>1, <1>16 DEF Job, Deadline
  <2> HIDE DEF j
  <2> QED
    BY <1>2, <1>4, <2>1, GoesOn DEF Checking, Registering
<1>17. CASE Throws(q)
  <2>1. job[q].pc \in Underway \ {"trigger"} /\ Answer(q, "failed")
    BY <1>17 DEF Throws
  <2>2. CASE UNCHANGED <<key, server>>
    BY <2>1, <2>2, IsAnswered DEF Answers, Underway
  <2>3. CASE /\ job[q].pc = "createKey" /\ UNCHANGED server
             /\ key' = [key EXCEPT ![q] = Normalize(job[q].paste)]
    BY <1>1, <2>1, <2>3, StoredThenFailed
  <2>4. CASE /\ job[q].pc = "create" /\ ~Exists(job[q].host) /\ UNCHANGED key
             /\ server' = [server EXCEPT ![job[q].host] = NewServer(q)]
    BY <1>3, <2>1, <2>4, CreatedThenFailed DEF Registering
  <2> QED
    BY <1>17, <2>2, <2>3, <2>4 DEF Throws
<1> QED
  BY <1>5, <1>6, <1>7, <1>8, <1>9, <1>10, <1>11, <1>12, <1>13, <1>14, <1>15, <1>16, <1>17 DEF Step

-----------------------------------------------------------------------------

LEMMA ServersInductive == ServersInv /\ [Next]_vars => ServersInv'
<1> SUFFICES ASSUME ServersInv, [Next]_vars PROVE ServersInv'
  OBVIOUS
<1>1. CASE UNCHANGED vars
  BY <1>1 DEF vars, ServersInv, RequestInv, StoresOnce, Registers, HoldsServer, HoldsKey,
              HostInUse, ServerInv, Exists, Visible
<1>2. ASSUME NEW h \in Hosts, CoolifyChecks(h) PROVE ServersInv'
  <2>1. server' \in [Hosts -> Server] /\ UNCHANGED <<key, job>>
    BY <1>2 DEF CoolifyChecks, ServersInv, Server
  <2>2. \A x \in Hosts : /\ server'[x].by = server[x].by /\ server'[x].key = server[x].key
                         /\ server'[x].owner = server[x].owner
    BY <1>2 DEF CoolifyChecks, ServersInv, Server
  <2>3. Onward
    BY <2>1, <2>2 DEF Onward
  <2>4. \A q \in Requests : RequestInv(q)'
    BY <2>1, <2>3, Bystander
  <2>5. \A x \in Hosts : ServerInv(x)'
    BY <2>2, <2>3, ServerStays
  <2> QED
    BY <2>1, <2>4, <2>5 DEF ServersInv
<1>3. ASSUME NEW q \in Requests,
             (\E i \in Inputs : Begin(q, i)) \/ Step(q) \/ Deadline(q) \/ Throws(q)
      PROVE ServersInv'
  BY <1>3, RequestStep
<1> QED
  BY <1>1, <1>2, <1>3 DEF Next

\* The invariant holds in every reachable state.
LEMMA Invariant == Spec => []ServersInv
<1> QED
  BY Initially, ServersInductive, PTL DEF Spec

\* Keys, servers and requests have the types the module gives them, every server has a key
\* that Coolify has, and a request checks a server that is there.
THEOREM TypeCorrect == Spec => []TypeOK
<1>1. ServersInv => TypeOK
  BY DEF ServersInv, TypeOK, ServerInv, RequestInv, HoldsServer, Checking
<1> QED
  BY <1>1, Invariant, PTL

\* A server is reached with the key that was pasted for it, however many registrations of
\* the same key or the same host run side by side, and whichever of them fail: the lookups
\* of CoolifyServersService.register and the duplicates Coolify refuses leave no way for a
\* server to be created with another's key.
THEOREM KeyAsAsked == Spec => []KeyIsAsAsked
<1>1. ServersInv => KeyIsAsAsked
  BY ServersAssumption DEF ServersInv, KeyIsAsAsked, ServerInv, Exists
<1> QED
  BY <1>1, Invariant, PTL

\* A tenant that is told the host is in use has no server there, and will have none.
THEOREM TakenMeansOthers == Spec => []TakenByOthers
<1>1. ServersInv => TakenByOthers
  BY DEF ServersInv, TakenByOthers, RequestInv, HostInUse
<1> QED
  BY <1>1, Invariant, PTL

-----------------------------------------------------------------------------
(***************************************************************************)
(* Reconcile.  Rewriting the upstreams, by induction over the expressions.  *)
(***************************************************************************)

\* The least-number principle, which stands for induction.
LEMMA Smallest ==
    ASSUME NEW T, T \subseteq Nat, T # {}
    PROVE  \E n \in T : \A m \in T : n <= m
<1> DEFINE R == OpToRel(<, Nat)
<1>1. IsWellFoundedOn(R, Nat)
  BY NatLessThanWellFounded
<1>2. \A m, n \in Nat : m < n => <<m, n>> \in R
  BY DEF OpToRel
<1> HIDE DEF R
<1>3. PICK n \in T : \A m \in T : <<m, n>> \notin R
  BY <1>1, WFMin
<1>4. ASSUME NEW m \in T PROVE n <= m
  <2>1. m \in Nat /\ n \in Nat /\ ~(m < n)
    BY <1>2, <1>3
  <2> QED
    BY <2>1
<1> QED
  BY <1>4

\* A port stays a port.
LEMMA SedType ==
    ASSUME NEW port \in Nat \ {0}, NEW p, NEW to \in Nat \ {0}
    PROVE  Sed(port, p, to) \in Nat \ {0}
<1>1. CASE Begins(p, port)
  <2> DEFINE m == CHOOSE i \in Magnitudes : port \div i = p
  <2>1. m \in Magnitudes
    BY <1>1 DEF Begins
  <2>2. Sed(port, p, to) = (to * m) + (port % m)
    BY <1>1 DEF Sed
  <2> HIDE DEF m
  <2>3. \A i \in Magnitudes : (to * i) + (port % i) \in Nat \ {0}
    BY DEF Magnitudes
  <2> QED
    BY <2>1, <2>2, <2>3
<1>2. CASE ~Begins(p, port)
  BY <1>2 DEF Sed
<1> QED
  BY <1>1, <1>2

\* What is left of a port after n expressions; there is such a function, so that
\* Rewritten computes it.
After(f, port, dead, last) ==
    f = [n \in 0..last |-> IF n = 0 THEN port ELSE Sed(f[n - 1], dead[n], AppPort)]

LEMMA AfterExists ==
    ASSUME NEW port, NEW dead, NEW last \in Nat
    PROVE  \E f : After(f, port, dead, last)
<1> DEFINE T == {n \in Nat : ~\E f : After(f, port, dead, n)}
<1> SUFFICES ASSUME T # {} PROVE FALSE
  OBVIOUS
<1>1. PICK n \in T : \A m \in T : n <= m
  BY Smallest
<1>2. After([m \in 0..0 |-> port], port, dead, 0)
  BY DEF After
<1>3. n # 0 /\ n - 1 \in Nat /\ n - 1 \notin T
  BY <1>1, <1>2
<1>4. PICK f : After(f, port, dead, n - 1)
  BY <1>3
<1> DEFINE g == [m \in 0..n |-> IF m = n THEN Sed(f[n - 1], dead[n], AppPort) ELSE f[m]]
<1>5. \A m \in 0..n : g[m] = IF m = 0 THEN port ELSE Sed(g[m - 1], dead[m], AppPort)
  <2> SUFFICES ASSUME NEW m \in 0..n
               PROVE  g[m] = IF m = 0 THEN port ELSE Sed(g[m - 1], dead[m], AppPort)
    OBVIOUS
  <2>1. CASE m = n
    BY <2>1, <1>3
  <2>2. CASE m # n
    <3>1. m \in 0..(n - 1) /\ g[m] = f[m]
      BY <2>2, <1>3
    <3>2. f[m] = IF m = 0 THEN port ELSE Sed(f[m - 1], dead[m], AppPort)
      BY <3>1, <1>4 DEF After
    <3>3. m # 0 => g[m - 1] = f[m - 1]
      BY <3>1, <1>3
    <3> QED
      BY <3>1, <3>2, <3>3
  <2> QED
    BY <2>1, <2>2
<1>6. After(g, port, dead, n)
  BY <1>5 DEF After
<1> QED
  BY <1>1, <1>6

LEMMA RewrittenAfter ==
    ASSUME NEW port, NEW dead \in Seq(Nat)
    PROVE  \E f : After(f, port, dead, Len(dead)) /\ Rewritten(port, dead) = f[Len(dead)]
<1> DEFINE after == CHOOSE f : f = [n \in 0..Len(dead) |->
                        IF n = 0 THEN port ELSE Sed(f[n - 1], dead[n], AppPort)]
<1>1. \E f : f = [n \in 0..Len(dead) |-> IF n = 0 THEN port ELSE Sed(f[n - 1], dead[n], AppPort)]
  <2>1. Len(dead) \in Nat
    OBVIOUS
  <2>2. \E f : After(f, port, dead, Len(dead))
    BY <2>1, AfterExists
  <2> QED
    BY <2>2 DEF After
<1>2. after = [n \in 0..Len(dead) |-> IF n = 0 THEN port ELSE Sed(after[n - 1], dead[n], AppPort)]
  BY <1>1
<1>3. Rewritten(port, dead) = after[Len(dead)]
  BY DEF Rewritten
<1> QED
  BY <1>2, <1>3 DEF After

\* A port stays a port under all expressions, and one that begins with no dead port is
\* left alone.
LEMMA Rewrites ==
    ASSUME NEW port \in Nat \ {0}, NEW dead \in Seq(Nat)
    PROVE  /\ Rewritten(port, dead) \in Nat \ {0}
           /\ (\A i \in 1..Len(dead) : ~Begins(dead[i], port)) => Rewritten(port, dead) = port
<1>1. PICK f : After(f, port, dead, Len(dead)) /\ Rewritten(port, dead) = f[Len(dead)]
  BY RewrittenAfter
<1>2. \A n \in 0..Len(dead) : f[n] = IF n = 0 THEN port ELSE Sed(f[n - 1], dead[n], AppPort)
  BY <1>1 DEF After
<1> DEFINE Kept == \A i \in 1..Len(dead) : ~Begins(dead[i], port)
           T == {n \in 0..Len(dead) : f[n] \notin Nat \ {0} \/ (Kept /\ f[n] # port)}
<1>3. T = {}
  <2> SUFFICES ASSUME T # {} PROVE FALSE
    OBVIOUS
  <2>1. PICK n \in T : \A m \in T : n <= m
    <3>1. T \subseteq Nat
      OBVIOUS
    <3> HIDE DEF T
    <3> QED
      BY <3>1, Smallest
  <2>2. n # 0
    BY <1>2, <2>1
  <2>3. n - 1 \in 0..Len(dead) /\ n - 1 \notin T /\ n \in 1..Len(dead)
    BY <2>1, <2>2
  <2>4. f[n] = Sed(f[n - 1], dead[n], AppPort) /\ f[n - 1] \in Nat \ {0} /\ (Kept => f[n - 1] = port)
    BY <1>2, <2>1, <2>2, <2>3
  <2>5. f[n] \in Nat \ {0}
    BY <2>4, SedType, ReconcileAssumption
  <2>6. Kept => f[n] = port
    BY <2>3, <2>4 DEF Sed
  <2> QED
    BY <2>1, <2>5, <2>6
<1>4. Len(dead) \in 0..Len(dead)
  OBVIOUS
<1> QED
  BY <1>1, <1>3, <1>4

-----------------------------------------------------------------------------
(***************************************************************************)
(* Ticks, reports and dead ports, against the host as it is now.           *)
(***************************************************************************)

\* What a card or a request says may be removed is not Coolify's, unless it has changed
\* since the host was read; a report that failed lists nothing.
Knows(k, boxes) ==
    /\ \A n \in Listed(k.report) \cup k.plan.stop : boxes[n] = "managed" => n \in k.changed
    /\ ~k.report.ok => Listed(k.report) = {}

CardGood(k, boxes) ==
    /\ k \in Card /\ Knows(k, boxes)
    /\ ~k.report.ok => k.plan.stop = {}

\* A port that a request is about to rewrite is dead, or the request has not heard of its owner.
WorkGood(k, boxes) ==
    /\ k \in Work /\ Knows(k, boxes)
    /\ IsFiniteSet(k.dead)
    /\ k.at = "sed" => \A p \in k.dead :
                          p \in Listening(boxes) => \E n \in k.unheard : PortOf[n] = p

ReconcileInv ==
    /\ ReconcileTypeOK
    /\ \A c \in Cards : CardGood(card[c], box)
    /\ \A j \in Jobs : WorkGood(work[j], box)

-----------------------------------------------------------------------------
(***************************************************************************)
(* The values that are stored.                                             *)
(***************************************************************************)

LEMMA BlankTypes == Blank \in Report /\ Listed(Blank) = {} /\ ~Blank.ok
  BY DEF Blank, Report, Listed, Door

LEMMA NoPlanTypes == NoPlan \in Plan /\ NoPlan.stop = {}
  BY DEF NoPlan, Plan

LEMMA FreshGood == ASSUME NEW boxes PROVE CardGood(Fresh, boxes)
<1>1. /\ Fresh.report = Blank /\ Fresh.plan = NoPlan /\ Fresh \in Card
  BY BlankTypes, NoPlanTypes DEF Fresh, Card
<1> QED
  BY <1>1, BlankTypes, NoPlanTypes DEF CardGood, Knows

LEMMA NoWorkTypes ==
    /\ NoWork \in Work /\ NoWork.report = Blank /\ NoWork.plan = NoPlan /\ NoWork.at = "idle"
    /\ NoWork.dead = {} /\ NoWork.unheard = {} /\ IsFiniteSet(NoWork.dead)
  BY BlankTypes, NoPlanTypes, FS_EmptySet DEF NoWork, Work

LEMMA NoWorkGood == ASSUME NEW boxes PROVE WorkGood(NoWork, boxes)
  BY NoWorkTypes, BlankTypes, NoPlanTypes DEF WorkGood, Knows

LEMMA ScanRequestGood == ASSUME NEW boxes PROVE WorkGood(ScanRequest, boxes)
<1>1. ScanRequest \in Work /\ ScanRequest.report = Blank /\ ScanRequest.plan = NoPlan /\ ScanRequest.at = "docker"
      /\ ScanRequest.dead = NoWork.dead
  BY NoWorkTypes DEF ScanRequest, Work
<1> QED
  BY <1>1, NoWorkTypes, BlankTypes, NoPlanTypes DEF WorkGood, Knows

\* An answer carries a report that is good for those that changed.
LEMMA AnswerGood ==
    ASSUME NEW boxes, NEW j \in Jobs, work[j] \in Work, NEW as \in {"answered", "over"},
           NEW report \in Report,
           ~report.ok => Listed(report) = {},
           NEW changed \in SUBSET Names,
           \A n \in Listed(report) : boxes[n] = "managed" => n \in changed
    PROVE  /\ Answered(j, as, report) \in Work
           /\ WorkGood([Answered(j, as, report) EXCEPT !.changed = changed], boxes)
           /\ changed = work[j].changed => WorkGood(Answered(j, as, report), boxes)
<1> DEFINE told == [NoWork EXCEPT !.at = as, !.report = report, !.changed = work[j].changed]
<1>1. told \in Work /\ told.report = report /\ told.plan = NoPlan /\ told.at = as
      /\ told.changed = work[j].changed /\ told.dead = {}
  BY NoWorkTypes DEF Work
<1>2. Answered(j, as, report) = told \/ Answered(j, as, report) = NoWork
  BY DEF Answered
<1> HIDE DEF told
<1>3. ASSUME NEW k \in {told, NoWork} PROVE WorkGood([k EXCEPT !.changed = changed], boxes)
  <2>1. /\ k \in Work /\ k.plan = NoPlan /\ k.at # "sed" /\ k.report \in {report, Blank}
        /\ k.dead = {}
    BY <1>1, NoWorkTypes
  <2>2. /\ [k EXCEPT !.changed = changed] \in Work
        /\ [k EXCEPT !.changed = changed].report = k.report
        /\ [k EXCEPT !.changed = changed].plan = NoPlan
        /\ [k EXCEPT !.changed = changed].at # "sed"
        /\ [k EXCEPT !.changed = changed].changed = changed
        /\ [k EXCEPT !.changed = changed].dead = {}
    BY <2>1 DEF Work
  <2> QED
    BY <2>1, <2>2, BlankTypes, NoPlanTypes, FS_EmptySet DEF WorkGood, Knows
<1>4. changed = work[j].changed => WorkGood(told, boxes)
  BY <1>1, NoPlanTypes, FS_EmptySet DEF WorkGood, Knows
<1> QED
  BY <1>1, <1>2, <1>3, <1>4, NoWorkTypes, NoWorkGood

\* What is good stays so when containers of the host go away.
LEMMA Removed ==
    ASSUME NEW k, NEW boxes, NEW fewer, NEW n \in Names, boxes \in [Names -> Container],
           fewer = [boxes EXCEPT ![n] = "absent"]
    PROVE  /\ CardGood(k, boxes) => CardGood(k, fewer)
           /\ WorkGood(k, boxes) => WorkGood(k, fewer)
<1>1. \A m \in Names : fewer[m] = boxes[m] \/ fewer[m] = "absent"
  OBVIOUS
<1>2. Listening(fewer) \subseteq Listening(boxes)
  BY <1>1 DEF Listening
<1>3. k \in Card \/ k \in Work => Listed(k.report) \cup k.plan.stop \subseteq Names
  BY DEF Card, Work, Listed, Report, Plan
<1>4. (k \in Card \/ k \in Work) /\ Knows(k, boxes) => Knows(k, fewer)
  BY <1>1, <1>3 DEF Knows
<1> QED
  BY <1>2, <1>4 DEF CardGood, WorkGood

-----------------------------------------------------------------------------
(***************************************************************************)
(* Steps of one card, of one request, and of both.                         *)
(***************************************************************************)

LEMMA CardsMove ==
    ASSUME ReconcileInv, NEW c \in Cards, NEW k, CardGood(k, box), Shows(c, k),
           k.job # None <=> k.at \in {"scanning", "reconciling"}
    PROVE  /\ card' \in [Cards -> Card]
           /\ \A d \in Cards : /\ CardGood(card'[d], box)
                               /\ card'[d].job # None <=> card'[d].at \in {"scanning", "reconciling"}
<1>1. card \in [Cards -> Card] /\ k \in Card
  BY DEF ReconcileInv, ReconcileTypeOK, CardGood
<1>2. card' = [card EXCEPT ![c] = k]
  BY DEF Shows
<1>3. card' \in [Cards -> Card] /\ card'[c] = k /\ \A d \in Cards \ {c} : card'[d] = card[d]
  BY <1>1, <1>2
<1> QED
  BY <1>3 DEF ReconcileInv, ReconcileTypeOK

LEMMA WorkMoves ==
    ASSUME ReconcileInv, NEW j \in Jobs, NEW k, WorkGood(k, box), work' = [work EXCEPT ![j] = k]
    PROVE  work' \in [Jobs -> Work] /\ \A i \in Jobs : WorkGood(work'[i], box)
<1>1. work \in [Jobs -> Work] /\ k \in Work
  BY DEF ReconcileInv, ReconcileTypeOK, WorkGood
<1>2. work' \in [Jobs -> Work] /\ work'[j] = k /\ \A i \in Jobs \ {j} : work'[i] = work[i]
  BY <1>1
<1> QED
  BY <1>2 DEF ReconcileInv

LEMMA Closes ==
    ASSUME ReconcileInv, NEW c \in Cards
    PROVE  Closed(c) \in [Jobs -> Work] /\ \A i \in Jobs : WorkGood(Closed(c)[i], box)
<1>1. \A i \in Jobs : Closed(c)[i] = NoWork \/ Closed(c)[i] = work[i]
  BY DEF Closed
<1>2. \A i \in Jobs : WorkGood(Closed(c)[i], box)
  BY <1>1, NoWorkGood DEF ReconcileInv
<1>3. Closed(c) = [i \in Jobs |-> Closed(c)[i]]
  BY DEF Closed
<1> QED
  BY <1>2, <1>3 DEF WorkGood

\* When the host's containers stay, good cards and good requests are all there is to it.
LEMMA Settles ==
    ASSUME ReconcileInv, UNCHANGED <<box, front>>, proxy' \in {"own", "none"},
           route' \in [Locations -> Nat \ {0}], serving' \in [Locations -> Nat \ {0}],
           clicks' \in 0..MaxClicks, changes' = changes,
           card' \in [Cards -> Card], work' \in [Jobs -> Work],
           \A c \in Cards : /\ CardGood(card'[c], box)
                            /\ card'[c].job # None <=> card'[c].at \in {"scanning", "reconciling"},
           \A j \in Jobs : WorkGood(work'[j], box)
    PROVE  ReconcileInv'
<1>1. ReconcileTypeOK'
  BY DEF ReconcileInv, ReconcileTypeOK
<1>2. box' = box
  OBVIOUS
<1> QED
  BY <1>1, <1>2 DEF ReconcileInv

-----------------------------------------------------------------------------
(***************************************************************************)
(* The card.                                                               *)
(***************************************************************************)

\* What a card asks for is good, and so is the card that waits for it.
LEMMA AsksKeeps ==
    ASSUME ReconcileInv, NEW c \in Cards, NEW j \in Jobs, NEW k, NEW request,
           CardGood(k, box), k.at \in {"scanning", "reconciling"}, WorkGood(request, box),
           Asks(c, k, j, request), clicks' \in 0..MaxClicks
    PROVE  ReconcileInv'
<1> DEFINE waits == [k EXCEPT !.job = j]
<1>1. k \in Card
  BY DEF CardGood
<1>2. /\ waits \in Card /\ waits.job = j /\ waits.at = k.at /\ waits.report = k.report
      /\ waits.plan = k.plan /\ waits.changed = k.changed
  BY <1>1 DEF Card
<1>3. CardGood(waits, box)
  BY <1>2 DEF CardGood, Knows
<1>4. j # None
  BY ReconcileAssumption
<1>5. Shows(c, waits) /\ work' = [work EXCEPT ![j] = request] /\ UNCHANGED host
  BY DEF Asks
<1> HIDE DEF waits
<1>6. /\ card' \in [Cards -> Card]
      /\ \A d \in Cards : /\ CardGood(card'[d], box)
                          /\ card'[d].job # None <=> card'[d].at \in {"scanning", "reconciling"}
  BY <1>2, <1>3, <1>4, <1>5, CardsMove
<1>7. work' \in [Jobs -> Work] /\ \A i \in Jobs : WorkGood(work'[i], box)
  BY <1>5, WorkMoves
<1> QED
  BY <1>5, <1>6, <1>7, Settles DEF host, ReconcileInv, ReconcileTypeOK

LEMMA ClicksTypes == ASSUME ReconcileInv, Clicks PROVE clicks' \in 0..MaxClicks
  BY ReconcileAssumption DEF Clicks, ReconcileInv, ReconcileTypeOK

LEMMA ScanKeeps ==
    ASSUME ReconcileInv, NEW c \in Cards, NEW j \in Jobs, Mount(c, j) \/ Scan(c, j)
    PROVE  ReconcileInv'
<1> DEFINE k == [card[c] EXCEPT !.at = "scanning"]
<1>1. card[c] \in Card /\ CardGood(card[c], box)
  BY DEF ReconcileInv, ReconcileTypeOK
<1>2. k \in Card /\ k.at = "scanning" /\ k.report = card[c].report /\ k.plan = card[c].plan
      /\ k.changed = card[c].changed
  BY <1>1 DEF Card
<1>3. CardGood(k, box)
  BY <1>1, <1>2 DEF CardGood, Knows
<1>4. Asks(c, k, j, ScanRequest)
  BY DEF Mount, Scan
<1>5. clicks' \in 0..MaxClicks
  BY ClicksTypes DEF Mount, Scan, ReconcileInv, ReconcileTypeOK
<1> HIDE DEF k
<1> QED
  BY <1>2, <1>3, <1>4, <1>5, ScanRequestGood, AsksKeeps

LEMMA ReconcileKeeps ==
    ASSUME ReconcileInv, NEW c \in Cards, NEW j \in Jobs, Reconcile(c, j)
    PROVE  ReconcileInv'
<1> DEFINE k == [card[c] EXCEPT !.at = "reconciling"]
           request == [NoWork EXCEPT !.at = "proxy", !.plan = card[c].plan, !.changed = card[c].changed]
<1>1. card[c] \in Card /\ CardGood(card[c], box)
  BY DEF ReconcileInv, ReconcileTypeOK
<1>2. k \in Card /\ k.at = "reconciling" /\ k.report = card[c].report /\ k.plan = card[c].plan
      /\ k.changed = card[c].changed
  BY <1>1 DEF Card
<1>3. CardGood(k, box)
  BY <1>1, <1>2 DEF CardGood, Knows
<1>4. /\ request \in Work /\ request.at = "proxy" /\ request.plan = card[c].plan
      /\ request.report = Blank /\ request.changed = card[c].changed /\ request.dead = {}
  BY <1>1, NoWorkTypes DEF Work, Card
<1>5. WorkGood(request, box)
  BY <1>1, <1>4, BlankTypes, FS_EmptySet DEF WorkGood, CardGood, Knows
<1>6. Asks(c, k, j, request) /\ Clicks
  BY DEF Reconcile
<1> HIDE DEF k, request
<1> QED
  BY <1>2, <1>3, <1>5, <1>6, ClicksTypes, AsksKeeps

LEMMA TickKeeps ==
    ASSUME ReconcileInv, NEW c \in Cards, Tick(c)
    PROVE  ReconcileInv'
<1>1. card[c] \in Card /\ CardGood(card[c], box)
  BY DEF ReconcileInv, ReconcileTypeOK
<1>2. card[c].report.ok /\ Clicks /\ UNCHANGED <<work, host>>
  BY DEF Tick
<1>3. PICK p \in Plan : /\ Shows(c, [card[c] EXCEPT !.plan = p])
                        /\ p.stop \subseteq card[c].plan.stop \cup Listed(card[c].report)
  <2>1. CASE \E n \in Listed(card[c].report) :
               Shows(c, [card[c] EXCEPT !.plan.stop = IF n \in @ THEN @ \ {n} ELSE @ \cup {n}])
    <3>1. PICK n \in Listed(card[c].report) :
               Shows(c, [card[c] EXCEPT !.plan.stop = IF n \in @ THEN @ \ {n} ELSE @ \cup {n}])
      BY <2>1
    <3> DEFINE stop == IF n \in card[c].plan.stop THEN card[c].plan.stop \ {n} ELSE card[c].plan.stop \cup {n}
               p == [card[c].plan EXCEPT !.stop = stop]
    <3>2. n \in Names
      BY <1>1 DEF Card, Report, Listed
    <3>3. stop \in SUBSET Names
      BY <1>1, <3>2 DEF Card, Plan
    <3>4. p \in Plan /\ p.stop = stop
      BY <1>1, <3>3 DEF Card, Plan
    <3>5. [card[c] EXCEPT !.plan.stop = IF n \in @ THEN @ \ {n} ELSE @ \cup {n}] = [card[c] EXCEPT !.plan = p]
      BY <1>1 DEF Card, Plan
    <3>6. Shows(c, [card[c] EXCEPT !.plan = p])
      BY <3>1, <3>5
    <3>7. p.stop \subseteq card[c].plan.stop \cup Listed(card[c].report)
      BY <3>4
    <3> HIDE DEF p
    <3> QED
      BY <3>4, <3>6, <3>7
  <2>2. CASE Shows(c, [card[c] EXCEPT !.plan.proxyNone = ~@])
    <3> DEFINE p == [card[c].plan EXCEPT !.proxyNone = ~card[c].plan.proxyNone]
    <3>1. p \in Plan /\ p.stop = card[c].plan.stop
      BY <1>1 DEF Card, Plan
    <3>2. [card[c] EXCEPT !.plan.proxyNone = ~@] = [card[c] EXCEPT !.plan = p]
      BY <1>1 DEF Card, Plan
    <3> QED
      BY <2>2, <3>1, <3>2
  <2>3. CASE Shows(c, [card[c] EXCEPT !.plan.retarget = ~@])
    <3> DEFINE p == [card[c].plan EXCEPT !.retarget = ~card[c].plan.retarget]
    <3>1. p \in Plan /\ p.stop = card[c].plan.stop
      BY <1>1 DEF Card, Plan
    <3>2. [card[c] EXCEPT !.plan.retarget = ~@] = [card[c] EXCEPT !.plan = p]
      BY <1>1 DEF Card, Plan
    <3> QED
      BY <2>3, <3>1, <3>2
  <2> QED
    BY <2>1, <2>2, <2>3 DEF Tick
<1> DEFINE k == [card[c] EXCEPT !.plan = p]
<1>4. /\ k \in Card /\ k.plan = p /\ k.report = card[c].report /\ k.changed = card[c].changed
      /\ k.at = card[c].at /\ k.job = card[c].job
  BY <1>1 DEF Card
<1>5. CardGood(k, box)
  BY <1>1, <1>2, <1>3, <1>4 DEF CardGood, Knows
<1>6. k.job # None <=> k.at \in {"scanning", "reconciling"}
  BY <1>4 DEF ReconcileInv, ReconcileTypeOK
<1>7. Shows(c, k)
  BY <1>3
<1> HIDE DEF k
<1>8. /\ card' \in [Cards -> Card]
      /\ \A d \in Cards : /\ CardGood(card'[d], box)
                          /\ card'[d].job # None <=> card'[d].at \in {"scanning", "reconciling"}
  BY <1>5, <1>6, <1>7, CardsMove
<1> QED
  BY <1>2, <1>8, ClicksTypes, Settles DEF host, ReconcileInv, ReconcileTypeOK

\* A card that no longer waits: of a scan that came through, of anything that failed, and
\* of one that is mounted again.
LEMMA ClosedKeeps ==
    ASSUME ReconcileInv, NEW c \in Cards, NEW k, CardGood(k, box), Shows(c, k),
           k.job = None, k.at \in {"shown", "ready"}, work' = Closed(c),
           UNCHANGED host, clicks' \in 0..MaxClicks
    PROVE  ReconcileInv'
<1>1. /\ card' \in [Cards -> Card]
      /\ \A d \in Cards : /\ CardGood(card'[d], box)
                          /\ card'[d].job # None <=> card'[d].at \in {"scanning", "reconciling"}
  BY CardsMove
<1>2. work' \in [Jobs -> Work] /\ \A i \in Jobs : WorkGood(work'[i], box)
  BY Closes
<1> QED
  BY <1>1, <1>2, Settles DEF host, ReconcileInv, ReconcileTypeOK

LEMMA ScannedKeeps ==
    ASSUME ReconcileInv, NEW c \in Cards, Scanned(c)
    PROVE  ReconcileInv'
<1> DEFINE j == card[c].job
           report == work[j].report
           ticks == [stop |-> report.suggested, proxyNone |-> report.front # "none",
                     retarget |-> report.dead]
           k == [card[c] EXCEPT !.at = "ready", !.job = None, !.report = report,
                   !.plan = ticks, !.changed = work[j].changed]
<1>1. card[c] \in Card /\ j \in Jobs /\ work[j] \in Work /\ WorkGood(work[j], box)
  BY DEF Scanned, ReconcileInv, ReconcileTypeOK, Card
<1>2. report \in Report /\ work[j].changed \in SUBSET Names
  BY <1>1 DEF Work
<1>3. ticks \in Plan /\ ticks.stop = report.suggested
  BY <1>2 DEF Plan, Report
<1> HIDE DEF report, ticks
<1>4. /\ k \in Card /\ k.at = "ready" /\ k.job = None /\ k.report = report /\ k.plan = ticks
      /\ k.changed = work[j].changed
  BY <1>1, <1>2, <1>3 DEF Card
<1>5. CardGood(k, box)
  BY <1>1, <1>3, <1>4 DEF CardGood, WorkGood, Knows, Listed, report
<1>6. Shows(c, k) /\ work' = Closed(c) /\ UNCHANGED world
  BY DEF Scanned, report, ticks
<1> HIDE DEF k
<1> QED
  BY <1>4, <1>5, <1>6, ClosedKeeps DEF world, host, ReconcileInv, ReconcileTypeOK

LEMMA FailsKeeps ==
    ASSUME ReconcileInv, NEW c \in Cards, Fails(c)
    PROVE  ReconcileInv'
<1> DEFINE k == [card[c] EXCEPT !.at = "ready", !.job = None]
<1>1. card[c] \in Card /\ CardGood(card[c], box)
  BY DEF ReconcileInv, ReconcileTypeOK
<1>2. /\ k \in Card /\ k.at = "ready" /\ k.job = None /\ k.report = card[c].report
      /\ k.plan = card[c].plan /\ k.changed = card[c].changed
  BY <1>1 DEF Card
<1>3. CardGood(k, box)
  BY <1>1, <1>2 DEF CardGood, Knows
<1>4. Shows(c, k) /\ work' = Closed(c) /\ UNCHANGED world
  BY DEF Fails
<1> HIDE DEF k
<1> QED
  BY <1>2, <1>3, <1>4, ClosedKeeps DEF world, host, ReconcileInv, ReconcileTypeOK

LEMMA LeaveKeeps ==
    ASSUME ReconcileInv, NEW c \in Cards, Leave(c)
    PROVE  ReconcileInv'
<1>1. Fresh.job = None /\ Fresh.at = "shown"
  BY DEF Fresh
<1>2. Shows(c, Fresh) /\ work' = Closed(c) /\ Clicks /\ UNCHANGED host
  BY DEF Leave
<1> QED
  BY <1>1, <1>2, FreshGood, ClicksTypes, ClosedKeeps

LEMMA ReconciledKeeps ==
    ASSUME ReconcileInv, NEW c \in Cards, Reconciled(c)
    PROVE  ReconcileInv'
<1> DEFINE k == [card[c] EXCEPT !.at = "scanning"]
<1>1. card[c] \in Card /\ CardGood(card[c], box) /\ card[c].job # None /\ card[c].job \in Jobs
  BY DEF ReconcileInv, ReconcileTypeOK, Card, Reconciled
<1>2. /\ k \in Card /\ k.at = "scanning" /\ k.job = card[c].job /\ k.report = card[c].report
      /\ k.plan = card[c].plan /\ k.changed = card[c].changed
  BY <1>1 DEF Card
<1>3. CardGood(k, box)
  BY <1>1, <1>2 DEF CardGood, Knows
<1>4. Shows(c, k) /\ work' = [work EXCEPT ![card[c].job] = ScanRequest] /\ UNCHANGED world
  BY DEF Reconciled
<1> HIDE DEF k
<1>5. /\ card' \in [Cards -> Card]
      /\ \A d \in Cards : /\ CardGood(card'[d], box)
                          /\ card'[d].job # None <=> card'[d].at \in {"scanning", "reconciling"}
  BY <1>1, <1>2, <1>3, <1>4, CardsMove
<1>6. work' \in [Jobs -> Work] /\ \A i \in Jobs : WorkGood(work'[i], box)
  BY <1>1, <1>4, ScanRequestGood, WorkMoves
<1> QED
  BY <1>4, <1>5, <1>6, Settles DEF world, ReconcileInv, ReconcileTypeOK

-----------------------------------------------------------------------------
(***************************************************************************)
(* The API.                                                                *)
(***************************************************************************)

LEMMA GoesKeeps ==
    ASSUME ReconcileInv, NEW j \in Jobs, NEW k, WorkGood(k, box), Goes(j, k),
           UNCHANGED <<card, box, front, clicks, changes>>, proxy' \in {"own", "none"},
           route' \in [Locations -> Nat \ {0}], serving' \in [Locations -> Nat \ {0}]
    PROVE  ReconcileInv'
<1>1. work' \in [Jobs -> Work] /\ \A i \in Jobs : WorkGood(work'[i], box)
  BY WorkMoves DEF Goes
<1>2. /\ card' \in [Cards -> Card]
      /\ \A d \in Cards : /\ CardGood(card'[d], box)
                          /\ card'[d].job # None <=> card'[d].at \in {"scanning", "reconciling"}
  BY DEF ReconcileInv, ReconcileTypeOK
<1>3. clicks' \in 0..MaxClicks
  BY DEF ReconcileInv, ReconcileTypeOK
<1> QED
  BY <1>1, <1>2, <1>3, Settles

LEMMA EndsKeeps ==
    ASSUME ReconcileInv, NEW j \in Jobs, Ends(j)
    PROVE  ReconcileInv'
<1>1. work[j] \in Work /\ work[j].changed \in SUBSET Names
  BY DEF ReconcileInv, ReconcileTypeOK, Work
<1>2. WorkGood(Answered(j, "over", Blank), box)
  BY <1>1, BlankTypes, AnswerGood
<1> QED
  BY <1>2, GoesKeeps DEF Ends, world, ReconcileInv, ReconcileTypeOK

LEMMA SetProxyNoneKeeps ==
    ASSUME ReconcileInv, NEW j \in Jobs, SetProxyNone(j)
    PROVE  ReconcileInv'
<1>1. work[j] \in Work /\ WorkGood(work[j], box)
  BY DEF ReconcileInv, ReconcileTypeOK
<1>2. ASSUME NEW at \in {"docker", "remove"}, NEW done \in BOOLEAN
      PROVE  WorkGood([work[j] EXCEPT !.at = at, !.done = done], box)
  <2> DEFINE k == [work[j] EXCEPT !.at = at, !.done = done]
  <2>1. /\ k \in Work /\ k.at = at /\ k.report = work[j].report /\ k.plan = work[j].plan
        /\ k.changed = work[j].changed /\ k.dead = work[j].dead
    BY <1>1 DEF Work
  <2> QED
    BY <1>1, <2>1 DEF WorkGood, Knows
<1>3. PICK at \in {"docker", "remove"}, done \in BOOLEAN :
         Goes(j, [work[j] EXCEPT !.at = at, !.done = done])
  <2>1. [work[j] EXCEPT !.at = "docker"] = [work[j] EXCEPT !.at = "docker", !.done = work[j].done]
    BY <1>1 DEF Work
  <2>2. [work[j] EXCEPT !.at = "remove"] = [work[j] EXCEPT !.at = "remove", !.done = work[j].done]
    BY <1>1 DEF Work
  <2>3. work[j].done \in BOOLEAN
    BY <1>1 DEF Work
  <2> DEFINE next == IF work[j].plan.retarget THEN "docker" ELSE "remove"
  <2>4. next \in {"docker", "remove"}
    OBVIOUS
  <2>5. CASE Goes(j, [work[j] EXCEPT !.at = next, !.done = TRUE])
    BY <2>4, <2>5
  <2>6. CASE Goes(j, [work[j] EXCEPT !.at = next])
    BY <2>1, <2>2, <2>3, <2>6
  <2> QED
    BY <2>5, <2>6 DEF SetProxyNone
<1>4. WorkGood([work[j] EXCEPT !.at = at, !.done = done], box)
  BY <1>2
<1>5. proxy' \in {"own", "none"} /\ UNCHANGED <<card, box, front, clicks, changes, route, serving>>
  BY DEF SetProxyNone, ReconcileInv, ReconcileTypeOK
<1> QED
  BY <1>3, <1>4, <1>5, GoesKeeps DEF ReconcileInv, ReconcileTypeOK

\* The end of a scan, whose report is good for the containers that have changed since, and
\* whose dead ports are dead but for what it has not heard of.
LEMMA ScanEnded ==
    ASSUME ReconcileInv, NEW j \in Jobs, NEW report \in Report,
           ~report.ok => Listed(report) = {},
           NEW changed \in SUBSET Names,
           \A n \in Listed(report) : box[n] = "managed" => n \in changed,
           Reconciling(j) => changed = work[j].changed,
           NEW dead, dead \subseteq Nat, IsFiniteSet(dead),
           NEW unheard \in SUBSET Names,
           \A p \in dead : Reconciling(j) /\ p \in Listening(box) => \E n \in unheard : PortOf[n] = p
    PROVE  /\ ScanEnds(j, report, dead) \in Work
           /\ \/ WorkGood([ScanEnds(j, report, dead) EXCEPT !.changed = changed], box)
              \/ [ScanEnds(j, report, dead) EXCEPT !.changed = changed].at = "sed"
           /\ WorkGood([[ScanEnds(j, report, dead) EXCEPT !.changed = changed]
                           EXCEPT !.unheard = unheard], box)
<1> DEFINE k == [ScanEnds(j, report, dead) EXCEPT !.changed = changed]
           next == IF dead = {} THEN "remove" ELSE "sed"
           goes == [work[j] EXCEPT !.at = next, !.report = Blank, !.dead = dead]
           told == [report EXCEPT !.dead = dead # {}]
<1>1. work[j] \in Work /\ WorkGood(work[j], box)
  BY DEF ReconcileInv, ReconcileTypeOK
<1>2. CASE Reconciling(j)
  <2>1. ScanEnds(j, report, dead) = goes /\ next \in {"remove", "sed"}
    BY <1>2 DEF ScanEnds
  <2> HIDE DEF next
  <2>2. /\ goes \in Work /\ goes.at = next /\ goes.report = Blank /\ goes.plan = work[j].plan
        /\ goes.changed = work[j].changed /\ goes.dead = dead
    BY <1>1, <2>1, BlankTypes DEF Work
  <2>3. /\ k \in Work /\ k.at = next /\ k.report = Blank /\ k.plan = work[j].plan
        /\ k.changed = work[j].changed /\ k.dead = dead
    BY <1>2, <2>1, <2>2 DEF Work
  <2> HIDE DEF k
  <2>4. /\ [k EXCEPT !.unheard = unheard] \in Work /\ [k EXCEPT !.unheard = unheard].at = next
        /\ [k EXCEPT !.unheard = unheard].report = Blank
        /\ [k EXCEPT !.unheard = unheard].plan = work[j].plan
        /\ [k EXCEPT !.unheard = unheard].changed = work[j].changed
        /\ [k EXCEPT !.unheard = unheard].dead = dead
        /\ [k EXCEPT !.unheard = unheard].unheard = unheard
    BY <2>3 DEF Work
  <2>5. WorkGood(k, box) \/ k.at = "sed"
    BY <1>1, <2>1, <2>3, BlankTypes DEF WorkGood, Knows
  <2>6. WorkGood([k EXCEPT !.unheard = unheard], box)
    BY <1>1, <1>2, <2>4, BlankTypes DEF WorkGood, Knows
  <2>7. ScanEnds(j, report, dead) \in Work
    BY <2>1, <2>2
  <2> QED
    BY <2>5, <2>6, <2>7 DEF k
<1>3. CASE ~Reconciling(j)
  <2>1. ScanEnds(j, report, dead) = Answered(j, "answered", told)
    BY <1>3 DEF ScanEnds
  <2>2. told \in Report /\ Listed(told) = Listed(report) /\ told.ok = report.ok
    BY DEF Report, Listed
  <2>3. k.at # "sed"
    BY <2>1, NoWorkTypes DEF Answered, Work
  <2> HIDE DEF told
  <2>4. ScanEnds(j, report, dead) \in Work /\ WorkGood(k, box)
    <3>1. ~told.ok => Listed(told) = {}
      BY <2>2
    <3>2. \A n \in Listed(told) : box[n] = "managed" => n \in changed
      BY <2>2
    <3> QED
      BY <1>1, <2>1, <2>2, <3>1, <3>2, AnswerGood
  <2> HIDE DEF k
  <2>5. /\ [k EXCEPT !.unheard = unheard] \in Work /\ [k EXCEPT !.unheard = unheard].at = k.at
        /\ [k EXCEPT !.unheard = unheard].report = k.report
        /\ [k EXCEPT !.unheard = unheard].plan = k.plan
        /\ [k EXCEPT !.unheard = unheard].changed = k.changed
        /\ [k EXCEPT !.unheard = unheard].dead = k.dead
    BY <2>4 DEF Work, WorkGood
  <2>6. WorkGood([k EXCEPT !.unheard = unheard], box)
    BY <2>3, <2>4, <2>5 DEF WorkGood, Knows
  <2> QED
    BY <2>4, <2>6 DEF k
<1> QED
  BY <1>2, <1>3

LEMMA ScanHostKeeps ==
    ASSUME ReconcileInv, NEW j \in Jobs, ScanHost(j)
    PROVE  ReconcileInv'
<1>1. work[j] \in Work /\ WorkGood(work[j], box) /\ box \in [Names -> Container] /\ front \in Door
  BY DEF ReconcileInv, ReconcileTypeOK
<1>2. PICK boxes \in {box, [n \in Names |-> "absent"]}, owner \in {front, "none"}, ssh \in BOOLEAN :
         LET found  == IF ssh THEN Classify(boxes, owner) ELSE Blank
             report == IF Reconciling(j) THEN Blank ELSE found
             read   == IF Reconciling(j) THEN work[j].changed ELSE {}
         IN Goes(j, IF found.front = "nginx"
                    THEN [work[j] EXCEPT !.at = "nginx", !.report = report, !.changed = read]
                    ELSE [ScanEnds(j, report, {}) EXCEPT !.changed = read])
  BY DEF ScanHost
<1> DEFINE report == IF Reconciling(j) THEN Blank ELSE IF ssh THEN Classify(boxes, owner) ELSE Blank
           read   == IF Reconciling(j) THEN work[j].changed ELSE {}
           looks  == [work[j] EXCEPT !.at = "nginx", !.report = report, !.changed = read]
           ends   == [ScanEnds(j, report, {}) EXCEPT !.changed = read]
<1>3. /\ report \in Report /\ (~report.ok => Listed(report) = {})
      /\ \A n \in Listed(report) : box[n] # "managed"
  <2>1. CASE ssh
    <3>1. owner \in Door
      BY <1>1 DEF Door
    <3>2. /\ Classify(boxes, owner) \in Report
          /\ Classify(boxes, owner).ok
          /\ Listed(Classify(boxes, owner)) = {n \in Names : boxes[n] \in {"legacy", "quiet"}}
      BY <3>1 DEF Classify, Report, Listed
    <3> QED
      BY <2>1, <3>2, BlankTypes
  <2>2. CASE ~ssh
    BY <2>2, BlankTypes
  <2> QED
    BY <2>1, <2>2
<1>4. read \in SUBSET Names /\ (Reconciling(j) => read = work[j].changed)
  BY <1>1 DEF Work
<1>5. Goes(j, looks) \/ Goes(j, ends)
  BY <1>2
<1> HIDE DEF report, read
<1>6. {} \subseteq Nat /\ IsFiniteSet({}) /\ {} \in SUBSET Names
  BY FS_EmptySet
<1>7. WorkGood(looks, box)
  <2>1. /\ looks \in Work /\ looks.at = "nginx" /\ looks.report = report /\ looks.plan = work[j].plan
        /\ looks.changed = read /\ looks.dead = work[j].dead
    BY <1>1, <1>3, <1>4 DEF Work
  <2>2. read = work[j].changed \/ work[j].plan.stop = {}
    BY <1>4, NoPlanTypes DEF Reconciling
  <2> HIDE DEF looks
  <2> QED
    BY <1>1, <1>3, <1>4, <2>1, <2>2 DEF WorkGood, Knows
<1>8. WorkGood(ends, box)
  <2>1. ScanEnds(j, report, {}) \in Work /\ (WorkGood(ends, box) \/ ends.at = "sed")
    <3>1. \A n \in Listed(report) : box[n] = "managed" => n \in read
      BY <1>1, <1>3 DEF Listed, Report
    <3>2. \A p \in {} : Reconciling(j) /\ p \in Listening(box) => \E n \in {} : PortOf[n] = p
      OBVIOUS
    <3>3. /\ ScanEnds(j, report, {}) \in Work
          /\ WorkGood(ends, box) \/ ends.at = "sed"
          /\ WorkGood([ends EXCEPT !.unheard = {}], box)
      BY <1>3, <1>4, <1>6, <3>1, <3>2, ScanEnded
    <3> QED
      BY <3>3
  <2>2. CASE Reconciling(j)
    <3>1. ScanEnds(j, report, {}).at = "remove"
      BY <1>1, <1>3, <2>2 DEF ScanEnds, Work
    <3> QED
      BY <2>1, <3>1 DEF Work
  <2>3. CASE ~Reconciling(j)
    <3>1. ScanEnds(j, report, {}).at # "sed"
      BY <2>3, NoWorkTypes DEF ScanEnds, Answered, Work
    <3> QED
      BY <2>1, <3>1 DEF Work
  <2> QED
    BY <2>2, <2>3
<1>9. UNCHANGED <<card, world>>
  BY DEF ScanHost
<1> HIDE DEF looks, ends
<1> QED
  BY <1>5, <1>7, <1>8, <1>9, GoesKeeps DEF world, ReconcileInv, ReconcileTypeOK

LEMMA ScanNginxKeeps ==
    ASSUME ReconcileInv, NEW j \in Jobs, ScanNginx(j)
    PROVE  ReconcileInv'
<1>1. /\ work[j] \in Work /\ WorkGood(work[j], box) /\ route \in [Locations -> Nat \ {0}]
      /\ work[j].report \in Report /\ work[j].changed \in SUBSET Names
  BY DEF ReconcileInv, ReconcileTypeOK, Work
<1>2. PICK heard \in SUBSET Listening(box) : \E dead \in {DeadUpstreams(heard), {}} :
         LET missed == IF Reconciling(j) THEN dead \cap (Listening(box) \ heard) ELSE {} IN
         Goes(j, [ScanEnds(j, work[j].report, dead) EXCEPT !.unheard = Owners(missed)])
  BY DEF ScanNginx
<1>3. PICK dead \in {DeadUpstreams(heard), {}} :
         LET missed == IF Reconciling(j) THEN dead \cap (Listening(box) \ heard) ELSE {} IN
         Goes(j, [ScanEnds(j, work[j].report, dead) EXCEPT !.unheard = Owners(missed)])
  BY <1>2
<1> DEFINE missed == IF Reconciling(j) THEN dead \cap (Listening(box) \ heard) ELSE {}
           ended == ScanEnds(j, work[j].report, dead)
           unheard == Owners(missed)
<1>4. Goes(j, [ended EXCEPT !.unheard = unheard])
  BY <1>3
<1>5. /\ dead \subseteq Nat /\ IsFiniteSet(dead)
      /\ \A p \in dead : p \notin heard
  <2>1. IsFiniteSet({route[l] : l \in Locations})
    <3> DEFINE T == {route[l] : l \in Locations}
    <3>1. route \in Surjection(Locations, T)
      BY <1>1 DEF Surjection
    <3> QED
      BY <3>1, FS_Surjection, ReconcileAssumption
  <2>2. IsFiniteSet(DeadUpstreams(heard))
    BY <2>1, FS_Difference DEF DeadUpstreams
  <2> QED
    BY <1>1, <2>2, FS_EmptySet DEF DeadUpstreams
\* Whatever listens on a port taken for dead has not been heard of.
<1>6. /\ unheard \in SUBSET Names /\ (~Reconciling(j) => unheard = {})
      /\ \A p \in dead : Reconciling(j) /\ p \in Listening(box) => \E n \in unheard : PortOf[n] = p
  BY <1>5 DEF Owners, Listening
<1> HIDE DEF unheard, missed
<1>7. /\ ended \in Work
      /\ WorkGood([[ended EXCEPT !.changed = work[j].changed] EXCEPT !.unheard = unheard], box)
  <2>1. \A n \in Listed(work[j].report) : box[n] = "managed" => n \in work[j].changed
    BY <1>1 DEF WorkGood, Knows
  <2>2. ~work[j].report.ok => Listed(work[j].report) = {}
    BY <1>1 DEF WorkGood, Knows
  <2> QED
    BY <1>1, <1>5, <1>6, <2>1, <2>2, ScanEnded
<1> HIDE DEF ended
<1>8. CASE ended.changed = work[j].changed
  <2>1. [ended EXCEPT !.changed = work[j].changed] = ended
    BY <1>7, <1>8 DEF Work
  <2> QED
    BY <1>4, <1>7, <2>1, GoesKeeps DEF ScanNginx, world, ReconcileInv, ReconcileTypeOK
<1>9. CASE ended.changed # work[j].changed
  <2>1. ended = NoWork /\ ~Reconciling(j)
    BY <1>1, <1>9, NoWorkTypes DEF ended, ScanEnds, Answered, Work
  <2>2. [NoWork EXCEPT !.unheard = {}] = NoWork
    BY NoWorkTypes DEF Work
  <2>3. Goes(j, NoWork)
    BY <1>4, <1>6, <2>1, <2>2
  <2> QED
    BY <2>3, NoWorkGood, GoesKeeps DEF ScanNginx, world, ReconcileInv, ReconcileTypeOK
<1> QED
  BY <1>8, <1>9

\* An order of the dead ports is a sequence of them.
LEMMA Orders ==
    ASSUME NEW S, S \subseteq Nat, IsFiniteSet(S), NEW dead \in SetToSeqs(S)
    PROVE  dead \in Seq(Nat) /\ \A i \in 1..Len(dead) : dead[i] \in S
<1>1. Cardinality(S) \in Nat
  BY FS_CardinalityType
<1>2. dead \in [1..Cardinality(S) -> S]
  BY DEF SetToSeqs
<1>3. dead \in [1..Cardinality(S) -> Nat]
  BY <1>2
<1>4. dead \in Seq(Nat)
  BY <1>1, <1>3, SeqDef
<1>5. 1..Len(dead) = DOMAIN dead
  BY <1>4
<1> QED
  BY <1>2, <1>4, <1>5

LEMMA RetargetKeeps ==
    ASSUME ReconcileInv, NEW j \in Jobs, Retarget(j)
    PROVE  ReconcileInv'
<1>1. /\ work[j] \in Work /\ WorkGood(work[j], box)
      /\ route \in [Locations -> Nat \ {0}] /\ serving \in [Locations -> Nat \ {0}]
      /\ work[j].dead \subseteq Nat /\ work[j].done \in BOOLEAN
  BY DEF ReconcileInv, ReconcileTypeOK, Work, Report
<1>2. \E done \in BOOLEAN :
         Goes(j, [work[j] EXCEPT !.at = "remove", !.done = done, !.dead = {}, !.unheard = {}])
  <2>1. CASE Goes(j, [work[j] EXCEPT !.at = "remove", !.dead = {}, !.unheard = {}])
    <3>1. [work[j] EXCEPT !.at = "remove", !.dead = {}, !.unheard = {}]
            = [work[j] EXCEPT !.at = "remove", !.done = work[j].done, !.dead = {}, !.unheard = {}]
      BY <1>1 DEF Work
    <3> QED
      BY <1>1, <2>1, <3>1
  <2>2. ASSUME NEW reload \in SshOutcome,
               Goes(j, [work[j] EXCEPT !.at = "remove", !.done = @ \/ reload.said,
                                       !.dead = {}, !.unheard = {}])
        PROVE  \E done \in BOOLEAN :
                 Goes(j, [work[j] EXCEPT !.at = "remove", !.done = done, !.dead = {}, !.unheard = {}])
    <3>1. (work[j].done \/ reload.said) \in BOOLEAN
      OBVIOUS
    <3> QED
      BY <2>2, <3>1
  <2> QED
    BY <2>1, <2>2 DEF Retarget
<1>3. PICK done \in BOOLEAN :
         Goes(j, [work[j] EXCEPT !.at = "remove", !.done = done, !.dead = {}, !.unheard = {}])
  BY <1>2
<1> DEFINE k == [work[j] EXCEPT !.at = "remove", !.done = done, !.dead = {}, !.unheard = {}]
<1>4. /\ k \in Work /\ k.at = "remove" /\ k.report = work[j].report /\ k.plan = work[j].plan
      /\ k.changed = work[j].changed /\ k.dead = {}
  BY <1>1 DEF Work
<1>5. WorkGood(k, box)
  BY <1>1, <1>4, FS_EmptySet DEF WorkGood, Knows
<1>6. ASSUME NEW dead \in SetToSeqs(work[j].dead)
      PROVE  Retargeted(route, dead) \in [Locations -> Nat \ {0}]
  <2>1. dead \in Seq(Nat)
    BY <1>1, <1>6, Orders DEF WorkGood
  <2> QED
    BY <1>1, <2>1, Rewrites DEF Retargeted
<1>7. route' \in [Locations -> Nat \ {0}] /\ serving' \in [Locations -> Nat \ {0}]
  BY <1>1, <1>6 DEF Retarget
<1>8. UNCHANGED <<box, front, proxy, clicks, changes, card>>
  BY DEF Retarget
<1> HIDE DEF k
<1> QED
  BY <1>3, <1>5, <1>7, <1>8, GoesKeeps DEF k, ReconcileInv, ReconcileTypeOK

LEMMA RemoveKeeps ==
    ASSUME ReconcileInv, NEW j \in Jobs, RemoveNext(j)
    PROVE  ReconcileInv'
<1>1. work[j] \in Work /\ WorkGood(work[j], box) /\ box \in [Names -> Container]
  BY DEF ReconcileInv, ReconcileTypeOK
<1>2. PICK n \in work[j].plan.stop, rm \in SshOutcome :
         /\ box' = IF rm.worked THEN [box EXCEPT ![n] = "absent"] ELSE box
         /\ Goes(j, [work[j] EXCEPT !.plan.stop = @ \ {n}, !.failed = @ \/ ~rm.said,
                                   !.done = @ \/ rm.said])
  BY DEF RemoveNext
<1> DEFINE p == [work[j].plan EXCEPT !.stop = work[j].plan.stop \ {n}]
           k == [work[j] EXCEPT !.plan = p, !.failed = work[j].failed \/ ~rm.said,
                                !.done = work[j].done \/ rm.said]
<1>3. p \in Plan /\ p.stop = work[j].plan.stop \ {n} /\ n \in Names
  BY <1>1 DEF Work, Plan
<1>4. Goes(j, k)
  BY <1>1, <1>2 DEF Work, Plan
<1> HIDE DEF p
<1>5. /\ k \in Work /\ k.plan = p /\ k.report = work[j].report /\ k.changed = work[j].changed
      /\ k.at = work[j].at /\ k.unheard = work[j].unheard /\ k.dead = work[j].dead
  BY <1>1, <1>3 DEF Work
<1>6. WorkGood(k, box)
  BY <1>1, <1>3, <1>5 DEF WorkGood, Knows
<1> HIDE DEF k
<1>7. work' \in [Jobs -> Work] /\ \A i \in Jobs : WorkGood(work'[i], box)
  BY <1>4, <1>6, WorkMoves DEF Goes
<1>8. box' \in [Names -> Container]
  BY <1>1, <1>2, <1>3 DEF Container
<1>9. UNCHANGED <<route, serving, front, proxy, clicks, changes, card>>
  BY DEF RemoveNext
<1>10. ReconcileTypeOK'
  BY <1>7, <1>8, <1>9 DEF ReconcileInv, ReconcileTypeOK
<1>11. CASE box' = box
  BY <1>7, <1>9, <1>10, <1>11 DEF ReconcileInv
<1>12. CASE box' = [box EXCEPT ![n] = "absent"]
  <2>1. \A c \in Cards : CardGood(card'[c], box')
    BY <1>1, <1>3, <1>9, <1>12, Removed DEF ReconcileInv
  <2>2. \A i \in Jobs : WorkGood(work'[i], box')
    BY <1>1, <1>3, <1>7, <1>12, Removed
  <2> QED
    BY <1>10, <2>1, <2>2 DEF ReconcileInv
<1> QED
  BY <1>2, <1>11, <1>12

LEMMA FinishKeeps ==
    ASSUME ReconcileInv, NEW j \in Jobs, Finish(j)
    PROVE  ReconcileInv'
<1>1. work[j] \in Work /\ work[j].changed \in SUBSET Names
  BY DEF ReconcileInv, ReconcileTypeOK, Work
<1> DEFINE as == IF work[j].failed /\ ~work[j].done THEN "over" ELSE "answered"
<1>2. as \in {"answered", "over"} /\ Goes(j, Answered(j, as, Blank))
  BY DEF Finish
<1> HIDE DEF as
<1>3. WorkGood(Answered(j, as, Blank), box)
  BY <1>1, <1>2, BlankTypes, AnswerGood
<1> QED
  BY <1>2, <1>3, GoesKeeps DEF Finish, world, ReconcileInv, ReconcileTypeOK

\* When a container changes, everyone who has read the host has changed things to know of.
LEMMA HostChangesKeeps ==
    ASSUME ReconcileInv, HostChanges
    PROVE  ReconcileInv'
<1>1. PICK n \in Names, kind \in Container :
         /\ box' = [box EXCEPT ![n] = kind]
         /\ card' = [c \in Cards |-> IF card[c].report.ok
                                     THEN [card[c] EXCEPT !.changed = @ \cup {n}] ELSE card[c]]
         /\ work' = [j \in Jobs |-> IF work[j].at = "idle" THEN NoWork
                                    ELSE [work[j] EXCEPT !.changed = @ \cup {n},
                                            !.unheard = IF work[j].at = "sed" THEN @ \cup {n} ELSE {}]]
  BY DEF HostChanges
<1>2. box \in [Names -> Container] /\ card \in [Cards -> Card] /\ work \in [Jobs -> Work]
  BY DEF ReconcileInv, ReconcileTypeOK
<1>3. \A m \in Names : m # n => box'[m] = box[m]
  BY <1>1, <1>2
<1>4. \A p \in Listening(box') : p \in Listening(box) \/ p = PortOf[n]
  BY <1>3 DEF Listening
<1>5. ASSUME NEW c \in Cards
      PROVE  CardGood(card'[c], box') /\ card'[c].job = card[c].job /\ card'[c].at = card[c].at
  <2>1. card[c] \in Card /\ CardGood(card[c], box)
    BY <1>2 DEF ReconcileInv
  <2>2. Listed(card[c].report) \cup card[c].plan.stop \subseteq Names
    BY <2>1 DEF Card, Listed, Report, Plan
  <2>3. CASE card[c].report.ok
    <3> DEFINE k == [card[c] EXCEPT !.changed = card[c].changed \cup {n}]
    <3>1. card'[c] = k
      BY <1>1, <2>3
    <3>2. /\ k \in Card /\ k.report = card[c].report /\ k.plan = card[c].plan
          /\ k.changed = card[c].changed \cup {n} /\ k.job = card[c].job /\ k.at = card[c].at
      BY <2>1 DEF Card
    <3> HIDE DEF k
    <3> QED
      BY <1>3, <2>1, <2>2, <2>3, <3>1, <3>2 DEF CardGood, Knows
  <2>4. CASE ~card[c].report.ok
    <3>1. card'[c] = card[c]
      BY <1>1, <2>4
    <3> QED
      BY <2>1, <2>4, <3>1 DEF CardGood, Knows
  <2> QED
    BY <2>3, <2>4
<1>6. ASSUME NEW j \in Jobs
      PROVE  WorkGood(work'[j], box')
  <2>1. work[j] \in Work /\ WorkGood(work[j], box)
    BY <1>2 DEF ReconcileInv
  <2>2. Listed(work[j].report) \cup work[j].plan.stop \subseteq Names
    BY <2>1 DEF Work, Listed, Report, Plan
  <2>3. CASE work[j].at = "idle"
    BY <1>1, <2>3, NoWorkGood
  <2>4. CASE work[j].at # "idle"
    <3> DEFINE unheard == IF work[j].at = "sed" THEN work[j].unheard \cup {n} ELSE {}
               k == [work[j] EXCEPT !.changed = work[j].changed \cup {n}, !.unheard = unheard]
    <3>1. work'[j] = k
      BY <1>1, <2>4
    <3>2. unheard \in SUBSET Names /\ (work[j].at = "sed" => unheard = work[j].unheard \cup {n})
      BY <2>1 DEF Work
    <3> HIDE DEF unheard
    <3>3. /\ k \in Work /\ k.report = work[j].report /\ k.plan = work[j].plan /\ k.at = work[j].at
          /\ k.changed = work[j].changed \cup {n} /\ k.unheard = unheard /\ k.dead = work[j].dead
      BY <2>1, <3>2 DEF Work
    <3> HIDE DEF k
    <3>4. Knows(k, box')
      BY <1>3, <2>1, <2>2, <3>3 DEF WorkGood, Knows
    <3>5. k.at = "sed" => \A p \in k.dead :
             p \in Listening(box') => \E m \in k.unheard : PortOf[m] = p
      BY <1>4, <2>1, <3>2, <3>3 DEF WorkGood
    <3> QED
      BY <2>1, <3>1, <3>3, <3>4, <3>5 DEF WorkGood
  <2> QED
    BY <2>3, <2>4
<1>7. ReconcileTypeOK'
  <2>1. box' \in [Names -> Container]
    BY <1>1, <1>2
  <2>2. card' \in [Cards -> Card] /\ work' \in [Jobs -> Work]
    <3>1. card' = [c \in Cards |-> card'[c]] /\ work' = [j \in Jobs |-> work'[j]]
      BY <1>1
    <3> QED
      BY <1>5, <1>6, <3>1 DEF CardGood, WorkGood
  <2>3. changes' \in 0..MaxChanges
    <3>1. changes \in 0..MaxChanges /\ changes < MaxChanges /\ changes' = changes + 1
      BY DEF HostChanges, ReconcileInv, ReconcileTypeOK
    <3> QED
      BY <3>1, ReconcileAssumption
  <2>4. UNCHANGED <<route, serving, front, proxy, clicks>>
    BY Zenon DEF HostChanges
  <2> QED
    BY <1>5, <2>1, <2>2, <2>3, <2>4 DEF ReconcileInv, ReconcileTypeOK
<1> QED
  BY <1>5, <1>6, <1>7 DEF ReconcileInv

-----------------------------------------------------------------------------
(***************************************************************************)
(* The invariant, and what follows from it.                                *)
(***************************************************************************)

LEMMA ReconcileStarts == ReconcileInit => ReconcileInv
<1> SUFFICES ASSUME ReconcileInit PROVE ReconcileInv
  OBVIOUS
<1>1. \A c \in Cards : card[c] = Fresh
  BY DEF ReconcileInit
<1>2. \A j \in Jobs : work[j] = NoWork
  BY DEF ReconcileInit
<1>3. Fresh \in Card /\ Fresh.job = None /\ Fresh.at = "shown"
  BY FreshGood DEF CardGood, Fresh
<1>4. ReconcileTypeOK
  <2>1. route \in [Locations -> Nat \ {0}] /\ serving \in [Locations -> Nat \ {0}]
    BY ReconcileAssumption DEF ReconcileInit
  <2>2. box \in [Names -> Container] /\ front \in Door /\ proxy \in {"own", "none"}
    BY DEF ReconcileInit
  <2>3. card \in [Cards -> Card]
    BY <1>3 DEF ReconcileInit
  <2>4. work \in [Jobs -> Work]
    BY NoWorkTypes DEF ReconcileInit
  <2>5. clicks \in 0..MaxClicks /\ changes \in 0..MaxChanges
    BY ReconcileAssumption DEF ReconcileInit
  <2>6. \A c \in Cards : card[c].job # None <=> card[c].at \in {"scanning", "reconciling"}
    BY <1>1, <1>3
  <2> QED
    BY <2>1, <2>2, <2>3, <2>4, <2>5, <2>6 DEF ReconcileTypeOK
<1> QED
  BY <1>1, <1>2, <1>4, FreshGood, NoWorkGood DEF ReconcileInv

LEMMA ReconcileStays == ReconcileInv /\ [ReconcileNext]_reconcileVars => ReconcileInv'
<1> SUFFICES ASSUME ReconcileInv, [ReconcileNext]_reconcileVars PROVE ReconcileInv'
  OBVIOUS
<1>1. CASE UNCHANGED reconcileVars
  BY <1>1 DEF reconcileVars, ReconcileInv, ReconcileTypeOK
<1>2. ASSUME NEW c \in Cards, Tick(c) \/ Scanned(c) \/ Reconciled(c) \/ Fails(c) \/ Leave(c)
      PROVE  ReconcileInv'
  BY <1>2, TickKeeps, ScannedKeeps, ReconciledKeeps, FailsKeeps, LeaveKeeps
<1>3. ASSUME NEW c \in Cards, NEW j \in Jobs, Mount(c, j) \/ Scan(c, j) \/ Reconcile(c, j)
      PROVE  ReconcileInv'
  BY <1>3, ScanKeeps, ReconcileKeeps
<1>4. ASSUME NEW j \in Jobs,
             \/ Ends(j) \/ SetProxyNone(j) \/ ScanHost(j)
             \/ ScanNginx(j) \/ Retarget(j) \/ RemoveNext(j) \/ Finish(j)
      PROVE  ReconcileInv'
  BY <1>4, EndsKeeps, SetProxyNoneKeeps, ScanHostKeeps, ScanNginxKeeps, RetargetKeeps, RemoveKeeps,
     FinishKeeps
<1>5. CASE HostChanges
  BY <1>5, HostChangesKeeps
<1> QED
  BY <1>1, <1>2, <1>3, <1>4, <1>5 DEF ReconcileNext

LEMMA ReconcileAlways == ReconcileSpec => []ReconcileInv
  BY ReconcileStarts, ReconcileStays, PTL DEF ReconcileSpec

\* Reports, plans, requests and routes of every reachable state are well formed, and a card
\* waits exactly for the request it has sent; ports stay ports however often sed runs.
THEOREM ReconcileTypes == ReconcileSpec => []ReconcileTypeOK
<1>1. ReconcileInv => ReconcileTypeOK
  BY DEF ReconcileInv
<1> QED
  BY <1>1, ReconcileAlways, PTL

\* ServerPreflightService.reconcile removes what was ticked, and what was ticked came from a
\* report; any number of cards and requests may overlap.
THEOREM ManagedStay == ReconcileSpec => ManagedSurvive
<1>1. ASSUME ReconcileInv, NEW j \in Jobs, NEW n \in Names,
             n \in work[j].plan.stop, box[n] = "managed"
      PROVE  n \in work[j].changed
  BY <1>1 DEF ReconcileInv, WorkGood, Knows
<1>2. ReconcileInv => [\A j \in Jobs, n \in Names :
         /\ work[j].at = "remove" /\ n \in work[j].plan.stop \ work'[j].plan.stop
         /\ box[n] = "managed" /\ box'[n] = "absent"
         => n \in work[j].changed]_reconcileVars
  BY <1>1
<1> QED
  BY <1>2, ReconcileAlways, PTL DEF ManagedSurvive

\* buildNginxRetargetCommand's expressions, one after the other, leave alone the routes whose
\* port begins with no port they look for, for any number of routes and dead ports.
THEOREM ServedStay == ReconcileSpec => ServedRoutesStay
<1> DEFINE Stays == \A j \in Jobs, l \in Locations :
         (work[j].at = "sed" /\ work'[j].at # "sed" /\ route'[l] # route[l])
         => \/ \E n \in work[j].unheard : PortOf[n] = route[l]
            \/ route[l] \notin Listening(box)
            \/ \E p \in work[j].dead \ {route[l]} : Begins(p, route[l])
<1>1. ASSUME ReconcileInv, ReconcileNext, NEW j \in Jobs, NEW l \in Locations,
             work[j].at = "sed", work'[j].at # "sed", route'[l] # route[l]
      PROVE  \/ \E n \in work[j].unheard : PortOf[n] = route[l]
             \/ route[l] \notin Listening(box)
             \/ \E p \in work[j].dead \ {route[l]} : Begins(p, route[l])
  <2>1. PICK i \in Jobs : Retarget(i)
    <3>1. ASSUME NEW c \in Cards PROVE ~(Tick(c) \/ Scanned(c) \/ Reconciled(c) \/ Fails(c) \/ Leave(c))
      BY <1>1 DEF Tick, Scanned, Reconciled, Fails, Leave, host, world
    <3>2. ASSUME NEW c \in Cards, NEW i \in Jobs PROVE ~(Mount(c, i) \/ Scan(c, i) \/ Reconcile(c, i))
      BY <1>1 DEF Mount, Scan, Reconcile, Asks, host
    <3>3. ASSUME NEW i \in Jobs
          PROVE  ~(Ends(i) \/ SetProxyNone(i) \/ ScanHost(i) \/ ScanNginx(i) \/ RemoveNext(i) \/ Finish(i))
      BY <1>1 DEF Ends, SetProxyNone, ScanHost, ScanNginx, RemoveNext, Finish, world
    <3>4. ~HostChanges
      BY <1>1 DEF HostChanges
    <3> QED
      BY <1>1, <3>1, <3>2, <3>3, <3>4 DEF ReconcileNext
  <2>2. i = j
    <3>1. ASSUME i # j PROVE work'[j] = work[j]
      BY <1>1, <2>1, <3>1 DEF Retarget, Goes, ReconcileInv, ReconcileTypeOK
    <3> QED
      BY <1>1, <3>1
  <2>3. PICK dead \in SetToSeqs(work[j].dead) : route' = Retargeted(route, dead)
    BY <1>1, <2>1, <2>2 DEF Retarget
  <2>4. /\ route[l] \in Nat \ {0} /\ WorkGood(work[j], box)
        /\ work[j].dead \subseteq Nat
    BY <1>1 DEF ReconcileInv, ReconcileTypeOK, Work, Report
  <2>5. dead \in Seq(Nat) /\ \A m \in 1..Len(dead) : dead[m] \in work[j].dead
    BY <2>4, Orders DEF WorkGood
  <2>6. route'[l] = Rewritten(route[l], dead)
    BY <2>3 DEF Retargeted
  <2>7. \E p \in work[j].dead : Begins(p, route[l])
    BY <1>1, <2>4, <2>5, <2>6, Rewrites
  <2>8. route[l] \in work[j].dead =>
           \/ \E n \in work[j].unheard : PortOf[n] = route[l]
           \/ route[l] \notin Listening(box)
    BY <1>1, <2>4 DEF WorkGood
  <2> QED
    BY <2>7, <2>8
<1>2. ReconcileInv /\ [ReconcileNext]_reconcileVars => [Stays]_reconcileVars
  BY <1>1
<1> QED
  BY <1>2, ReconcileAlways, PTL DEF ReconcileSpec, ServedRoutesStay

====
