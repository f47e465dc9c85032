------------------------------- MODULE Servers -------------------------------
(***************************************************************************)
(* The servers tenants deploy to: CoolifyServersService, with the keys and  *)
(* servers that Coolify keeps for it.  Praxarch stores none of this.  A     *)
(* registration looks the host and the key up before it creates either, and *)
(* looks again when Coolify calls one of them a duplicate; then, like a     *)
(* validation, it asks Coolify to check the server and polls.  A deploy     *)
(* makes sure of its server in the same way.  One action is the code        *)
(* between two calls of Coolify's API; requests run side by side, also those *)
(* of one browser, which is told of a failure after 200 s and may ask again  *)
(* while the API goes on.                                                  *)
(***************************************************************************)
EXTENDS Naturals

CONSTANTS
    Requests,   \* requests to the API, each served once
    Tenants, Hosts,
    Old,        \* the hosts where there may be a server before
    SshKeys,    \* private keys, whatever the text they are pasted as
    Pastes,     \* what may be pasted as a key: records of Paste
    Localhost,  \* the host of the platform's own server
    First,      \* the key, and the author, of what was registered before
    Nobody, NoHost, NoPaste, NoKey

\* An OpenSSH key with a passphrase does not say so, and passes for one without.  Texts
\* that quote a public key in passing are for the browser private keys and not for the API.
Forms == {"openssh", "pem", "quoting", "public", "ppk", "encrypted", "cut"}
Paste == [key : SshKeys, form : Forms, ends : {"lf", "crlf"}]

ASSUME ServersAssumption ==
    /\ Localhost \in Old /\ Old \subseteq Hosts /\ First \notin Requests
    /\ Pastes \subseteq Paste /\ NoPaste \notin Paste
    /\ \E paste \in Pastes : paste.form = "openssh"
    /\ Nobody \notin Tenants \cup Requests \cup {First} /\ NoHost \notin Hosts
    /\ NoKey \notin Requests \cup {First}

VARIABLES
    key,     \* Coolify's server keys, named by the request that stored them
    server,  \* Coolify's servers: it refuses two at one host, which names them here
    job      \* the requests

vars == <<key, server, job>>

-----------------------------------------------------------------------------
(***************************************************************************)
(* Keys as texts.                                                          *)
(***************************************************************************)

\* normalizeSshPrivateKey
Normalize(paste) == [paste EXCEPT !.ends = "lf"]

SshPrivateKeysMatch(p, q) == Normalize(p) = Normalize(q)

\* validateSshPrivateKeyClient, in the browser
ClientAccepts(paste) == paste.form \in {"openssh", "pem", "quoting"}

\* assertValidSshPrivateKey
AssertValid(paste) == paste.form \in {"openssh", "pem"}

-----------------------------------------------------------------------------

KeyIds == Requests \cup {First}
Key    == Paste \cup {NoPaste}

\* serverFlags: what Coolify last found out, reachable and usable taken together.
Server == [owner : Tenants \cup {Nobody}, key : KeyIds \cup {NoKey}, by : Requests \cup {First, Nobody},
           ready : BOOLEAN]

NoServer == [owner |-> Nobody, key |-> NoKey, by |-> Nobody, ready |-> FALSE]

Exists(h) == server[h].by # Nobody

\* isVisibleToTenant: its own servers, and the platform's.
Visible(h, t) == Exists(h) /\ (h = Localhost \/ server[h].owner = t)

Kind == {"register", "validate", "status", "deploy"}

\* What a request says.  Only a registration brings a key, and names a host where there
\* may be no server yet; a deploy's server is that of its target.
Inputs ==
    {i \in [kind : Kind, tenant : Tenants, host : Hosts, paste : Pastes \cup {NoPaste}] :
        /\ (i.paste # NoPaste) <=> (i.kind = "register")
        /\ i.kind # "register" => Exists(i.host)
        /\ i.kind = "register" => ClientAccepts(i.paste)
        /\ i.kind = "deploy" => Visible(i.host, i.tenant)}

\* The locals of a request.  "found": the server it goes on with; "key": the key for a
\* new one; "late": its deadline has passed.
Idle == [pc |-> "idle", kind |-> "status", tenant |-> Nobody, host |-> NoHost, paste |-> NoPaste,
         found |-> NoHost, key |-> NoKey, late |-> FALSE, answer |-> "none"]

Underway == {"find", "findKey", "createKey", "findKeyAgain", "create", "findAgain",
             "look", "trigger", "poll", "verdict"}

Init ==
    /\ job = [q \in Requests |-> Idle]
    /\ key = [k \in KeyIds |-> IF k = First THEN CHOOSE p \in Pastes : AssertValid(p) ELSE NoPaste]
    /\ server \in [Hosts -> Server]
    /\ \A h \in Hosts :
          \/ server[h] = NoServer /\ h # Localhost
          \/ h \in Old /\ server[h].by = First /\ server[h].key = First /\ (server[h].owner = Nobody <=> h = Localhost)

-----------------------------------------------------------------------------

Set(q, j) == job' = [job EXCEPT ![q] = j]
Goto(q, pc) == Set(q, [job[q] EXCEPT !.pc = pc])

\* A request ends.  (What is kept of it is for the properties.)
Answer(q, answer) ==
    Set(q, [Idle EXCEPT !.pc = "done", !.answer = answer, !.paste = job[q].paste,
                        !.tenant = IF answer = "taken" THEN job[q].tenant ELSE @,
                        !.host = IF answer = "taken" THEN job[q].host ELSE @])

\* Go on with the server at host h: ask Coolify to check it.
Check(q, h) == Set(q, [job[q] EXCEPT !.pc = "trigger", !.found = h])

Begin(q, i) ==
    /\ job[q].pc = "idle"
    /\ Set(q, [Idle EXCEPT !.kind = i.kind, !.tenant = i.tenant, !.host = i.host, !.paste = i.paste,
                           !.found = IF i.kind = "register" THEN NoHost ELSE i.host,
                           !.pc = CASE i.kind = "register" -> "find"
                                    [] i.kind = "validate" -> "trigger"
                                    [] OTHER               -> "look"])
    /\ UNCHANGED <<key, server>>

\* register refuses what is not a private key.
Refuse(q) ==
    /\ job[q].pc = "find" /\ ~AssertValid(job[q].paste)
    /\ Answer(q, "refused")
    /\ UNCHANGED <<key, server>>

\* findByHostForTenant
FindByHost(q) ==
    /\ job[q].pc = "find" /\ AssertValid(job[q].paste)
    /\ Set(q, [job[q] EXCEPT !.pc = "findKey", !.paste = Normalize(@),
                             !.found = IF Visible(job[q].host, job[q].tenant) THEN job[q].host ELSE NoHost])
    /\ UNCHANGED <<key, server>>

\* The key is at hand: for a server that is there already it is not used.
WithKey(q, k) ==
    IF job[q].found # NoHost THEN Check(q, job[q].found)
    ELSE Set(q, [job[q] EXCEPT !.pc = "create", !.key = k])

Matching(q) == {k \in KeyIds : key[k] # NoPaste /\ SshPrivateKeysMatch(key[k], job[q].paste)}

\* Mutant: the first key Coolify has is taken for the one that was refused.
FindKeyAnyAgain(q) ==
    /\ job[q].pc \in {"findKey", "findKeyAgain"}
    /\ \/ \E k \in Matching(q) \cup
                   {k \in KeyIds : job[q].pc = "findKeyAgain" /\ key[k] # NoPaste} : WithKey(q, k)
       \/ /\ Matching(q) = {}
          /\ IF job[q].pc = "findKey" THEN Goto(q, "createKey") ELSE Answer(q, "failed")
    /\ UNCHANGED <<key, server>>

\* findServerSshKeyByMaterial, before the key is stored and after Coolify refused it.
FindKey(q) ==
    /\ job[q].pc \in {"findKey", "findKeyAgain"}
    /\ \/ \E k \in Matching(q) : WithKey(q, k)
       \/ /\ Matching(q) = {}
          /\ IF job[q].pc = "findKey" THEN Goto(q, "createKey") ELSE Answer(q, "failed")
    /\ UNCHANGED <<key, server>>

\* createServerSshKey.  Coolify keeps no key twice.
CreateKey(q) ==
    /\ job[q].pc = "createKey"
    /\ \/ /\ Matching(q) = {}
          /\ key' = [key EXCEPT ![q] = Normalize(job[q].paste)]
          /\ WithKey(q, q)
       \/ /\ Matching(q) # {}
          /\ Goto(q, "findKeyAgain")
          /\ UNCHANGED key
    /\ UNCHANGED server

\* Mutant: the server is given the key under the name its own would have.
NewServerOwnKey(q) == [owner |-> job[q].tenant, key |-> q, by |-> q, ready |-> FALSE]

NewServer(q) == [owner |-> job[q].tenant, key |-> job[q].key, by |-> q, ready |-> FALSE]

\* createServer
CreateServer(q) ==
    /\ job[q].pc = "create"
    /\ \/ /\ ~Exists(job[q].host)
          /\ server' = [server EXCEPT ![job[q].host] = NewServer(q)]
          /\ Check(q, job[q].host)
       \/ /\ Exists(job[q].host)
          /\ Goto(q, "findAgain")
          /\ UNCHANGED server
    /\ UNCHANGED key

\* Mutant: a duplicate is an error like any other.
DuplicateIsAnError(q) ==
    /\ job[q].pc = "findAgain"
    /\ Answer(q, "taken")
    /\ UNCHANGED <<key, server>>

\* The host is in use: by a server of the tenant after all, or by one it cannot see.
FindAgain(q) ==
    /\ job[q].pc = "findAgain"
    /\ IF Visible(job[q].host, job[q].tenant) THEN Check(q, job[q].host) ELSE Answer(q, "taken")
    /\ UNCHANGED <<key, server>>

-----------------------------------------------------------------------------

Ready(q) == server[job[q].found].ready

\* The first look at a server: all that a status request takes, and what lets a deploy
\* go on at once.
Look(q) ==
    /\ job[q].pc = "look"
    /\ \/ /\ ~Visible(job[q].found, job[q].tenant) /\ Answer(q, "not found")
       \/ /\ Visible(job[q].found, job[q].tenant)
          /\ IF job[q].kind = "deploy" /\ ~Ready(q) THEN Goto(q, "trigger")
             ELSE Answer(q, IF Ready(q) THEN "valid" ELSE "invalid")
    /\ UNCHANGED <<key, server>>

\* GET servers/:uuid/validate: Coolify starts a check.  An error is not heeded.
TriggerValidation(q) ==
    /\ job[q].pc = "trigger"
    /\ Goto(q, "poll")
    /\ UNCHANGED <<key, server>>

\* Mutant: only a reading ends the polling.
PollForever(q) ==
    /\ job[q].pc = "poll"
    /\ \/ /\ ~Visible(job[q].found, job[q].tenant) /\ Answer(q, "not found")
       \/ /\ Visible(job[q].found, job[q].tenant) /\ Ready(q)
          /\ Answer(q, "valid")
    /\ UNCHANGED <<key, server>>

\* A turn of validateAndWait's loop, or of ensureReadyForDeploy's.  While Coolify says
\* anything but "ready" the loop turns until its deadline.
Poll(q) ==
    /\ job[q].pc = "poll"
    /\ \/ /\ ~job[q].late /\ ~Visible(job[q].found, job[q].tenant)
          /\ Answer(q, "not found")
       \/ /\ ~job[q].late /\ Visible(job[q].found, job[q].tenant) /\ Ready(q)
          /\ Answer(q, "valid")
       \/ /\ job[q].late
          /\ IF job[q].kind = "deploy" THEN Answer(q, "conflict") ELSE Goto(q, "verdict")
    /\ UNCHANGED <<key, server>>

\* After the deadline one more reading words the refusal, whatever it finds.
Verdict(q) ==
    /\ job[q].pc = "verdict"
    /\ Answer(q, "invalid")
    /\ UNCHANGED <<key, server>>

\* 180 s, or 90 s for a deploy.
Deadline(q) ==
    /\ job[q].pc = "poll" /\ ~job[q].late
    /\ Set(q, [job[q] EXCEPT !.late = TRUE])
    /\ UNCHANGED <<key, server>>

\* Coolify's API fails or does not answer in time, and may have done as asked.
Throws(q) ==
    /\ job[q].pc \in Underway \ {"trigger"} /\ (job[q].pc = "find" => AssertValid(job[q].paste))
    /\ Answer(q, "failed")
    /\ \/ UNCHANGED <<key, server>>
       \/ /\ job[q].pc = "createKey" /\ Matching(q) = {}
          /\ key' = [key EXCEPT ![q] = Normalize(job[q].paste)]
          /\ UNCHANGED server
       \/ /\ job[q].pc = "create" /\ ~Exists(job[q].host)
          /\ server' = [server EXCEPT ![job[q].host] = NewServer(q)]
          /\ UNCHANGED key

\* Coolify checks a server, asked or of its own accord.
CoolifyChecks(h) ==
    /\ Exists(h)
    /\ server' = [server EXCEPT ![h].ready = ~@]
    /\ UNCHANGED <<key, job>>

Step(q) ==
    \/ Refuse(q) \/ FindByHost(q) \/ FindKey(q) \/ CreateKey(q) \/ CreateServer(q) \/ FindAgain(q)
    \/ Look(q) \/ TriggerValidation(q) \/ Poll(q) \/ Verdict(q)

Next ==
    \/ \E q \in Requests :
          \/ \E i \in Inputs : Begin(q, i)
          \/ Step(q) \/ Deadline(q) \/ Throws(q)
    \/ \E h \in Hosts : CoolifyChecks(h)

\* Calls of Coolify's API settle, and time passes.  Coolify's own checks promise nothing.
Spec == Init /\ [][Next]_vars /\ \A q \in Requests : WF_vars(Step(q)) /\ WF_vars(Deadline(q))

-----------------------------------------------------------------------------
(***************************************************************************)
(* What must hold.                                                         *)
(***************************************************************************)

Answers == {"none", "valid", "invalid", "not found", "refused",
            "taken", "conflict", "failed"}

Job == [pc : Underway \cup {"idle", "done"}, kind : Kind, tenant : Tenants \cup {Nobody},
        host : Hosts \cup {NoHost}, paste : Key, found : Hosts \cup {NoHost},
        key : KeyIds \cup {NoKey}, late : BOOLEAN, answer : Answers]

TypeOK ==
    /\ key \in [KeyIds -> Key]
    /\ server \in [Hosts -> Server]
    /\ job \in [Requests -> Job]
    /\ \A h \in Hosts : Exists(h) => key[server[h].key] # NoPaste
    /\ \A q \in Requests : job[q].pc \in {"look", "trigger", "poll", "verdict"} => Exists(job[q].found)

\* A server that a registration created is reached with the key that was pasted for it,
\* also when the key was known already, or was stored by another request meanwhile.
KeyIsAsAsked ==
    \A h \in Hosts : server[h].by \in Requests =>
        SshPrivateKeysMatch(key[server[h].key], job[server[h].by].paste)

\* "Select it from the server dropdown below": no tenant is told that a host is in use
\* while the server there is its own.  So a registration can be repeated, whether the
\* first try runs on behind a browser that gave up, or failed after Coolify obeyed.
TakenByOthers ==
    \A q \in Requests : job[q].answer = "taken" => ~Visible(job[q].host, job[q].tenant)

\* Every request is answered, whatever Coolify says of the server, and however often.
RequestsEnd == \A q \in Requests : job[q].pc \in Underway ~> job[q].pc = "done"

=============================================================================
