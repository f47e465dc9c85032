------------------------------- MODULE Prompts -------------------------------
(***************************************************************************)
(* The prompt registry and the assistant's case: what an operator edits in  *)
(* the admin pages, and what every turn of the assistant reads.  Each       *)
(* request reads first and writes later; other operators' requests come     *)
(* between.                                                                *)
(***************************************************************************)
EXTENDS Naturals, Sequences, SequencesExt

CONSTANTS
    Operators,       \* admin pages, each of an operator with something to say
    Guardrail,       \* the key of the built-in guardrail; the behavior prompt is picked the same way
    Candidates,      \* the keys a custom prompt of the one label may get, in order: 100 in the code
    Providers,       \* providers of models
    Typed,           \* a model ID typed by hand, whatever it says
    Default,         \* what the code says when nobody has saved anything
    NoKey,
    MaxVersions      \* bound on the versions of all prompts together

Builtins == {Guardrail}
Keys == Builtins \cup Range(Candidates)

\* A text is known by who wrote it.
Texts == Operators \cup {Default}

\* A model picked from a provider's list is known by the provider; choosing a provider
\* chooses its first model.
Models == Providers \cup {Typed}

Case == [guardrail : Keys, provider : Providers, model : Models]

ASSUME PromptsAssumption ==
    /\ Candidates \in Seq(Range(Candidates)) /\ Builtins \cap Range(Candidates) = {}
    /\ Typed \notin Providers /\ Default \notin Operators /\ NoKey \notin Keys
    /\ MaxVersions \in Nat \ {0}

VARIABLES
    rows,     \* assistant_prompts: text and version of each key, version 0 when there is no row
    kase,     \* the row of assistant_cases
    page,     \* each admin page's draft of the case
    request   \* the request each page waits for

promptVars == <<rows, kase, page, request>>

\* The case as the code has it, for whichever provider that names.
BuiltinCases == {[guardrail |-> Guardrail, provider |-> p, model |-> p] : p \in Providers}

NoRow == [text |-> Default, version |-> 0]
Waits == [kind |-> "none", at |-> "idle", key |-> NoKey, text |-> Default]

PromptsInit ==
    /\ rows = [k \in Keys |-> NoRow]
    /\ kase \in BuiltinCases
    /\ page = [o \in Operators |-> kase]
    /\ request = [o \in Operators |-> Waits]

Exists(k) == rows[k].version > 0

Versions == FoldFunction(LAMBDA r, n : r.version + n, 0, rows)

Ask(o, r) == request' = [request EXCEPT ![o] = r]
Step(o, at) == Ask(o, [request[o] EXCEPT !.at = at])
Answered(o) == Ask(o, Waits)
At(o, kind, at) == request[o].kind = kind /\ request[o].at = at

-----------------------------------------------------------------------------
(***************************************************************************)
(* Reading.                                                                *)
(***************************************************************************)

\* loadAllRows: a query that fails is no rows at all.
LoadedRows == {rows, [k \in Keys |-> NoRow]}

\* resolveBody finds a row's text, or the built-in one; another key is not found.
Known(loaded, k) == loaded[k].version > 0 \/ k \in Builtins

-----------------------------------------------------------------------------
(***************************************************************************)
(* The pages.                                                              *)
(***************************************************************************)

\* load: list answers with the built-in case when the row cannot be read.
LoadPage(o) ==
    /\ request[o] = Waits
    /\ \E shown \in {kase} \cup BuiltinCases : page' = [page EXCEPT ![o] = shown]
    /\ UNCHANGED <<rows, kase, request>>

\* What the form makes of a draft: a provider brings its first model; a model is picked from
\* its provider's list or typed by hand; the prompts to pick from are those of the page's
\* last load, and no prompt is ever deleted.
Edited(draft) ==
    {[draft EXCEPT !.provider = p, !.model = p] : p \in Providers}
        \cup {[draft EXCEPT !.model = m] : m \in {draft.provider, Typed}}
        \cup {[draft EXCEPT !.guardrail = g] : g \in {k \in Keys : Known(rows, k)}}

\* The form stays editable while a request is under way.
Edit(o) ==
    /\ \E draft \in Edited(page[o]) \ {page[o]} : page' = [page EXCEPT ![o] = draft]
    /\ UNCHANGED <<rows, kase, request>>

-----------------------------------------------------------------------------
(***************************************************************************)
(* save                                                                    *)
(***************************************************************************)

StartSave(o) ==
    /\ request[o] = Waits
    /\ \E k \in {key \in Keys : Known(rows, key)} : Ask(o, [Waits EXCEPT !.kind = "save", !.at = "read", !.key = k])
    /\ UNCHANGED <<rows, kase, page>>

\* A custom prompt whose row cannot be read is not found.
SaveRead(o) ==
    /\ At(o, "save", "read")
    /\ \E loaded \in LoadedRows :
         IF Known(loaded, request[o].key) THEN Step(o, "write") ELSE Answered(o)
    /\ UNCHANGED <<rows, kase, page>>

\* An UPDATE, or an INSERT that a row in the way turns into one: the version is counted
\* in the database.
SaveWrite(o) ==
    /\ At(o, "save", "write")
    /\ LET k == request[o].key IN
       /\ Versions < MaxVersions
       /\ rows' = [rows EXCEPT ![k] = [text |-> o, version |-> @.version + 1]]
    /\ Answered(o)
    /\ UNCHANGED <<kase, page>>

-----------------------------------------------------------------------------
(***************************************************************************)
(* create, as a duplicate of the case's guardrail                          *)
(***************************************************************************)

StartCreate(o) ==
    /\ request[o] = Waits
    /\ Ask(o, [Waits EXCEPT !.kind = "create", !.at = "body", !.key = page[o].guardrail])
    /\ UNCHANGED <<rows, kase, page>>

CreateBody(o) ==
    /\ At(o, "create", "body")
    /\ \E loaded \in LoadedRows :
         IF Known(loaded, request[o].key)
         THEN Ask(o, [request[o] EXCEPT !.at = "key", !.text = loaded[request[o].key].text])
         ELSE Answered(o)
    /\ UNCHANGED <<rows, kase, page>>

\* Mutant: the search for a key ends without one.
CreateKeyless(o) ==
    /\ At(o, "create", "key")
    /\ \E k \in {NoKey} \cup {Candidates[i] : i \in {j \in DOMAIN Candidates : ~Exists(Candidates[j])}} :
         Ask(o, [request[o] EXCEPT !.at = "insert", !.key = k])
    /\ UNCHANGED <<rows, kase, page>>

\* uniqueKey: the first candidate without a row, in the rows as they were read.
CreateKey(o) ==
    /\ At(o, "create", "key")
    /\ \E loaded \in LoadedRows, i \in DOMAIN Candidates :
         /\ loaded[Candidates[i]].version = 0
         /\ \A j \in 1..(i - 1) : loaded[Candidates[j]].version > 0
         /\ Ask(o, [request[o] EXCEPT !.at = "insert", !.key = Candidates[i]])
    /\ UNCHANGED <<rows, kase, page>>

\* Mutant: the INSERT gets the clause of save, ON CONFLICT DO UPDATE.
CreateUpsert(o) ==
    /\ At(o, "create", "insert")
    /\ LET k == request[o].key IN
       /\ rows' = [rows EXCEPT ![k] = [text |-> request[o].text, version |-> @.version + 1]]
       /\ page' = [page EXCEPT ![o].guardrail = k]
    /\ Answered(o)
    /\ UNCHANGED kase

\* The INSERT, which a row in the way makes fail; the page picks the new prompt.
CreateInsert(o) ==
    /\ At(o, "create", "insert")
    /\ Versions < MaxVersions
    /\ LET k == request[o].key IN
       IF Exists(k) THEN UNCHANGED <<rows, page>>
       ELSE /\ rows' = [rows EXCEPT ![k] = [text |-> request[o].text, version |-> 1]]
            /\ page' = [page EXCEPT ![o].guardrail = k]
    /\ Answered(o)
    /\ UNCHANGED kase

-----------------------------------------------------------------------------
(***************************************************************************)
(* update of the case                                                      *)
(***************************************************************************)

\* The page sends every field of its draft: of the row that update reads first, nothing is
\* left.
StartUpdate(o) ==
    /\ request[o] = Waits /\ page[o] # kase
    /\ Ask(o, [kind |-> "update", at |-> "write", draft |-> page[o]])
    /\ UNCHANGED <<rows, kase, page>>

\* Mutant: the provider, which no page sends without a model, is left out of the patch.
UpdateModelOnly(o) ==
    /\ At(o, "update", "write")
    /\ kase' = [request[o].draft EXCEPT !.provider = kase.provider]
    /\ page' = [page EXCEPT ![o] = kase']
    /\ Answered(o)
    /\ UNCHANGED rows

\* The merge of the patch over the row read, which is all patch; the page shows the
\* answer in place of what was typed meanwhile.
UpdateWrite(o) ==
    /\ At(o, "update", "write")
    /\ kase' = request[o].draft
    /\ page' = [page EXCEPT ![o] = kase']
    /\ Answered(o)
    /\ UNCHANGED rows

\* A query throws: the page shows an error and keeps its draft.
RequestFails(o) ==
    /\ request[o] # Waits
    /\ Answered(o)
    /\ UNCHANGED <<rows, kase, page>>

Admin(o) ==
    \/ LoadPage(o) \/ Edit(o)
    \/ StartSave(o) \/ SaveRead(o) \/ SaveWrite(o)
    \/ StartCreate(o) \/ CreateBody(o) \/ CreateKey(o) \/ CreateInsert(o)
    \/ StartUpdate(o) \/ UpdateWrite(o)
    \/ RequestFails(o)

PromptsNext == \E o \in Operators : Admin(o)

PromptsSpec == PromptsInit /\ [][PromptsNext]_promptVars

-----------------------------------------------------------------------------
(***************************************************************************)
(* What must hold.                                                         *)
(***************************************************************************)

PromptRequest ==
    {Waits}
        \cup [kind : {"save", "create"}, at : {"read", "write", "body", "key", "insert"},
              key : Keys, text : Texts]
        \cup [kind : {"update"}, at : {"write"}, draft : Case]

PromptsTypeOK ==
    /\ rows \in [Keys -> [text : Texts, version : Nat]]
    /\ kase \in Case
    /\ page \in [Operators -> Case]
    /\ request \in [Operators -> PromptRequest]

\* The case holds together, whatever operators save across each other, one case over
\* another's: the prompt it names can be found, be it a duplicate whose INSERT failed, and
\* its model is one of its provider's unless the model was typed by hand.
CaseHoldsTogether ==
    /\ Exists(kase.guardrail) \/ kase.guardrail \in Builtins
    /\ kase.model \in {kase.provider, Typed}

\* "rows here override per key and bump the version on each save so changes are
\* auditable": a text changes only together with its version, by one, to what
\* the operator whose save it is wrote; a duplicate never lands on a prompt that exists.
TextsAreSaved ==
    [][\A k \in Keys : rows'[k] # rows[k] =>
         /\ rows'[k].version = rows[k].version + 1
         /\ Exists(k) => \E o \in Operators : At(o, "save", "write") /\ rows'[k].text = o]_promptVars

=============================================================================
