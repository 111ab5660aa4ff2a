------------------------------- MODULE Fetcher -------------------------------
(***************************************************************************)
(* The model fetcher (internal/providers/fetcher.go): FetchAllModels asks  *)
(* every provider that has an API key for its models and upserts those     *)
(* that the policy admits.  It runs when the process starts and whenever   *)
(* the admin API is asked to (handleFetchModels in internal/admin/         *)
(* admin.go), query by query, while rows are edited and providers offer    *)
(* new models and withdraw old ones.  Fetches at the same time share only  *)
(* the rows they add, which no fetch reads: one after the other stand for  *)
(* them.                                                                   *)
(***************************************************************************)
EXTENDS Naturals, FiniteSets

CONSTANTS
  Providers, Models,
  Credentials,  \* providers with an API key
  Admitted,     \* pairs that the TEE policy and the chat policy admit
  Chat,         \* models that support chat completions
  Private,      \* models with the prefix "private/"
  PPQ,          \* the provider "ppq"
  PPQPrivate,   \* ppqPrivateModels, the list in the code
  MaxAttempts,  \* requests to one models endpoint
  MaxChanges    \* bound: edits of rows and changes of what is offered

Pairs == Providers \X Models
Tiers == {"confidential", "encrypted", "plaintext"}

ASSUME ListAssumption ==
  /\ PPQPrivate \subseteq Private \cap Chat
  /\ \A m \in PPQPrivate : <<PPQ, m>> \in Admitted
  /\ \A pm \in Admitted : pm[2] \in Chat

VARIABLES
  tier,           \* of each provider's row
  proxied,        \* the row of ppq names a local proxy
  offered,        \* what each models endpoint would list now
  changes,
  rows,           \* the rows of provider_models
  phase,          \* of the fetch
  todo,           \* the rows it has still to go through, as its first query read them
  cur,            \* the row it is at
  attempt,        \* requests made to its endpoint
  answer,         \* models of the answer that are still to be stored
  plain           \* history: providers of the plaintext tier when the fetch listed them

vars == <<tier, proxied, offered, changes, rows, phase, todo, cur, attempt, answer, plain>>

RowOf(p) == [id |-> p, tier |-> tier[p], proxied |-> p = PPQ /\ proxied]

Init ==
  /\ tier \in [Providers -> Tiers] /\ proxied \in BOOLEAN
  /\ offered \in [Providers -> SUBSET Models] /\ changes = 0
  /\ rows = {}
  /\ phase = "idle" /\ todo = {} /\ cur = RowOf(CHOOSE p \in Providers : TRUE)
  /\ attempt = 0 /\ answer = {}
  /\ plain = {}

world == <<tier, proxied, offered, changes>>
Goto(p) == phase' = p

-----------------------------------------------------------------------------
(***************************************************************************)
(* A fetch.                                                                *)
(***************************************************************************)

ListProviders ==
  /\ phase = "idle"
  /\ \/ todo' = {RowOf(p) : p \in Providers} /\ Goto("next")
     \/ todo' = {} /\ Goto("idle")   \* the query fails
  /\ plain' = {p \in Providers : tier[p] = "plaintext"}
  /\ UNCHANGED <<world, rows, cur, attempt, answer>>

\* A row of ppq with the encrypted tier and no proxy: its endpoint is not asked.
HasFixedList(row) == row.id = PPQ /\ row.tier = "encrypted" /\ ~row.proxied

\* A provider without an API key is passed over.
TakeProvider ==
  /\ phase = "next"
  /\ \E row \in todo :
       /\ todo' = todo \ {row} /\ cur' = row
       /\ Goto(IF row.id \notin Credentials THEN "next"
                  ELSE IF HasFixedList(row) THEN "store" ELSE "request")
       /\ answer' = IF row.id \in Credentials /\ HasFixedList(row) THEN PPQPrivate ELSE {}
  /\ UNCHANGED <<world, plain, rows, attempt>>

\* The endpoint answers with what it offers at that moment.
Answered ==
  /\ phase = "request"
  /\ answer' = offered[cur.id] /\ attempt' = 0
  /\ Goto("store")
  /\ UNCHANGED <<world, plain, rows, todo, cur>>

\* No connection, or a status that is worth another attempt.
Retries ==
  /\ phase = "request" /\ attempt + 1 < MaxAttempts
  /\ attempt' = attempt + 1
  /\ UNCHANGED <<world, plain, rows, phase, todo, cur, answer>>

\* Any other status, an answer that does not parse, or the last attempt: the
\* provider's models stay as they are, and the next provider has its turn.
MutantGivesUp ==
  /\ phase = "request" /\ attempt' = 0
  /\ UNCHANGED <<world, plain, rows, phase, todo, cur, answer>>
GivesUp ==
  /\ phase = "request" /\ Goto("next")
  /\ attempt' = 0
  /\ UNCHANGED <<world, plain, rows, todo, cur, answer>>

IsConfidentialTier(t) == t \in {"confidential", "encrypted"}

\* What is left out of an endpoint's answer.
MutantSkipped(row, m) ==
  \/ row.id = PPQ /\ row.tier = "encrypted" /\ m \notin Private
  \/ m \notin Chat
Skipped(row, m) ==
  \/ row.id = PPQ /\ row.tier = "encrypted" /\ m \notin Private
  \/ IsConfidentialTier(row.tier) /\ <<row.id, m>> \notin Admitted
  \/ m \notin Chat

\* UpsertProviderModel, which may fail; nothing is ever deleted or disabled.
Store ==
  /\ phase = "store"
  /\ \E m \in answer :
       /\ answer' = answer \ {m}
       /\ \/ ~Skipped(cur, m) /\ rows' = rows \cup {<<cur.id, m>>}
          \/ UNCHANGED rows
  /\ UNCHANGED <<world, plain, phase, todo, cur, attempt>>

EndProvider ==
  /\ phase = "store" /\ answer = {} /\ Goto("next")
  /\ UNCHANGED <<world, plain, rows, todo, cur, attempt, answer>>

EndFetch ==
  /\ phase = "next" /\ todo = {} /\ Goto("idle")
  /\ UNCHANGED <<world, plain, rows, todo, cur, attempt, answer>>

FetchStep ==
  \/ ListProviders \/ TakeProvider \/ Answered \/ Retries \/ GivesUp
  \/ Store \/ EndProvider \/ EndFetch

-----------------------------------------------------------------------------
(***************************************************************************)
(* What happens around it.                                                 *)
(***************************************************************************)

Change == changes < MaxChanges /\ changes' = changes + 1
fetchers == <<rows, phase, todo, cur, attempt, answer, plain>>

EditRow ==
  /\ Change
  /\ \E p \in Providers, t \in Tiers, b \in BOOLEAN :
       /\ tier' = [tier EXCEPT ![p] = t]
       /\ proxied' = IF p = PPQ THEN b ELSE proxied
  /\ UNCHANGED <<offered, fetchers>>

Offers ==
  /\ Change
  /\ \E p \in Providers, ms \in SUBSET Models :
       offered' = [offered EXCEPT ![p] = ms]
  /\ UNCHANGED <<tier, proxied, fetchers>>

Next == FetchStep \/ EditRow \/ Offers

Spec == Init /\ [][Next]_vars
\* Requests time out after 30 seconds, so a fetch goes on.
FairSpec == Spec /\ WF_vars(FetchStep)

-----------------------------------------------------------------------------
(***************************************************************************)
(* Properties.                                                             *)
(***************************************************************************)

\* A fetch adds a pair outside the TEE policy only for a provider that its own
\* listing had in the plaintext tier: a tier of some other time counts for nothing.
NoTEELessRow ==
  [][\A pm \in rows' \ rows : pm \in Admitted \/ pm[1] \in plain]_vars

\* Every fetch ends, however often endpoints fail and rows are edited.
FetchEnds == []<>(phase = "idle")

=============================================================================
