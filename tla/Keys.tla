-------------------------------- MODULE Keys --------------------------------
(***************************************************************************)
(* The models an API key may ask for: AuthorizeRequest with matchesModel   *)
(* (internal/authz/authz.go), between the admin API that writes            *)
(* allowed_models and the selection of a provider by canonical name.       *)
(*                                                                         *)
(* One key and the requests made with it, one at a time, while keys are    *)
(* created and deleted and rows are added.  Every row has a provider of a  *)
(* confidential tier, and a live verdict: what a request is refused for    *)
(* here is the name of its model, or what the model policy makes of the    *)
(* row's.  Module Proxy has the providers of a key.                        *)
(***************************************************************************)
EXTENDS ModelNames, FiniteSets

CONSTANTS
  Offered,    \* rows of provider_models: a provider, and a model as it lists it
  Patterns,   \* what administrators write into allowed_models, besides copied names
  Requests,   \* names clients ask for, whatever is offered
  MaxAllowed, \* bound: patterns in one key
  MaxRows     \* bound: rows of provider_models

ASSUME NameAssumption ==
  Offered \subseteq [provider : STRING, model : Name] /\ Patterns \cup Requests \subseteq Name

NoKey == {<<>>}
NoModel == <<>>
NoRoute == [provider |-> "", model |-> NoModel]

VARIABLES
  key,      \* the allowed_models of the key's row, or NoKey
  rows,     \* the rows of provider_models
  request,  \* the name asked for, or NoModel
  granted,  \* the copy of the key's row that the handler has, or NoKey
  route,    \* the row that was selected, or NoRoute
  outcome   \* "" while the handler is at work

vars == <<key, rows, request, granted, route, outcome>>

\* The rows that the model policy lets a chat be sent to.
Eligible(row) ==
  SupportsChatCompletions(row.model) /\ IsProviderModelTEEEligible(row.provider, row.model)

\* What /v1/models lists.
Listed == {CanonicalModelName(row.model) : row \in {o \in rows : Eligible(o)}}

Keys == {allowed \in SUBSET (Patterns \cup Listed) : Cardinality(allowed) <= MaxAllowed}

\* Where a word ends in what is behind the last slash of a name.
WordEnds(m) == {i \in DOMAIN m : /\ m[i] \notin Separators \cup {"/"}
                                 /\ i < Len(m) => m[i + 1] \in Separators
                                 /\ \A j \in i..Len(m) : m[j] # "/"}

\* A model under other names of it: behind the prefix of a provider, with a date,
\* or with other separators.
Dashes == {"-", "_"}
Prefixed(m) == {p \o m : p \in ProviderPrefixes}
WithDate(m, i, sep, date) == SubSeq(m, 1, i) \o <<sep, date>> \o SubSeq(m, i + 1, Len(m))
Dated(m) ==
  IF Range(m) \cap Dates # {} THEN {}
  ELSE {WithDate(m, i, sep, date) : i \in WordEnds(m), sep \in Dashes, date \in Dates}
Separated(m) ==
  IF "/" \in Range(m) THEN {}
  ELSE {[i \in DOMAIN m |-> IF m[i] \in Separators THEN sep ELSE m[i]] : sep \in Separators}
Respelled(m) == {m} \cup Prefixed(m) \cup Dated(m) \cup Separated(m)

Init ==
  /\ key = NoKey /\ granted = NoKey /\ rows = {}
  /\ request = NoModel /\ route = NoRoute /\ outcome = ""

-----------------------------------------------------------------------------

EndsWith(m, s) == IsSuffix(s, m)

\* A pattern is a name, or one with "*" for what is before its last slash, or behind.
MutantMatchesModel(pattern, m) ==
  \/ StartsWith(m, pattern)
  \/ EndsWith(pattern, <<"/", "*">>) /\ StartsWith(m, Front(pattern))
  \/ /\ StartsWith(pattern, <<"*", "/">>)
     /\ \E sep \in {"/", "-"} : EndsWith(m, <<sep>> \o SubSeq(pattern, 3, Len(pattern)))
MatchesModel(pattern, m) ==
  \/ pattern = m
  \/ EndsWith(pattern, <<"/", "*">>) /\ StartsWith(m, Front(pattern))
  \/ /\ StartsWith(pattern, <<"*", "/">>)
     /\ \E sep \in {"/", "-"} : EndsWith(m, <<sep>> \o SubSeq(pattern, 3, Len(pattern)))

\* A key without a list may ask for anything.
Allows(allowed, m) == allowed = {} \/ \E pattern \in allowed : MatchesModel(pattern, m)

CreateAPIKey ==
  /\ key = NoKey /\ key' \in Keys
  /\ UNCHANGED <<rows, request, granted, route, outcome>>

DeleteAPIKey ==
  /\ key # NoKey /\ key' = NoKey
  /\ UNCHANGED <<rows, request, granted, route, outcome>>

\* A fetch, or an earlier version of the program, stores whatever row it has.
UpsertProviderModel ==
  /\ Cardinality(rows) < MaxRows
  /\ \E row \in Offered \ rows : rows' = rows \cup {row}
  /\ UNCHANGED <<key, request, granted, route, outcome>>

Ask ==
  /\ request = NoModel
  /\ request' \in Requests \cup Listed \cup UNION {Respelled(row.model) : row \in rows}
  /\ UNCHANGED <<key, rows, granted, route, outcome>>

\* The row is read once, by the hash of the key; the name is matched as it came.
AuthorizeRequest ==
  /\ request # NoModel /\ granted = NoKey /\ outcome = ""
  /\ granted' = key
  /\ outcome' = IF key = NoKey THEN "invalid_api_key"
                ELSE IF Allows(key, request) THEN "" ELSE "model_not_allowed"
  /\ UNCHANGED <<key, rows, request, route>>

\* The query canonicalises the name and finds any row with the same one.
MutantVerifiedModels(name) == {row \in rows : row.model = name}
VerifiedModels(name) == {row \in rows : ModelsMatch(row.model, name)}

\* The policy is applied to the row's name, not to the name in the request.
SelectProvider ==
  /\ granted # NoKey /\ outcome = ""
  /\ LET suitable == {row \in VerifiedModels(request) : Eligible(row)} IN
       \/ VerifiedModels(request) = {} /\ outcome' = "no_verified_provider" /\ UNCHANGED route
       \/ /\ VerifiedModels(request) # {} /\ suitable = {}
          /\ outcome' = "no_suitable_provider" /\ UNCHANGED route
       \/ outcome' = "routed" /\ route' \in suitable
  /\ UNCHANGED <<key, rows, request, granted>>

Answer ==
  /\ outcome # ""
  /\ request' = NoModel /\ granted' = NoKey /\ route' = NoRoute /\ outcome' = ""
  /\ UNCHANGED <<key, rows>>

Next ==
  \/ CreateAPIKey \/ DeleteAPIKey \/ UpsertProviderModel
  \/ Ask \/ AuthorizeRequest \/ SelectProvider \/ Answer

Spec == Init /\ [][Next]_vars

-----------------------------------------------------------------------------
(***************************************************************************)
(* Properties.                                                             *)
(***************************************************************************)

\* A request is answered by a model that the key names under one spelling or
\* another, though the query goes by canonical names and the key may have been
\* replaced meanwhile.  Keys with wildcards are left out.
KeyKeepsToItsModels ==
  outcome = "routed" /\ granted # {} /\ (\A pattern \in granted : "*" \notin Range(pattern)) =>
    \E pattern \in granted : ModelsMatch(pattern, route.model)

\* An administrator copies the name of a model from /v1/models into a key, and a
\* client asks for it: it is served, if there was a row of the model before that a
\* chat may be sent to.
CopiedNameIsServed ==
  [][ \A row \in rows : LET name == CanonicalModelName(row.model) IN
        /\ Eligible(row)
        /\ outcome = "" /\ request = name /\ CanonicalModelName(name) = name
        /\ IF granted = NoKey THEN name \in key ELSE name \in granted
        => outcome' \in {"", "routed"} ]_vars

\* Whatever provider's prefix, date or separators a client writes a model with, it
\* finds the row of the model under the name its provider has for it; and the row is
\* not passed over for the sake of another one that the policy refuses.
SpellingDoesNotMatter ==
  [][ outcome = "" /\ outcome' \in {"no_verified_provider", "no_suitable_provider"} =>
        \A row \in rows : Eligible(row) => request \notin Respelled(row.model) ]_vars

\* A name that begins with a family, its parts separated one way or another.
IsOf(m, family) ==
  /\ Len(m) >= Len(family)
  /\ \A i \in 1..Len(family) :
       IF family[i] = "-" THEN m[i] \in Separators ELSE m[i] = family[i]
  /\ Len(m) > Len(family) => m[Len(family) + 1] \in Separators

\* A family that is known to be hosted elsewhere answers no request for it, behind
\* however many prefixes of providers the request or the row has its name, whatever
\* dates, versions and separators come after, and however the row came to be: but
\* from a provider that marks the models it has in enclaves, under that mark.
HostedElsewhereIsNotServed ==
  outcome = "routed" /\ (\E family \in Families : IsOf(StripProviderPrefix(request), family))
    => /\ route.provider \in {"nanogpt", "ppq", "ppq-private", "chutes"}
       /\ Range(route.model) \cap {"tee", "private"} # {}

=============================================================================
