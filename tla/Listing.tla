------------------------------- MODULE Listing -------------------------------
(***************************************************************************)
(* What clients read about the models: GET /v1/models (handleListModels in *)
(* internal/proxy/proxy.go) and GET /v1/confidentiality                    *)
(* (GetConfidentialityStatus in internal/attestation/attestation.go).      *)
(*                                                                         *)
(* Both read the tables query by query, with no transaction around them,   *)
(* while the sweeper, the fetcher, the clock and the administrator write   *)
(* them.  One reading is modelled, a query per step, and any write between *)
(* two queries.                                                            *)
(***************************************************************************)
EXTENDS Naturals, FiniteSets

CONSTANTS
  Providers, Models,
  Names,       \* the canonical names
  Canonical,   \* CanonicalModelName, of models and of names
  Pairs,       \* what the providers offer at some time
  Eligible,    \* those of them that support chat and that the policy admits
  MaxMoves,    \* bound: writes during a reading
  MaxFaults    \* bound: queries that fail

ASSUME CanonicalAssumption == Canonical \in [Models \cup Names -> Names]
ASSUME PairAssumption == Eligible \subseteq Pairs /\ Pairs \subseteq Providers \X Models
ASSUME FiniteAssumption == IsFiniteSet(Providers)   \* they are the rows of a table

VARIABLES
  trusted,   \* providers whose row has the confidential or encrypted tier
  offers,    \* the rows of provider_models, all of them enabled
  live,      \* pairs with a verdict that is verified and has not expired
  moves, faults,
  kind,      \* what is read: "models" or "status"
  phase,     \* where the handler is
  todo,      \* providers of the first query that are still to be visited
  cur, mods, \* the provider visited, and its models still to be looked at
  model,     \* the model looked at
  found,     \* the pairs its query has found and that are still to be looked up
  owners,    \* the pairs of them that are servable
  list,      \* the entries so far
  was,       \* history: pairs that were servable at some moment of the reading
  always,    \* history: pairs that were servable all the time
  retiered   \* history: a provider's tier has changed during the reading

tables == <<trusted, offers, live, moves>>
reader == <<todo, cur, mods, model, found, owners, list>>
history == <<was, always, retiered>>
vars == <<tables, faults, kind, phase, reader, history>>

Servable == {pm \in offers \cap live \cap Eligible : pm[1] \in trusted}

Init ==
  /\ trusted \in SUBSET Providers
  /\ offers \in SUBSET Pairs /\ live \in SUBSET offers
  /\ moves = 0 /\ faults = 0
  /\ kind \in {"models", "status"} /\ phase = "providers"
  /\ todo = {} /\ cur = CHOOSE p \in Providers : TRUE
  /\ mods = {} /\ model = CHOOSE m \in Models : TRUE
  /\ found = {} /\ owners = {} /\ list = {}
  /\ was = Servable /\ always = Servable /\ retiered = FALSE

Goto(p) == phase' = p
Fault == faults < MaxFaults /\ faults' = faults + 1

-----------------------------------------------------------------------------
(***************************************************************************)
(* The reading.                                                            *)
(***************************************************************************)

\* Providers of another tier are passed over; the tier is the one of this query.
ListProviders ==
  /\ phase = "providers" /\ Goto("provider")
  /\ todo' = trusted
  /\ UNCHANGED <<tables, faults, kind, cur, mods, model, found, owners, list, history>>

ListFails ==
  /\ phase = "providers" /\ Fault /\ Goto("failed")
  /\ UNCHANGED <<tables, kind, reader, history>>

\* GetProviderModels, which may fail: the provider is passed over.
TakeProvider ==
  /\ phase = "provider"
  /\ \E p \in todo :
       /\ todo' = todo \ {p} /\ cur' = p
       /\ \/ mods' = {m \in Models : <<p, m>> \in offers} /\ UNCHANGED faults
          \/ mods' = {} /\ Fault
  /\ Goto("model")
  /\ UNCHANGED <<tables, kind, model, found, owners, list, history>>

EndProvider ==
  /\ phase = "model" /\ mods = {} /\ Goto("provider")
  /\ UNCHANGED <<tables, faults, kind, reader, history>>

MutantSeen(m) == \E e \in list : e.id = m
Seen(m) == \E e \in list : e.id = Canonical[m]

\* GetProviderModelsWithVerification canonicalises the name it is given, which
\* the handler has canonicalised before.
MutantVerifiedModels(name) ==
  {pm \in offers \cap live : Canonical[pm[2]] = name /\ pm[1] = cur}
VerifiedModels(name) == {pm \in offers \cap live : Canonical[pm[2]] = Canonical[name]}

Skips(m) == <<cur, m>> \notin Eligible \/ (kind = "models" /\ Seen(m))

SkipModel ==
  /\ phase = "model"
  /\ \E m \in mods :
       /\ mods' = mods \ {m}
       /\ \/ Skips(m) /\ UNCHANGED faults
          \/ ~Skips(m) /\ Fault   \* the query for its verdicts fails
  /\ UNCHANGED <<tables, kind, phase, todo, cur, model, found, owners, list, history>>

QueryModel ==
  /\ phase = "model" /\ kind = "models"
  /\ \E m \in mods :
       /\ ~Skips(m)
       /\ mods' = mods \ {m} /\ model' = m
       /\ found' = VerifiedModels(Canonical[m])
  /\ owners' = {} /\ Goto("owners")
  /\ UNCHANGED <<tables, faults, kind, todo, cur, list, history>>

\* GetProvider for a pair the query has found; without its row it is passed over.
LookUpOwner ==
  /\ phase = "owners"
  /\ \E pm \in found :
       /\ found' = found \ {pm}
       /\ \/ /\ owners' = IF pm[1] \in trusted /\ pm \in Eligible THEN owners \cup {pm} ELSE owners
             /\ UNCHANGED faults
          \/ Fault /\ UNCHANGED owners
  /\ UNCHANGED <<tables, kind, phase, todo, cur, mods, model, list, history>>

Entry(name, pms) == [id |-> name, owners |-> {pm[1] : pm \in pms}, providers |-> Cardinality(pms)]

EndModel ==
  /\ phase = "owners" /\ found = {} /\ Goto("model")
  /\ list' = IF owners = {} THEN list ELSE list \cup {Entry(Canonical[model], owners)}
  /\ owners' = {} /\ UNCHANGED <<tables, faults, kind, todo, cur, mods, model, found, history>>

\* The status document has each model of the provider under its own name; an
\* entry here is one that says "verified".
MutantStatusModel ==
  /\ phase = "model" /\ kind = "status"
  /\ \E m \in mods :
       /\ ~Skips(m)
       /\ mods' = mods \ {m}
       /\ list' = IF \E p \in Providers : <<p, m>> \in live
                  THEN list \cup {Entry(m, {<<cur, m>>})} ELSE list
  /\ UNCHANGED <<tables, faults, kind, phase, todo, cur, model, found, owners, history>>
StatusModel ==
  /\ phase = "model" /\ kind = "status"
  /\ \E m \in mods :
       /\ ~Skips(m)
       /\ mods' = mods \ {m}
       /\ list' = IF <<cur, m>> \in live THEN list \cup {Entry(m, {<<cur, m>>})} ELSE list
  /\ UNCHANGED <<tables, faults, kind, phase, todo, cur, model, found, owners, history>>

Answer ==
  /\ phase = "provider" /\ todo = {} /\ Goto("done")
  /\ UNCHANGED <<tables, faults, kind, reader, history>>

-----------------------------------------------------------------------------
(***************************************************************************)
(* The writers.                                                            *)
(***************************************************************************)

Move ==
  /\ phase \notin {"providers", "done", "failed"}
  /\ moves < MaxMoves /\ moves' = moves + 1
  /\ was' = was \cup Servable' /\ always' = always \cap Servable'
  /\ UNCHANGED <<faults, kind, phase, reader>>

\* createProvider replaces a row.
EditTier ==
  /\ \E p \in Providers : trusted' = IF p \in trusted THEN trusted \ {p} ELSE trusted \cup {p}
  /\ retiered' = TRUE
  /\ UNCHANGED <<offers, live>>
  /\ Move

\* The fetcher only ever adds rows.
UpsertProviderModel ==
  /\ \E pm \in Pairs \ offers : offers' = offers \cup {pm}
  /\ UNCHANGED <<trusted, live, retiered>>
  /\ Move

\* The sweeper gives a verdict, or takes one back; or one expires.
Verdict ==
  /\ \E pm \in offers : live' = IF pm \in live THEN live \ {pm} ELSE live \cup {pm}
  /\ UNCHANGED <<trusted, offers, retiered>>
  /\ Move

ReaderStep ==
  \/ ListProviders \/ ListFails \/ TakeProvider \/ EndProvider \/ SkipModel
  \/ QueryModel \/ LookUpOwner \/ EndModel \/ StatusModel \/ Answer

Next == ReaderStep \/ EditTier \/ UpsertProviderModel \/ Verdict

Spec == Init /\ [][Next]_vars

-----------------------------------------------------------------------------
(***************************************************************************)
(* Properties.                                                             *)
(***************************************************************************)

\* What an entry says of a model.
Says(e, pm) == pm[1] \in e.owners /\ e.id = (IF kind = "models" THEN Canonical[pm[2]] ELSE pm[2])

\* Whatever is written between the queries: nothing is listed for a provider, or
\* shown as verified, that was not servable at a moment of the reading.  The
\* exception is a tier that changes: verdict and tier are read one after the other.
ListedWasServable ==
  ~retiered =>
    \A e \in list : \A p \in e.owners :
      \E pm \in was : pm[1] = p /\ (IF kind = "models"
                                    THEN Canonical[pm[2]] = Canonical[e.id]
                                    ELSE pm[2] = e.id)

\* A name is listed once, however many providers and spellings have it; in the
\* status document once per provider.
OneEntryPerName ==
  \A e, f \in list : e.id = f.id /\ (kind = "models" \/ e.owners = f.owners) => e = f

\* A model that was servable all the time, from more providers than queries have
\* failed, is in the answer; and when none has failed, with each of its
\* providers.  Names the canonical form of which is not canonical are left out:
\* the listing does not find their rows.
SteadyIsListed ==
  phase = "done" =>
    \A pm \in always :
      LET same == {q \in always : Canonical[q[2]] = Canonical[pm[2]]} IN
      Canonical[Canonical[pm[2]]] = Canonical[pm[2]] =>
        /\ faults = 0 => \E e \in list : Says(e, pm)
        /\ kind = "models" /\ Cardinality({q[1] : q \in same}) > faults =>
             \E e \in list : e.id = Canonical[pm[2]]

=============================================================================
