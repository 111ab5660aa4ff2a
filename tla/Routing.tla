------------------------------ MODULE Routing ------------------------------
(***************************************************************************)
(* The vocabulary shared by the attestation sweeper and the request        *)
(* handlers of encproxy, and the pure part of provider selection:          *)
(* internal/routing/routing.go with the tier predicate of                  *)
(* internal/modelpolicy/modelpolicy.go.                                    *)
(*                                                                         *)
(* A row of the providers table is a record: its trust tier, the           *)
(* deployment its URLs lead to, and what the attestation_config JSON says. *)
(* That JSON is written in two spellings: main marshals a Go struct        *)
(* ("UseProxy", "BundleURL"), the admin API stores whatever object it was  *)
(* given, which by the documentation of the TOML file is snake case        *)
(* ("use_proxy", "bundle_url"). Readers differ in what they accept.        *)
(***************************************************************************)
EXTENDS Naturals, FiniteSets

CONSTANTS
  Provider,    \* provider ids
  Model,       \* model ids as the providers spell them
  Name,        \* canonical model names
  Canonical,   \* models.CanonicalModelName, [Model -> Name]
  Catalog,     \* the <<provider, model>> pairs of the providers' model lists
  Eligible,    \* the <<provider, model>> pairs the model policy lets through
  Host,        \* deployments a provider row can point at
  NoRow        \* "no such provider"

ASSUME CanonicalAssumption == Canonical \in [Model -> Name]
ASSUME PairAssumption == /\ Catalog \subseteq Provider \X Model
                         /\ Eligible \subseteq Provider \X Model

Tier == {"confidential", "encrypted", "plaintext"}

(***************************************************************************)
(* Verifier families. "report" stands for redpill, near, venice,           *)
(* privatemode and chutes, whose verifiers fetch one HTTP report and       *)
(* differ only in what they parse out of it; "nanogpt" retries and never   *)
(* falls back on a cached verdict; "none" is any other type string.        *)
(***************************************************************************)
AttestationType == {"tinfoil", "ppq-private", "nanogpt", "report", "none"}

Row == [tier : Tier, host : Host, type : AttestationType,
        useProxy : BOOLEAN, keys : {"Go", "toml"}]

Pair == Provider \X Model

\* A selected route: the provider row is a copy, never read again.
Route == [provider : Provider, model : Model, row : Row]

IsConfidentialTier(tier) == tier \in {"confidential", "encrypted"}

MeetsRequiredTier(tier, required) ==
  CASE required = "plaintext" -> TRUE
    [] required \in {"confidential", "encrypted"} -> IsConfidentialTier(tier)

\* needsEHBP reads the JSON as a map and accepts both spellings.
NeedsEHBP(row) == row.type = "ppq-private" /\ ~row.useProxy

\* verifyPPQ reads it into the Go struct: snake case keys are not seen.
VerifierUsesProxy(row) == row.useProxy /\ row.keys = "Go"
VerifierHasBundle(row) == row.keys = "Go"

\* The routes that the given provider rows leave of a set of verified pairs.
RoutesOf(pairs, rows, required) ==
  {[provider |-> pr[1], model |-> pr[2], row |-> rows[pr[1]]] :
     pr \in {c \in pairs : /\ rows[c[1]] # NoRow
                           /\ MeetsRequiredTier(rows[c[1]].tier, required)
                           /\ c \in Eligible}}

TierScore(tier) ==
  CASE tier = "confidential" -> 100
    [] tier = "encrypted"    -> 50
    [] tier = "plaintext"    -> 10

(***************************************************************************)
(* What scoreRoutes can put first. The region bonus is the same for every  *)
(* route and the random term is below 5, less than any difference between  *)
(* two tiers, so the choice is any route of the best tier present.         *)
(***************************************************************************)
BestRoutes(routes) ==
  {r \in routes : \A s \in routes : TierScore(s.row.tier) <= TierScore(r.row.tier)}

=============================================================================
