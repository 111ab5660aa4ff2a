--------------------------- MODULE FetcherProofs ---------------------------
(***************************************************************************)
(* Proofs about the model fetcher, for every set of providers and models,  *)
(* every policy and any number of edits and attempts.                      *)
(***************************************************************************)
EXTENDS Fetcher, TLAPS

\* A row that a fetch works on may be out of date, but if it lets everything in,
\* then it was of the plaintext tier when the fetch listed it.
Backed(row) == IsConfidentialTier(row.tier) \/ row.id \in plain

PolicyInv ==
  /\ tier \in [Providers -> Tiers]
  /\ \A row \in todo : Backed(row)
  /\ phase \in {"request", "store"} => Backed(cur)

\* A listing, and the history that goes with it.
LEMMA ListingIsBacked ==
  ASSUME PolicyInv, ListProviders
  PROVE  PolicyInv'
<1>1. tier' \in [Providers -> Tiers]
  BY DEF ListProviders, world, PolicyInv
<1>2. plain' = {p \in Providers : tier[p] = "plaintext"}
  BY DEF ListProviders
<1>3. \A row \in todo' : IsConfidentialTier(row.tier) \/ row.id \in plain'
  <2>1. \A p \in Providers : tier[p] \in Tiers
    BY DEF PolicyInv
  <2>2. \A p \in Providers : /\ RowOf(p).id = p /\ RowOf(p).tier = tier[p]
    BY DEF RowOf
  <2>3. \A p \in Providers : IsConfidentialTier(RowOf(p).tier) \/ RowOf(p).id \in plain'
    BY <1>2, <2>1, <2>2 DEF IsConfidentialTier, Tiers
  <2> QED BY <2>3 DEF ListProviders
<1>4. phase' \notin {"request", "store"}
  BY DEF ListProviders, Goto
<1> QED BY <1>1, <1>3, <1>4 DEF PolicyInv, Backed

LEMMA PolicyStep == PolicyInv /\ [Next]_vars => PolicyInv'
<1> SUFFICES ASSUME PolicyInv, [Next]_vars PROVE PolicyInv'
  OBVIOUS
<1>1. CASE ListProviders
  BY <1>1, ListingIsBacked
<1>2. CASE TakeProvider
  <2>1. todo' \subseteq todo /\ cur' \in todo /\ UNCHANGED <<tier, plain>>
    BY <1>2 DEF TakeProvider, world
  <2> QED BY <2>1 DEF PolicyInv, Backed
<1>3. CASE Answered \/ Retries \/ GivesUp \/ EndProvider \/ EndFetch
  BY <1>3 DEF Answered, Retries, GivesUp, EndProvider, EndFetch, Goto, world, PolicyInv,
              Backed
<1>4. CASE Store
  BY <1>4 DEF Store, world, PolicyInv, Backed
<1>5. CASE EditRow
  <2>1. tier' \in [Providers -> Tiers] /\ UNCHANGED <<phase, todo, cur, plain>>
    BY <1>5 DEF EditRow, fetchers, PolicyInv
  <2> QED BY <2>1 DEF PolicyInv, Backed
<1>6. CASE Offers \/ UNCHANGED vars
  BY <1>6 DEF Offers, fetchers, vars, PolicyInv, Backed
<1> QED BY <1>1, <1>2, <1>3, <1>4, <1>5, <1>6 DEF Next, FetchStep

\* Only Store adds rows, and what it lets in the listing's tier let in.
LEMMA StoredByTheListing ==
  ASSUME PolicyInv, [Next]_vars, NEW pm \in rows' \ rows
  PROVE  pm \in Admitted \/ pm[1] \in plain
<1>1. CASE Store
  <2>1. PICK m \in answer :
          \/ ~Skipped(cur, m) /\ rows' = rows \cup {<<cur.id, m>>}
          \/ UNCHANGED rows
    BY <1>1 DEF Store
  <2>2. pm = <<cur.id, m>> /\ ~Skipped(cur, m)
    BY <2>1
  <2>3. <<cur.id, m>> \in Admitted \/ cur.id \in plain
    BY <1>1, <2>2 DEF Store, PolicyInv, Backed, Skipped
  <2> QED BY <2>2, <2>3
<1>2. CASE ListProviders \/ TakeProvider \/ Answered \/ Retries \/ GivesUp
  BY <1>2 DEF ListProviders, TakeProvider, Answered, Retries, GivesUp
<1>3. CASE EndProvider \/ EndFetch \/ EditRow \/ Offers \/ UNCHANGED vars
  BY <1>3 DEF EndProvider, EndFetch, EditRow, Offers, fetchers, vars
<1> QED BY <1>1, <1>2, <1>3 DEF Next, FetchStep

\* However a fetch is interleaved with edits of rows and changes of what is
\* offered: it adds a pair outside the TEE policy only for a provider that its own
\* listing of the table had in the plaintext tier.
THEOREM PolicyIsKept == Spec => NoTEELessRow
<1>1. Init => PolicyInv
  BY DEF Init, PolicyInv
<1>2. PolicyInv /\ [Next]_vars
        => [\A pm \in rows' \ rows : pm \in Admitted \/ pm[1] \in plain]_vars
  BY StoredByTheListing
<1> QED BY <1>1, <1>2, PolicyStep, PTL DEF Spec, NoTEELessRow

=============================================================================
