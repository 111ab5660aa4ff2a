------------------------------ MODULE Registry ------------------------------
(***************************************************************************)
(* What attestation promises the request handlers: the view they have of   *)
(* the providers, of the pairs whose verdict is live, and of the cache of  *)
(* verified clients, without sweeps, channels or clocks. The detailed      *)
(* specification, Attestation, implements this one; the handlers of Proxy  *)
(* are composed with it.                                                   *)
(***************************************************************************)
EXTENDS Verifiers

CONSTANTS
  MaxEdits,     \* bound: provider rows written by administrators
  MaxFaults,    \* bound: crashes and database errors
  NoEvidence,   \* "no live verdict"
  NoPending     \* "no verified client on its way to the cache"

ASSUME BoundAssumption == MaxEdits \in Nat /\ MaxFaults \in Nat
ASSUME NothingAssumption == /\ NoEvidence \notin Evidence
                            /\ NoPending \notin [pair : Pair, client : Client]

VARIABLES
  up,          \* the process runs
  providers,   \* table providers
  offers,      \* table provider_models: the enabled pairs
  evidence,    \* what the live verdict of a pair rests on
  clients,     \* the cache of verified clients, lost with the process
  pending,     \* a client whose verdict is stored and which is not cached yet
  edits, faults

regVars == <<up, providers, offers, evidence, clients, pending, edits, faults>>

RegTypeOK ==
  /\ up \in BOOLEAN
  /\ providers \in [Provider -> Row \cup {NoRow}]
  /\ offers \subseteq Pair
  /\ evidence \in [Pair -> Evidence \cup {NoEvidence}]
  /\ clients \in [Pair -> Client \cup {NoClient}]
  /\ pending \in [pair : Pair, client : Client] \cup {NoPending}
  /\ edits \in 0..MaxEdits /\ faults \in 0..MaxFaults

RegInit ==
  /\ up = TRUE
  /\ providers = ConfigRow
  /\ offers = {}
  /\ evidence = [pr \in Pair |-> NoEvidence]
  /\ clients = [pr \in Pair |-> NoClient]
  /\ pending = NoPending
  /\ edits = 0 /\ faults = 0

\* The rows a running sweep may have listed for a provider.
PastRows(p) == IF edits = 0 THEN {providers[p]} \ {NoRow} ELSE KnownRows(p)

\* A verification ends well: the verdict of the pair is replaced. It may have
\* worked on a row the provider has no longer, and the write may have taken so
\* long that the verdict has run out.
Vouch(pr) ==
  /\ up /\ pending = NoPending
  /\ pr \in offers /\ pr \in Eligible
  /\ \E row \in PastRows(pr[1]) :
       /\ Swept(row)
       /\ \E e \in EvidenceOf(row) :
            /\ \E seen \in {e, NoEvidence} : evidence' = [evidence EXCEPT ![pr] = seen]
            /\ pending' = IF e.client = NoClient THEN NoPending
                          ELSE [pair |-> pr, client |-> e.client]
  /\ UNCHANGED <<up, providers, offers, clients, edits, faults>>

\* The second write of the verification.
Cache ==
  /\ pending # NoPending
  /\ clients' = [clients EXCEPT ![pending.pair] = pending.client]
  /\ pending' = NoPending
  /\ UNCHANGED <<up, providers, offers, evidence, edits, faults>>

\* Verdicts run out; several may at once.
Lapse(gone) ==
  /\ UNCHANGED <<up, providers, offers, clients, pending, edits, faults>>
  /\ evidence' = [pr \in Pair |-> IF pr \in gone THEN NoEvidence ELSE evidence[pr]]

EditProvider(p, row) ==
  /\ up /\ edits < MaxEdits
  /\ row # providers[p]
  /\ edits' = edits + 1
  /\ providers' = [providers EXCEPT ![p] = row]
  /\ UNCHANGED <<up, offers, evidence, clients, pending, faults>>

Offer(p, m) ==
  /\ providers[p] # NoRow
  /\ <<p, m>> \in Catalog /\ <<p, m>> \notin offers
  /\ offers' = offers \cup {<<p, m>>}
  /\ UNCHANGED <<up, providers, evidence, clients, pending, edits, faults>>

\* A database error inside the attestation service changes nothing seen here.
Mishap ==
  /\ faults < MaxFaults
  /\ faults' = faults + 1
  /\ UNCHANGED <<up, providers, offers, evidence, clients, pending, edits>>

Die ==
  /\ up /\ faults < MaxFaults
  /\ faults' = faults + 1
  /\ up' = FALSE
  /\ clients' = [pr \in Pair |-> NoClient]
  /\ pending' = NoPending
  /\ UNCHANGED <<providers, offers, evidence, edits>>

Boot ==
  /\ ~up
  /\ up' = TRUE
  /\ providers' = [p \in Provider |->
                     IF ConfigRow[p] # NoRow THEN ConfigRow[p] ELSE providers[p]]
  /\ UNCHANGED <<offers, evidence, clients, pending, edits, faults>>

\* Everything but the death of the process, which also takes its requests.
RegStep ==
  \/ \E pr \in Pair : Vouch(pr)
  \/ Cache
  \/ \E gone \in SUBSET {pr \in Pair : evidence[pr] # NoEvidence} : Lapse(gone)
  \/ \E p \in Provider, row \in AdminRow : EditProvider(p, row)
  \/ \E p \in Provider, m \in Model : Offer(p, m)
  \/ Mishap
  \/ Boot

RegNext == RegStep \/ Die

RegSpec == RegInit /\ [][RegNext]_regVars

=============================================================================
