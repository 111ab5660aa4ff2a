----------------------------- MODULE Verifiers -----------------------------
(***************************************************************************)
(* What the eight verifiers of internal/attestation/attestation.go can     *)
(* make of the answer to a request for evidence, by the provider row they  *)
(* are given, and what accepting it yields.                                *)
(***************************************************************************)
EXTENDS Routing

CONSTANTS
  ConfigRow,    \* [Provider -> Row or NoRow], the providers of the TOML file
  AdminRow,     \* rows an administrator may write
  NoClient      \* "no verified client"

ASSUME RowAssumption == /\ ConfigRow \in [Provider -> Row \cup {NoRow}]
                        /\ AdminRow \subseteq Row
                        /\ NoRow \notin Row

\* A cached client: the enclave it was verified for, and whether the evidence
\* carried an HPKE key (a tinfoil enclave may not publish one).
Client == [host : Host, key : BOOLEAN]

\* What verified_claims says: the deployment and the client verified.
Evidence == [host : Host, client : Client \cup {NoClient}]

ASSUME NoClientAssumption == NoClient \notin Client

\* The rows a provider can ever have had.
KnownRows(p) == AdminRow \cup ({ConfigRow[p]} \ {NoRow})

\* Clients that accepted evidence yields: tinfoil and the PPQ bundle only.
ClientsOf(row) ==
  CASE row.type = "tinfoil" -> [host : {row.host}, key : BOOLEAN]
    [] row.type = "ppq-private" /\ ~VerifierUsesProxy(row)
         -> [host : {row.host}, key : {TRUE}]
    [] OTHER -> {NoClient}

\* A PPQ row without a visible bundle URL is rejected before any fetch; one
\* behind a local proxy is accepted without one.
CanAccept(row) ==
  \/ row.type \in {"tinfoil", "nanogpt", "report"}
  \/ row.type = "ppq-private" /\ VerifierHasBundle(row)

EvidenceOf(row) ==
  {e \in [host : {row.host}, client : ClientsOf(row)] : CanAccept(row)}

\* The verifiers that end in handleNetworkError when nobody answers; tinfoil
\* does so whatever is wrong.
FallsBack(row) ==
  \/ row.type \in {"tinfoil", "report"}
  \/ row.type = "ppq-private" /\ VerifierHasBundle(row) /\ ~VerifierUsesProxy(row)

\* The verifiers that can return an error and touch nothing.
CanReject(row) ==
  \/ row.type \in {"nanogpt", "report", "none"}
  \/ row.type = "ppq-private" /\ ~VerifierUsesProxy(row)

\* The rows a sweep goes through: those of a plaintext tier are passed over.
MutantSwept(row) == row # NoRow /\ row.tier = "confidential"
Swept(row) == row # NoRow /\ IsConfidentialTier(row.tier)

=============================================================================
