--------------------------- MODULE MCRefreshLoop ---------------------------
(* The refresh loop on one provider with two models, small enough for   *)
(* the liveness properties and the refinement.                             *)
EXTENDS Attestation, TLC

CONSTANTS ppq, m1, m2, h1, h2

MCRow(tier, host, type, useProxy) ==
  [tier |-> tier, host |-> host, type |-> type, useProxy |-> useProxy, keys |-> "Go"]

MCCanonical == [m \in Model |-> "n"]
MCConfigRow == ppq :> MCRow("encrypted", h1, "ppq-private", FALSE)
MCAdminRow  == {MCRow("encrypted", h2, "ppq-private", FALSE),
                MCRow("plaintext", h2, "tinfoil", FALSE)}
MCCatalog   == Pair
MCEligible  == Pair
=============================================================================
