--------------------------- MODULE MCAttestation ---------------------------
(* The attestation service on two providers: ppq over EHBP, verified from a *)
(* bundle, and tinfoil; an administrator can move ppq to another deployment *)
(* or behind a local proxy, or make it plaintext.                           *)
EXTENDS Attestation, TLC

CONSTANTS ppq, tin, m1, m2, h1, h2

MCRow(tier, host, type, useProxy, keys) ==
  [tier |-> tier, host |-> host, type |-> type, useProxy |-> useProxy, keys |-> keys]

MCCanonical == [m \in Model |-> "n"]
MCConfigRow == (ppq :> MCRow("encrypted", h1, "ppq-private", FALSE, "Go")
             @@ tin :> MCRow("confidential", h1, "tinfoil", FALSE, "Go"))
MCAdminRow == {MCRow("encrypted", h2, "ppq-private", FALSE, "Go"),
               MCRow("encrypted", h2, "report", FALSE, "toml"),
               MCRow("plaintext", h1, "tinfoil", FALSE, "toml")}

\* tin also lists m2, which the model policy keeps out.
MCCatalog  == {<<ppq, m1>>, <<tin, m1>>, <<tin, m2>>}
MCEligible == {<<ppq, m1>>, <<tin, m1>>}
=============================================================================
