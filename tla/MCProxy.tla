------------------------------ MODULE MCProxy ------------------------------
(* One request against ppq over EHBP and a provider reached in the clear,   *)
(* while an administrator puts the latter behind EHBP too or makes one      *)
(* plaintext; in another instance he moves a provider to another deployment.*)
EXTENDS Proxy, TLC

CONSTANTS ppq, tin, m1, h1, h2, kAny, r1

MCRow(tier, host, type, useProxy, keystyle) ==
  [tier |-> tier, host |-> host, type |-> type, useProxy |-> useProxy, keys |-> keystyle]

MCCanonical == [m \in Model |-> "n"]
MCCatalog   == Pair
MCEligible  == Pair
MCConfigRow == (ppq :> MCRow("encrypted", h1, "ppq-private", FALSE, "Go")
             @@ tin :> MCRow("confidential", h1, "report", FALSE, "Go"))
MCAdminRow  == {MCRow("encrypted", h1, "ppq-private", FALSE, "Go"),
                MCRow("plaintext", h1, "report", FALSE, "toml")}
MCMovedRow  == {MCRow("encrypted", h2, "ppq-private", FALSE, "Go")}
MCKeyProviders == [k \in Key |-> {}]
MCKeyNames == [k \in Key |-> {}]
=============================================================================
