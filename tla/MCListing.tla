------------------------------ MODULE MCListing ------------------------------
(***************************************************************************)
(* Two providers; two spellings of one model, and a model whose canonical  *)
(* name is canonicalised once more into that of the first.                 *)
(***************************************************************************)
EXTENDS Listing

CONSTANTS p1, p2, glm, nearGlm, twoDates, nGlm, nDated

MCProviders == {p1, p2}
MCModels == {glm, nearGlm, twoDates}
MCNames == {nGlm, nDated}
MCCanonical ==
  [n \in MCModels \cup MCNames |-> IF n = twoDates THEN nDated ELSE nGlm]
MCEligible == {<<p1, glm>>, <<p1, nearGlm>>, <<p2, glm>>, <<p2, twoDates>>}
MCPairs == MCEligible \cup {<<p2, nearGlm>>}

=============================================================================
