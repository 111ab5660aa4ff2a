------------------------------- MODULE MCCost -------------------------------
(***************************************************************************)
(* The two providers of encproxy.example.toml that price gpt-oss-120b, one *)
(* of them under its own name for it.                                      *)
(***************************************************************************)
EXTENDS Cost

CONSTANTS tinfoil, ppq, canonical, private

MCModelOf == [p \in {tinfoil, ppq} |-> IF p = tinfoil THEN canonical ELSE private]

=============================================================================
