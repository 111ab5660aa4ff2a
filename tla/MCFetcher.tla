----------------------------- MODULE MCFetcher -----------------------------
(***************************************************************************)
(* Fetches from the provider with a list of its own and one                *)
(* other.  The fixed list has a model; another is a family hosted          *)
(* elsewhere, which only a row of the plaintext tier may have.             *)
(***************************************************************************)
EXTENDS Fetcher

CONSTANTS ppq, near, private, remote

MCModels == {private, remote}
MCAdmitted == {<<ppq, private>>, <<near, private>>}

=============================================================================
