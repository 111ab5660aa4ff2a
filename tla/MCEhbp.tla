------------------------------- MODULE MCEhbp -------------------------------
(***************************************************************************)
(* Keys, chunks and two answers to one request, of two chunks and of one.  *)
(***************************************************************************)
EXTENDS Ehbp

\* Keys of the right length, of lengths that shift the fields behind them, and
\* one that holds a list of cipher suites.
MCKeys == {[i \in 1..n |-> b] : n \in {0, 28, 30, 31, 33, 34, 36, 40}, b \in {0, 4}}
            \cup {[i \in 1..32 |-> 1],
                  [i \in 1..32 |-> 9] \o <<0, 12, 0, 1, 0, 2, 0, 0>>}

MCMessage == [a \in {"first", "second"} |-> IF a = "first" THEN <<7, 8>> ELSE <<9>>]

MCChunks == {[len |-> 0, seal |-> "none", seq |-> 0],
             [len |-> 1, seal |-> "first", seq |-> 0],
             [len |-> 2, seal |-> "first", seq |-> 1],
             [len |-> 1, seal |-> "second", seq |-> 0],
             [len |-> 1, seal |-> "other", seq |-> 0]}

=============================================================================
