--------------------------- MODULE MCRefreshTiming ---------------------------
(* A sweep that may take longer than the interval, and the shortest verdict_ttl
   that TTLAssumption admits for it. *)
EXTENDS RefreshTiming

=============================================================================
