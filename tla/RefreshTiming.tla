---------------------------- MODULE RefreshTiming ----------------------------
(***************************************************************************)
(* The clock of the refresh loop: Start and sweep                          *)
(* (internal/attestation/attestation.go), for one pair that is always      *)
(* accepted when its evidence can be had.  Module Attestation lets time    *)
(* pass in any amount; here a unit of it passes at a time, and the model   *)
(* says for which configurations a verdict is renewed before it expires.   *)
(*                                                                         *)
(* Nothing in the code checks this: refresh_interval and verdict_ttl are   *)
(* independent settings, and a sweep takes as long as the verifiers of all *)
(* pairs take, one after the other.                                        *)
(***************************************************************************)
EXTENDS Naturals

CONSTANTS
  RefreshInterval, VerdictTTL,  \* the settings
  SweepTime,                    \* the longest a sweep takes
  Misses                        \* sweeps in a row that may fail to reach the evidence

\* From the start of a sweep to the start of the next.
Longest == IF RefreshInterval >= SweepTime THEN RefreshInterval ELSE SweepTime

ASSUME NumbersAssumption ==
  /\ RefreshInterval \in Nat \ {0} /\ VerdictTTL \in Nat
  /\ SweepTime \in Nat /\ Misses \in Nat

ASSUME TTLAssumption == VerdictTTL > (Misses + 1) * Longest + SweepTime

VARIABLES
  toTick,    \* time until the ticker fires
  ticked,    \* a tick in the ticker's channel, which holds one
  asked,     \* a request in the refresh channel, which holds one
  sweeping,
  since,     \* time since the start of this sweep, or of the last one
  judged,    \* this sweep, or the last one, has been at the pair
  missed,    \* sweeps in a row that have not reached the evidence
  verified,  \* there is a verdict that says verified
  left       \* time until it expires

vars == <<toTick, ticked, asked, sweeping, since, judged, missed, verified, left>>

TypeOK ==
  /\ toTick \in 1..RefreshInterval /\ since \in 0..Longest
  /\ missed \in 0..Misses /\ left \in 0..VerdictTTL
  /\ ticked \in BOOLEAN /\ asked \in BOOLEAN /\ sweeping \in BOOLEAN
  /\ judged \in BOOLEAN /\ verified \in BOOLEAN

\* The ticker is made before the first sweep.
Init ==
  /\ toTick = RefreshInterval /\ ticked = FALSE /\ asked = FALSE
  /\ sweeping = TRUE /\ since = 0 /\ judged = FALSE /\ missed = 0
  /\ verified = FALSE /\ left = 0

\* Time does not pass while the loop could go on, nor beyond the longest sweep.
\* A tick that finds the channel full is dropped.
Pass ==
  /\ IF sweeping THEN since < SweepTime ELSE ~ticked /\ ~asked
  /\ toTick' = IF toTick = 1 THEN RefreshInterval ELSE toTick - 1
  /\ ticked' = (ticked \/ toTick = 1)
  /\ since' = since + 1
  /\ left' = IF left > 0 THEN left - 1 ELSE 0
  /\ UNCHANGED <<asked, sweeping, judged, missed, verified>>

\* The select of the loop takes one of the two that are ready.
BeginSweep ==
  /\ ~sweeping
  /\ \/ ticked /\ ticked' = FALSE /\ UNCHANGED asked
     \/ asked /\ asked' = FALSE /\ UNCHANGED ticked
  /\ sweeping' = TRUE /\ since' = 0 /\ judged' = FALSE
  /\ UNCHANGED <<toTick, missed, verified, left>>

Verify ==
  /\ sweeping /\ ~judged
  /\ judged' = TRUE /\ missed' = 0 /\ verified' = TRUE /\ left' = VerdictTTL
  /\ UNCHANGED <<toTick, ticked, asked, sweeping, since>>

\* handleNetworkError leaves a live verdict as it is, its expiry included.
MutantUnreachable ==
  /\ sweeping /\ ~judged /\ missed < Misses
  /\ judged' = TRUE /\ missed' = missed + 1 /\ left' = 0
  /\ UNCHANGED <<toTick, ticked, asked, sweeping, since, verified>>
Unreachable ==
  /\ sweeping /\ ~judged /\ missed < Misses
  /\ judged' = TRUE /\ missed' = missed + 1
  /\ verified' = (verified /\ left > 0)
  /\ UNCHANGED <<toTick, ticked, asked, sweeping, since, left>>

EndSweep ==
  /\ sweeping /\ judged /\ sweeping' = FALSE
  /\ UNCHANGED <<toTick, ticked, asked, since, judged, missed, verified, left>>

TriggerRefresh ==
  /\ asked' = TRUE
  /\ UNCHANGED <<toTick, ticked, sweeping, since, judged, missed, verified, left>>

Next == Pass \/ BeginSweep \/ Verify \/ Unreachable \/ EndSweep \/ TriggerRefresh

Spec == Init /\ [][Next]_vars

-----------------------------------------------------------------------------
(***************************************************************************)
(* Properties.                                                             *)
(***************************************************************************)

\* Once the pair has been verified it stays so: no request finds the gap
\* between the expiry of one verdict (expires_at > now) and the next, however
\* ticks are dropped, refreshes are asked for and evidence is missed.
NeverLapses == verified => left > 0

=============================================================================
