---------------------------- MODULE TimingProofs ----------------------------
(***************************************************************************)
(* The refresh loop renews the verdict of a healthy pair in time, for      *)
(* every configuration that TTLAssumption admits.                          *)
(***************************************************************************)
EXTENDS RefreshTiming, TLAPS

\* The sweeps that the last verdict can be old by now.
Lost == IF judged THEN missed ELSE missed + 1

\* What NeverLapses rests on: a tick is in the channel, or will be before the
\* interval since the last start is over; and how long ago the verdict can have
\* been given, counted in sweeps.
TimingInv ==
  /\ ~sweeping => judged
  /\ sweeping => since <= SweepTime
  /\ ~ticked => toTick + since <= RefreshInterval
  /\ verified => left + since + Lost * Longest >= VerdictTTL

Inv == TypeOK /\ TimingInv

\* Longest is the larger of its two parts.
LEMMA LongestBounds ==
  /\ Longest \in Nat
  /\ Longest >= RefreshInterval
  /\ Longest >= SweepTime
BY NumbersAssumption DEF Longest

\* What the sweeps that were lost cost, in the steps that change their number.
LEMMA LostSteps ==
  ASSUME TypeOK
  PROVE  /\ missed * Longest \in Nat
         /\ (missed + 1) * Longest = missed * Longest + Longest
         /\ missed * Longest <= Misses * Longest
         /\ (Misses + 1) * Longest = Misses * Longest + Longest
<1>1. missed \in Nat /\ Misses \in Nat /\ missed <= Misses
  BY NumbersAssumption DEF TypeOK
<1>2. PICK d \in Nat : Misses = missed + d
  <2>1. Misses - missed \in Nat /\ Misses = missed + (Misses - missed)
    BY <1>1
  <2> QED BY <2>1
<1>3. d * Longest \in Nat /\ missed * Longest \in Nat
  BY <1>1, <1>2, LongestBounds
<1>4. Misses * Longest = missed * Longest + d * Longest
  BY <1>1, <1>2, LongestBounds
<1> QED BY <1>1, <1>3, <1>4, LongestBounds

\* While the invariant holds the verdict is live: the sum of what is left of it
\* and of what can have passed since it was given is the whole of its time.
LEMMA InvImpliesLive ==
  ASSUME Inv
  PROVE  NeverLapses
<1>1. SUFFICES ASSUME verified PROVE left > 0
  BY DEF NeverLapses
<1>2. left \in Nat /\ since \in Nat
  BY NumbersAssumption, LongestBounds DEF Inv, TypeOK
<1>3. TypeOK
  BY DEF Inv
<1>4. CASE judged
  <2>1. left + since + missed * Longest >= VerdictTTL
    BY <1>1, <1>4 DEF Inv, TimingInv, Lost
  <2>2. since <= Longest
    BY NumbersAssumption, LongestBounds DEF Inv, TypeOK
  <2> QED BY <1>2, <1>3, <2>1, <2>2, LostSteps, LongestBounds, NumbersAssumption, TTLAssumption
<1>5. CASE ~judged
  <2>1. left + since + (missed + 1) * Longest >= VerdictTTL
    BY <1>1, <1>5 DEF Inv, TimingInv, Lost
  <2>2. since <= SweepTime
    BY <1>5 DEF Inv, TimingInv
  <2> QED BY <1>2, <1>3, <2>1, <2>2, LostSteps, LongestBounds, NumbersAssumption, TTLAssumption
<1> QED BY <1>4, <1>5 DEF Inv, TypeOK

\* The ticker is made before the first sweep begins.
LEMMA InvInit ==
  ASSUME Init
  PROVE  Inv
<1>1. /\ toTick \in 1..RefreshInterval /\ since \in 0..Longest
      /\ missed \in 0..Misses /\ left \in 0..VerdictTTL
  BY NumbersAssumption, LongestBounds DEF Init
<1>2. TypeOK
  BY <1>1 DEF Init, TypeOK
<1>3. TimingInv
  BY NumbersAssumption DEF Init, TimingInv
<1> QED BY <1>2, <1>3 DEF Inv

\* Time passes: what is left and what has passed change by the same amount, and
\* the loop, when it waits, waits for a tick that is not far.
LEMMA PassKeepsInv ==
  ASSUME Inv, Pass
  PROVE  Inv'
<1> USE NumbersAssumption, LongestBounds
<1>1. since < Longest
  <2>1. CASE sweeping
    BY <2>1 DEF Inv, TypeOK, Pass
  <2>2. CASE ~sweeping
    BY <2>2 DEF Inv, TypeOK, TimingInv, Pass
  <2> QED BY <2>1, <2>2
<1>2. TypeOK'
  BY <1>1 DEF Inv, TypeOK, Pass
<1>3. (~sweeping => judged)' /\ (sweeping => since <= SweepTime)'
  BY DEF Inv, TypeOK, TimingInv, Pass
<1>4. (~ticked => toTick + since <= RefreshInterval)'
  BY DEF Inv, TypeOK, TimingInv, Pass
<1>5. (verified => left + since + Lost * Longest >= VerdictTTL)'
  <2>1. SUFFICES ASSUME verified'
                 PROVE  left' + since' + Lost' * Longest >= VerdictTTL
    BY DEF Longest
  <2>2. Lost' = Lost /\ verified
    BY <2>1 DEF Pass, Lost
  <2>3. left > 0
    BY <2>2, InvImpliesLive DEF NeverLapses
  <2>4. left' + since' = left + since /\ left + since \in Nat
    BY <2>3 DEF Pass, Inv, TypeOK
  <2> QED BY <2>2, <2>4 DEF Inv, TimingInv
<1> QED BY <1>2, <1>3, <1>4, <1>5 DEF Inv, TimingInv

\* A sweep begins at most Longest after the one before.
LEMMA BeginKeepsInv ==
  ASSUME Inv, BeginSweep
  PROVE  Inv'
<1> USE NumbersAssumption, LongestBounds
<1>1. TypeOK'
  <2>1. (since \in 0..Longest)'
    BY DEF BeginSweep, Longest
  <2>2. /\ (toTick \in 1..RefreshInterval)' /\ (missed \in 0..Misses)'
        /\ (left \in 0..VerdictTTL)'
    BY DEF Inv, TypeOK, BeginSweep
  <2>3. /\ (ticked \in BOOLEAN)' /\ (asked \in BOOLEAN)' /\ (sweeping \in BOOLEAN)'
        /\ (judged \in BOOLEAN)' /\ (verified \in BOOLEAN)'
    BY DEF Inv, TypeOK, BeginSweep
  <2> QED BY <2>1, <2>2, <2>3 DEF TypeOK
<1>2. (~sweeping => judged)' /\ (sweeping => since <= SweepTime)'
      /\ (~ticked => toTick + since <= RefreshInterval)'
  BY DEF Inv, TypeOK, BeginSweep
<1>3. (verified => left + since + Lost * Longest >= VerdictTTL)'
  <2>1. SUFFICES ASSUME verified
                 PROVE  left + 0 + (missed + 1) * Longest >= VerdictTTL
    BY DEF BeginSweep, Lost, Longest
  <2>2. left + since + missed * Longest >= VerdictTTL
    BY <2>1 DEF Inv, TimingInv, Lost, BeginSweep
  <2>3. since <= Longest /\ since \in Nat /\ left \in Nat
    BY DEF Inv, TypeOK
  <2> QED BY <2>2, <2>3, LostSteps DEF Inv
<1> QED BY <1>1, <1>2, <1>3 DEF Inv, TimingInv

\* A new verdict has all of its time before it.
LEMMA VerifyKeepsInv ==
  ASSUME Inv, Verify
  PROVE  Inv'
<1> USE NumbersAssumption, LongestBounds
<1>1. TypeOK'
  BY DEF Inv, TypeOK, Verify
<1>2. left' + since' + Lost' * Longest >= VerdictTTL
  <2>1. left' = VerdictTTL /\ since' = since /\ Lost' = 0
    BY DEF Verify, Lost
  <2>2. since \in Nat
    BY DEF Inv, TypeOK
  <2>3. VerdictTTL + since >= VerdictTTL
    BY <2>2
  <2>4. 0 * Longest = 0 /\ VerdictTTL + since \in Nat
    BY <2>2
  <2>5. VerdictTTL + since + 0 * Longest = VerdictTTL + since
    BY <2>4
  <2> QED BY <2>1, <2>3, <2>5
<1>3. (verified => left + since + Lost * Longest >= VerdictTTL)'
  BY <1>2 DEF Longest
<1> QED BY <1>1, <1>3 DEF Inv, TimingInv, TypeOK, Verify

\* A miss counts the sweep that is under way as lost, as it was counted before.
LEMMA UnreachableKeepsInv ==
  ASSUME Inv, Unreachable
  PROVE  Inv'
<1> USE NumbersAssumption, LongestBounds
<1>1. TypeOK'
  BY DEF Inv, TypeOK, Unreachable
<1>2. Lost' = Lost /\ (verified' => verified) /\ left' = left /\ since' = since
  BY DEF Inv, TypeOK, Unreachable, Lost
<1>3. (verified => left + since + Lost * Longest >= VerdictTTL)'
  BY <1>2 DEF Inv, TimingInv, Longest
<1> QED BY <1>1, <1>3 DEF Inv, TimingInv, TypeOK, Unreachable

\* Every step keeps the invariant.
LEMMA InvStep ==
  ASSUME Inv, [Next]_vars
  PROVE  Inv'
<1>1. CASE Pass
  BY <1>1, PassKeepsInv
<1>2. CASE BeginSweep
  BY <1>2, BeginKeepsInv
<1>3. CASE Verify
  BY <1>3, VerifyKeepsInv
<1>4. CASE Unreachable
  BY <1>4, UnreachableKeepsInv
<1>5. CASE EndSweep
  BY <1>5, NumbersAssumption, LongestBounds DEF Inv, TypeOK, TimingInv, Lost, EndSweep
<1>6. CASE TriggerRefresh
  BY <1>6 DEF Inv, TypeOK, TimingInv, Lost, TriggerRefresh
<1>7. CASE UNCHANGED vars
  BY <1>7 DEF Inv, TypeOK, TimingInv, Lost, vars
<1> QED BY <1>1, <1>2, <1>3, <1>4, <1>5, <1>6, <1>7 DEF Next

\* The invariant holds in every state.
LEMMA InvAlways == Spec => []Inv
<1>1. Init => Inv
  BY InvInit
<1>2. Inv /\ [Next]_vars => Inv'
  BY InvStep
<1> QED BY <1>1, <1>2, PTL DEF Spec

\* TypeOK, and with it that the loop is never further from the start of its last
\* sweep than one interval or one sweep, whichever is longer.
THEOREM TimingTypeCorrect == Spec => []TypeOK
<1>1. Inv => TypeOK
  BY DEF Inv
<1> QED BY <1>1, InvAlways, PTL

\* NeverLapses: with a verdict_ttl above that of TTLAssumption the refresh loop
\* (Start, sweep) never lets the verdict of a healthy pair run out.
THEOREM VerdictsAreRenewedInTime == Spec => []NeverLapses
<1>1. Inv => NeverLapses
  BY InvImpliesLive
<1> QED BY <1>1, InvAlways, PTL

=============================================================================
