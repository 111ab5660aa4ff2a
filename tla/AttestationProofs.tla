------------------------- MODULE AttestationProofs -------------------------
(***************************************************************************)
(* Proofs about the attestation service, for every set of providers,       *)
(* models and rows, every TTL and any number of edits and faults.          *)
(***************************************************************************)
EXTENDS Attestation, TLAPS

-----------------------------------------------------------------------------
(***************************************************************************)
(* Lemmas about the operators.                                             *)
(***************************************************************************)

\* Accepted evidence has a deployment and at most one client.
LEMMA EvidenceType ==
  ASSUME NEW row \in Row, NEW e \in EvidenceOf(row)
  PROVE  e \in Evidence
<1>1. ClientsOf(row) \subseteq Client \cup {NoClient}
  BY DEF ClientsOf, Client, Row
<1>2. row.host \in Host
  BY DEF Row
<1> QED BY <1>1, <1>2 DEF EvidenceOf, Evidence

\* The rows a provider can have are rows.
LEMMA KnownRowsType ==
  ASSUME NEW p \in Provider
  PROVE  KnownRows(p) \subseteq Row
BY RowAssumption DEF KnownRows

\* A tick takes a verdict closer to its expiry and changes nothing else of it.
LEMMA AgedVerdict ==
  ASSUME NEW v \in Verdict
  PROVE  /\ Aged(v) \in Verdict
         /\ Aged(v).verified = v.verified
         /\ Aged(v).host = v.host /\ Aged(v).client = v.client
         /\ v.left = 0 => Aged(v).left = 0
         /\ v.left > 0 => Aged(v).left = v.left - 1
<1>1. v # NoVerdict
  BY NothingAssumption
<1>2. v.left \in 0..TTL
  BY DEF Verdict
<1>3. CASE v.left = 0
  BY <1>1, <1>3 DEF Aged
<1>4. CASE v.left > 0
  <2>1. Aged(v) = [v EXCEPT !.left = @ - 1]
    BY <1>1, <1>4, <1>2, TTLAssumption DEF Aged
  <2> QED BY <2>1, <1>2, <1>4, TTLAssumption DEF Verdict
<1> QED BY <1>2, <1>3, <1>4, TTLAssumption

\* No verdict does not age.
LEMMA AgedNoVerdict == Aged(NoVerdict) = NoVerdict
BY DEF Aged

\* The verdict of an unreachable verifier is one.
LEMMA FailedType ==
  ASSUME NEW host \in Host
  PROVE  Failed(host) \in Verdict
BY TTLAssumption DEF Failed, Verdict

-----------------------------------------------------------------------------
(***************************************************************************)
(* Type correctness.                                                       *)
(***************************************************************************)

LEMMA TypeInit == Init => TypeOK
<1> SUFFICES ASSUME Init PROVE TypeOK
  OBVIOUS
<1>1. providers \in [Provider -> Row \cup {NoRow}] /\ offers \subseteq Pair
  BY RowAssumption DEF Init
<1>2. verdicts \in [Pair -> Verdict \cup {NoVerdict}]
  BY DEF Init
<1>3. clients \in [Pair -> Client \cup {NoClient}]
  BY DEF Init
<1>4. snapshot \in [Provider -> Row \cup {NoRow}]
  BY DEF Init
<1>5. edits \in 0..MaxEdits /\ faults \in 0..MaxFaults
  BY BoundAssumption DEF Init
<1>6. proofAge \in [Pair -> 0..TTL]
  BY TTLAssumption DEF Init
<1> QED BY <1>1, <1>2, <1>3, <1>4, <1>5, <1>6 DEF Init, TypeOK

LEMMA TypeStep == TypeOK /\ [AttNext]_attVars => TypeOK'
<1> SUFFICES ASSUME TypeOK, [AttNext]_attVars PROVE TypeOK'
  OBVIOUS
<1> USE RowAssumption, BoundAssumption, TTLAssumption
<1>1. CASE BeginSweep
  BY <1>1 DEF BeginSweep, Wake, TypeOK, table
<1>2. CASE ListFails
  <2>1. faults' \in 0..MaxFaults
    BY <1>2 DEF ListFails, TypeOK
  <2>2. refresh' \in BOOLEAN /\ due' \in BOOLEAN
    BY <1>2 DEF ListFails, Wake, TypeOK
  <2> QED BY <1>2, <2>1, <2>2 DEF ListFails, TypeOK, table, progress
<1>3. ASSUME NEW p \in Provider, TakeProvider(p) PROVE TypeOK'
  <2>1. snapshot[p] \in Row
    BY <1>3 DEF TakeProvider, TypeOK
  <2>2. jobs' \subseteq Route
    <3>1. ASSUME NEW m \in SweptModels(p)
          PROVE  [provider |-> p, model |-> m, row |-> snapshot[p]] \in Route
      <4>1. m \in Model
        BY DEF SweptModels
      <4> QED BY <2>1, <4>1 DEF Route
    <3>2. jobs' = {[provider |-> p, model |-> m, row |-> snapshot[p]] : m \in SweptModels(p)}
      BY <1>3 DEF TakeProvider
    <3> QED BY <3>1, <3>2
  <2> QED BY <1>3, <2>2 DEF TakeProvider, TypeOK, table
<1>4. ASSUME NEW p \in Provider, SkipProvider(p) PROVE TypeOK'
  BY <1>4 DEF SkipProvider, TypeOK, table
<1>5. CASE EndSweep
  BY <1>5 DEF EndSweep, TypeOK, table, progress
<1>6. CASE TakeModel
  BY <1>6 DEF TakeModel, JobsAfter, TypeOK, table
<1>7. CASE AcceptEvidence
  <2>1. job \in Route /\ job.row \in Row /\ JobPair \in Pair
    BY <1>7 DEF AcceptEvidence, TypeOK, Route, JobPair, Pair
  <2>2. draft' \in Verdict
    BY <1>7, <2>1, EvidenceType DEF AcceptEvidence, Verdict, Evidence
  <2> QED BY <1>7, <2>1, <2>2 DEF AcceptEvidence, TypeOK, table
<1>8. CASE RejectEvidence
  BY <1>8 DEF RejectEvidence, Return, TypeOK, table
<1>9. CASE EvidenceUnreachable
  <2>1. job.row.host \in Host /\ JobPair \in Pair
    BY <1>9 DEF EvidenceUnreachable, TypeOK, Route, Row, JobPair, Pair
  <2>2. verdicts' \in [Pair -> Verdict \cup {NoVerdict}]
    BY <1>9, <2>1, FailedType DEF EvidenceUnreachable, KeptOrFailed, TypeOK
  <2> QED BY <1>9, <2>2 DEF EvidenceUnreachable, Return, TypeOK, table
<1>10. CASE UnreachableAndUnknown
  BY <1>10 DEF UnreachableAndUnknown, Return, TypeOK, table
<1>11. CASE StoreVerdict
  BY <1>11 DEF StoreVerdict, Return, TypeOK, table, JobPair, Route, Pair
<1>12. CASE StoreFails
  BY <1>12 DEF StoreFails, Return, TypeOK, table
<1>13. CASE CacheClient
  BY <1>13 DEF CacheClient, Cached, Return, TypeOK, table, Verdict
<1>14. CASE TriggerRefresh
  BY <1>14 DEF TriggerRefresh, Pushed, TypeOK, table, progress
<1>15. ASSUME NEW p \in Provider, NEW row \in AdminRow, UpsertProvider(p, row) PROVE TypeOK'
  BY <1>15 DEF UpsertProvider, TypeOK, progress
<1>16. ASSUME NEW p \in Provider, NEW m \in Model, UpsertProviderModel(p, m) PROVE TypeOK'
  BY <1>16 DEF UpsertProviderModel, TypeOK, progress, Pair
<1>17. CASE TickerFires
  BY <1>17 DEF TickerFires, TypeOK, table, progress
<1>18. CASE Tick
  <2>1. ASSUME NEW v \in Verdict \cup {NoVerdict} PROVE Aged(v) \in Verdict \cup {NoVerdict}
    BY <2>1, AgedVerdict, AgedNoVerdict
  <2>2. verdicts' \in [Pair -> Verdict \cup {NoVerdict}]
    BY <1>18, <2>1 DEF Tick, TypeOK
  <2>3. draft' \in Verdict \cup {NoVerdict} /\ (draft \in Verdict => draft' \in Verdict)
    BY <1>18, <2>1, AgedVerdict DEF Tick, TypeOK
  <2>4. proofAge' \in [Pair -> 0..TTL]
    BY <1>18 DEF Tick, TypeOK
  <2> QED BY <1>18, <2>2, <2>3, <2>4 DEF Tick, TypeOK, table
<1>19. CASE Crash
  <2>1. clients' \in [Pair -> Client \cup {NoClient}]
    BY <1>19 DEF Crash
  <2>2. snapshot' \in [Provider -> Row \cup {NoRow}]
    BY <1>19 DEF Crash
  <2>3. faults' \in 0..MaxFaults
    BY <1>19 DEF Crash, TypeOK
  <2> QED BY <1>19, <2>1, <2>2, <2>3 DEF Crash, TypeOK, table
<1>20. CASE Restart
  BY <1>20 DEF Restart, TypeOK, progress
<1>21. CASE UNCHANGED attVars
  BY <1>21 DEF attVars, TypeOK
<1> QED BY <1>1, <1>2, <1>3, <1>4, <1>5, <1>6, <1>7, <1>8, <1>9, <1>10, <1>11, <1>12,
           <1>13, <1>14, <1>15, <1>16, <1>17, <1>18, <1>19, <1>20, <1>21
        DEF AttNext, SweeperStep, AdminStep

\* Every reachable state is well typed: the sweeper has a pair and a verdict in
\* hand whenever its position says so, and no bound is ever exceeded.
THEOREM TypeCorrect == Spec => []TypeOK
BY TypeInit, TypeStep, PTL DEF Spec

-----------------------------------------------------------------------------
(***************************************************************************)
(* FreshEvidence. What a verdict has left says nothing of a step that      *)
(* copies the draft into the table, so the bound is kept for the draft as  *)
(* well, from the moment its evidence is accepted.                         *)
(***************************************************************************)

FreshInv ==
  /\ \A pr \in Pair :
       verdicts[pr] # NoVerdict /\ verdicts[pr].left > 0
         => verdicts[pr].left + proofAge[pr] <= TTL
  /\ sweeper \in {"store", "cache"} /\ draft.left > 0
       => draft.left + proofAge[JobPair] <= TTL

LEMMA FreshStep == TypeOK /\ FreshInv /\ [AttNext]_attVars => FreshInv'
<1> SUFFICES ASSUME TypeOK, FreshInv, [AttNext]_attVars PROVE FreshInv'
  OBVIOUS
<1> DEFINE Quiet ==
      /\ verdicts' = verdicts /\ proofAge' = proofAge
      /\ \/ sweeper' \notin {"store", "cache"}
         \/ sweeper' = sweeper /\ draft' = draft /\ job' = job
<1>0. Quiet => FreshInv'
  BY DEF FreshInv, JobPair
<1> HIDE DEF Quiet
<1>1. CASE BeginSweep
  BY <1>0, <1>1 DEF BeginSweep, Quiet
<1>2. CASE ListFails
  BY <1>0, <1>2 DEF ListFails, Quiet
<1>3. ASSUME NEW p \in Provider, TakeProvider(p) PROVE FreshInv'
  BY <1>0, <1>3 DEF TakeProvider, Quiet
<1>4. ASSUME NEW p \in Provider, SkipProvider(p) PROVE FreshInv'
  BY <1>0, <1>4 DEF SkipProvider, Quiet
<1>5. CASE EndSweep
  BY <1>0, <1>5 DEF EndSweep, Quiet
<1>6. CASE TakeModel
  BY <1>0, <1>6 DEF TakeModel, Quiet
<1>7. CASE AcceptEvidence
  <2>1. JobPair \in Pair
    BY <1>7 DEF AcceptEvidence, TypeOK, Route, JobPair, Pair
  <2>2. draft'.left = TTL /\ JobPair' = JobPair /\ verdicts' = verdicts
    BY <1>7 DEF AcceptEvidence, JobPair
  <2>3. /\ proofAge'[JobPair] = 0
        /\ \A pr \in Pair : pr # JobPair => proofAge'[pr] = proofAge[pr]
    BY <1>7, <2>1 DEF AcceptEvidence, TypeOK
  <2>4. \A pr \in Pair : verdicts[pr] # NoVerdict => verdicts[pr].left \in 0..TTL
    BY DEF TypeOK, Verdict
  <2>5. ASSUME NEW pr \in Pair, verdicts'[pr] # NoVerdict, verdicts'[pr].left > 0
        PROVE  verdicts'[pr].left + proofAge'[pr] <= TTL
    BY <2>2, <2>3, <2>4, <2>5, TTLAssumption DEF FreshInv
  <2> QED BY <2>2, <2>3, <2>5, TTLAssumption DEF FreshInv
<1>8. CASE RejectEvidence
  BY <1>0, <1>8 DEF RejectEvidence, Return, Quiet
<1>9. CASE EvidenceUnreachable
  <2>1. \A pr \in Pair : verdicts'[pr] = verdicts[pr] \/ verdicts'[pr].left = 0
    BY <1>9 DEF EvidenceUnreachable, KeptOrFailed, Failed, TypeOK
  <2>2. proofAge' = proofAge /\ sweeper' = "next"
    BY <1>9 DEF EvidenceUnreachable, Return
  <2> QED BY <2>1, <2>2 DEF FreshInv
<1>10. CASE UnreachableAndUnknown
  BY <1>0, <1>10 DEF UnreachableAndUnknown, Return, Quiet
<1>11. CASE StoreVerdict
  <2>1. \A pr \in Pair : verdicts'[pr] = IF pr = JobPair THEN draft ELSE verdicts[pr]
    BY <1>11 DEF StoreVerdict, TypeOK
  <2>2. proofAge' = proofAge /\ sweeper = "store"
    BY <1>11 DEF StoreVerdict
  <2>3. sweeper' = "next" \/ (sweeper' = "cache" /\ draft' = draft /\ job' = job)
    BY <1>11 DEF StoreVerdict, Return
  <2>4. sweeper' = "cache" => JobPair' = JobPair
    BY <2>3 DEF JobPair
  <2> QED BY <2>1, <2>2, <2>3, <2>4 DEF FreshInv
<1>12. CASE StoreFails
  BY <1>0, <1>12 DEF StoreFails, Return, Quiet
<1>13. CASE CacheClient
  BY <1>0, <1>13 DEF CacheClient, Return, Quiet
<1>14. CASE TriggerRefresh
  BY <1>0, <1>14 DEF TriggerRefresh, progress, Quiet
<1>15. ASSUME NEW p \in Provider, NEW row \in AdminRow, UpsertProvider(p, row)
       PROVE  FreshInv'
  BY <1>0, <1>15 DEF UpsertProvider, progress, Quiet
<1>16. ASSUME NEW p \in Provider, NEW m \in Model, UpsertProviderModel(p, m)
       PROVE  FreshInv'
  BY <1>0, <1>16 DEF UpsertProviderModel, progress, Quiet
<1>17. CASE TickerFires
  BY <1>0, <1>17 DEF TickerFires, progress, Quiet
<1>18. CASE Tick
  <2>1. \A pr \in Pair : proofAge'[pr] <= proofAge[pr] + 1 /\ proofAge[pr] \in 0..TTL
                         /\ proofAge'[pr] \in 0..TTL
    BY <1>18, TTLAssumption DEF Tick, TypeOK
  <2>2. ASSUME NEW pr \in Pair, verdicts'[pr] # NoVerdict, verdicts'[pr].left > 0
        PROVE  verdicts'[pr].left + proofAge'[pr] <= TTL
    <3>1. verdicts'[pr] = Aged(verdicts[pr])
      BY <1>18 DEF Tick
    <3>2. verdicts[pr] \in Verdict
      BY <2>2, <3>1, AgedNoVerdict DEF TypeOK
    <3>3. verdicts[pr].left \in 0..TTL /\ verdicts[pr].left > 0
      BY <2>2, <3>1, <3>2, AgedVerdict, TTLAssumption DEF Verdict
    <3>4. verdicts'[pr].left = verdicts[pr].left - 1
      BY <3>1, <3>2, <3>3, AgedVerdict
    <3>5. verdicts[pr].left + proofAge[pr] <= TTL
      BY <3>2, <3>3, NothingAssumption DEF FreshInv
    <3> QED BY <2>1, <3>3, <3>4, <3>5, TTLAssumption
  <2>3. ASSUME sweeper' \in {"store", "cache"}, draft'.left > 0
        PROVE  draft'.left + proofAge'[JobPair'] <= TTL
    <3>1. /\ sweeper \in {"store", "cache"} /\ job' = job
          /\ draft' = Aged(draft) /\ draft \in Verdict /\ job \in Route
      BY <1>18, <2>3 DEF Tick, TypeOK
    <3>2. JobPair' = JobPair /\ JobPair \in Pair
      BY <3>1 DEF JobPair, Route, Pair
    <3>3. draft.left \in 0..TTL /\ draft.left > 0
      BY <2>3, <3>1, AgedVerdict, TTLAssumption DEF Verdict
    <3>4. draft'.left = draft.left - 1
      BY <3>1, <3>3, AgedVerdict
    <3>5. draft.left + proofAge[JobPair] <= TTL
      BY <3>1, <3>3 DEF FreshInv
    <3> QED BY <2>1, <3>2, <3>3, <3>4, <3>5, TTLAssumption
  <2> QED BY <2>2, <2>3 DEF FreshInv
<1>19. CASE Crash
  BY <1>0, <1>19 DEF Crash, Quiet
<1>20. CASE Restart
  BY <1>0, <1>20 DEF Restart, progress, Quiet
<1>21. CASE UNCHANGED attVars
  BY <1>0, <1>21 DEF attVars, Quiet
<1> QED BY <1>1, <1>2, <1>3, <1>4, <1>5, <1>6, <1>7, <1>8, <1>9, <1>10, <1>11, <1>12,
           <1>13, <1>14, <1>15, <1>16, <1>17, <1>18, <1>19, <1>20, <1>21
        DEF AttNext, SweeperStep, AdminStep

\* Whatever the TTL and however verifications, faults and crashes interleave,
\* what is left of a live verdict and the age of its evidence are within it.
THEOREM EvidenceIsFresh == Spec => []FreshEvidence
<1>1. Init => FreshInv
  BY DEF Init, FreshInv
<1>2. FreshInv => FreshEvidence
  BY DEF FreshInv, FreshEvidence, Live
<1> QED BY <1>1, <1>2, TypeCorrect, FreshStep, PTL DEF Spec

-----------------------------------------------------------------------------
(***************************************************************************)
(* OnlyEligibleJudged. The pairs in the sweeper's hands were offered and   *)
(* eligible when they were listed, and no offer is ever taken back.        *)
(***************************************************************************)

Judgeable == offers \cap Eligible

JudgedInv ==
  /\ OnlyEligibleJudged
  /\ \A j \in jobs : <<j.provider, j.model>> \in Judgeable
  /\ sweeper \in {"verify", "store", "cache"} => JobPair \in Judgeable

LEMMA JudgedStep == TypeOK /\ JudgedInv /\ [AttNext]_attVars => JudgedInv'
<1> SUFFICES ASSUME TypeOK, JudgedInv, [AttNext]_attVars PROVE JudgedInv'
  OBVIOUS
<1> DEFINE Quiet ==
      /\ verdicts' = verdicts /\ offers \subseteq offers' /\ jobs' \subseteq jobs
      /\ \/ sweeper' \notin {"verify", "store", "cache"}
         \/ sweeper \in {"verify", "store", "cache"} /\ job' = job
<1>0. Quiet => JudgedInv'
  BY DEF JudgedInv, OnlyEligibleJudged, Judgeable, JobPair
<1> HIDE DEF Quiet
<1>1. CASE BeginSweep
  BY <1>0, <1>1 DEF BeginSweep, table, Quiet
<1>2. CASE ListFails
  BY <1>0, <1>2 DEF ListFails, table, progress, Quiet
<1>3. ASSUME NEW p \in Provider, TakeProvider(p) PROVE JudgedInv'
  <2>1. \A j \in jobs' : \E m \in SweptModels(p) : j.provider = p /\ j.model = m
    BY <1>3 DEF TakeProvider
  <2>2. \A j \in jobs' : <<j.provider, j.model>> \in Judgeable
    BY <2>1 DEF SweptModels, Judgeable
  <2> QED BY <1>3, <2>2 DEF TakeProvider, table, JudgedInv, OnlyEligibleJudged, Judgeable
<1>4. ASSUME NEW p \in Provider, SkipProvider(p) PROVE JudgedInv'
  BY <1>0, <1>4 DEF SkipProvider, table, Quiet
<1>5. CASE EndSweep
  BY <1>0, <1>5 DEF EndSweep, table, progress, Quiet
<1>6. CASE TakeModel
  <2>1. job' \in jobs /\ jobs' \subseteq jobs
    BY <1>6 DEF TakeModel, JobsAfter
  <2>2. JobPair' \in Judgeable
    BY <2>1 DEF JudgedInv, JobPair
  <2> QED BY <1>6, <2>1, <2>2
          DEF TakeModel, table, JudgedInv, OnlyEligibleJudged, Judgeable
<1>7. CASE AcceptEvidence
  BY <1>0, <1>7 DEF AcceptEvidence, table, Quiet
<1>8. CASE RejectEvidence
  BY <1>0, <1>8 DEF RejectEvidence, Return, table, Quiet
<1>9. CASE EvidenceUnreachable
  <2>1. \A pr \in Pair : verdicts'[pr] = verdicts[pr] \/ pr = JobPair
    BY <1>9 DEF EvidenceUnreachable, KeptOrFailed, TypeOK
  <2>2. JobPair \in Judgeable
    BY <1>9 DEF EvidenceUnreachable, JudgedInv
  <2> QED BY <1>9, <2>1, <2>2
          DEF EvidenceUnreachable, Return, table, JudgedInv, OnlyEligibleJudged, Judgeable
<1>10. CASE UnreachableAndUnknown
  BY <1>0, <1>10 DEF UnreachableAndUnknown, Return, table, Quiet
<1>11. CASE StoreVerdict
  <2>1. \A pr \in Pair : verdicts'[pr] = verdicts[pr] \/ pr = JobPair
    BY <1>11 DEF StoreVerdict, TypeOK
  <2>2. JobPair \in Judgeable
    BY <1>11 DEF StoreVerdict, JudgedInv
  <2>3. sweeper' = "next" \/ JobPair' = JobPair
    BY <1>11 DEF StoreVerdict, Return, JobPair
  <2> QED BY <1>11, <2>1, <2>2, <2>3
          DEF StoreVerdict, table, JudgedInv, OnlyEligibleJudged, Judgeable
<1>12. CASE StoreFails
  BY <1>0, <1>12 DEF StoreFails, Return, table, Quiet
<1>13. CASE CacheClient
  BY <1>0, <1>13 DEF CacheClient, Return, table, Quiet
<1>14. CASE TriggerRefresh
  BY <1>0, <1>14 DEF TriggerRefresh, table, progress, Quiet
<1>15. ASSUME NEW p \in Provider, NEW row \in AdminRow, UpsertProvider(p, row)
       PROVE  JudgedInv'
  BY <1>0, <1>15 DEF UpsertProvider, progress, Quiet
<1>16. ASSUME NEW p \in Provider, NEW m \in Model, UpsertProviderModel(p, m)
       PROVE  JudgedInv'
  BY <1>0, <1>16 DEF UpsertProviderModel, progress, Quiet
<1>17. CASE TickerFires
  BY <1>0, <1>17 DEF TickerFires, table, progress, Quiet
<1>18. CASE Tick
  <2>1. \A pr \in Pair : verdicts'[pr] # NoVerdict => verdicts[pr] # NoVerdict
    BY <1>18, AgedNoVerdict DEF Tick
  <2> QED BY <1>18, <2>1 DEF Tick, table, JudgedInv, OnlyEligibleJudged, Judgeable, JobPair
<1>19. CASE Crash
  BY <1>0, <1>19 DEF Crash, table, Quiet
<1>20. CASE Restart
  BY <1>0, <1>20 DEF Restart, progress, Quiet
<1>21. CASE UNCHANGED attVars
  BY <1>0, <1>21 DEF attVars, Quiet
<1> QED BY <1>1, <1>2, <1>3, <1>4, <1>5, <1>6, <1>7, <1>8, <1>9, <1>10, <1>11, <1>12,
           <1>13, <1>14, <1>15, <1>16, <1>17, <1>18, <1>19, <1>20, <1>21
        DEF AttNext, SweeperStep, AdminStep

LEMMA JudgedAlways == Spec => []JudgedInv
<1>1. Init => JudgedInv
  BY DEF Init, JudgedInv, OnlyEligibleJudged
<1> QED BY <1>1, TypeCorrect, JudgedStep, PTL DEF Spec

\* No verdict, live or failed, is ever given on a pair that is not offered or
\* that the model policy keeps out.
THEOREM JudgesOnlyEligible == Spec => []OnlyEligibleJudged
<1>1. JudgedInv => OnlyEligibleJudged
  BY DEF JudgedInv
<1> QED BY <1>1, JudgedAlways, PTL

-----------------------------------------------------------------------------
(***************************************************************************)
(* ClientAgreesWithVerdict. Between its two writes the sweeper still holds *)
(* the verdict it stored, aged as much as the stored one.                  *)
(***************************************************************************)

AgreementInv ==
  /\ ClientAgreesWithVerdict
  /\ sweeper = "cache" => verdicts[JobPair] = draft

LEMMA AgreementStep == TypeOK /\ AgreementInv /\ [AttNext]_attVars => AgreementInv'
<1> SUFFICES ASSUME TypeOK, AgreementInv, [AttNext]_attVars PROVE AgreementInv'
  OBVIOUS
<1> DEFINE Quiet ==
      /\ verdicts' = verdicts /\ clients' = clients
      /\ \/ sweeper' # "cache" /\ sweeper # "cache"
         \/ sweeper' = sweeper /\ draft' = draft /\ job' = job
<1>0. Quiet => AgreementInv'
  BY DEF AgreementInv, ClientAgreesWithVerdict, Live, JobPair
<1> HIDE DEF Quiet
<1>1. CASE BeginSweep
  BY <1>0, <1>1 DEF BeginSweep, Wake, Quiet
<1>2. CASE ListFails
  BY <1>0, <1>2 DEF ListFails, Wake, Quiet
<1>3. ASSUME NEW p \in Provider, TakeProvider(p) PROVE AgreementInv'
  BY <1>0, <1>3 DEF TakeProvider, Quiet
<1>4. ASSUME NEW p \in Provider, SkipProvider(p) PROVE AgreementInv'
  BY <1>0, <1>4 DEF SkipProvider, Quiet
<1>5. CASE EndSweep
  BY <1>0, <1>5 DEF EndSweep, Quiet
<1>6. CASE TakeModel
  BY <1>0, <1>6 DEF TakeModel, Quiet
<1>7. CASE AcceptEvidence
  BY <1>0, <1>7 DEF AcceptEvidence, Quiet
<1>8. CASE RejectEvidence
  BY <1>0, <1>8 DEF RejectEvidence, Return, Quiet
<1>9. CASE EvidenceUnreachable
  <2>1. \A pr \in Pair : verdicts'[pr] = verdicts[pr] \/ ~Live(pr)'
    BY <1>9 DEF EvidenceUnreachable, KeptOrFailed, Failed, Live, TypeOK
  <2>2. clients' = clients /\ sweeper = "verify" /\ sweeper' = "next"
    BY <1>9 DEF EvidenceUnreachable, Return
  <2> QED BY <2>1, <2>2 DEF AgreementInv, ClientAgreesWithVerdict, Live
<1>10. CASE UnreachableAndUnknown
  BY <1>0, <1>10 DEF UnreachableAndUnknown, Return, Quiet
<1>11. CASE StoreVerdict
  <2>1. \A pr \in Pair : verdicts'[pr] = IF pr = JobPair THEN draft ELSE verdicts[pr]
    BY <1>11 DEF StoreVerdict, TypeOK
  <2>2. clients' = clients /\ sweeper = "store"
    BY <1>11 DEF StoreVerdict
  <2>3. CASE draft.client = NoClient
    <3>1. sweeper' = "next"
      BY <1>11, <2>3 DEF StoreVerdict, Return
    <3> QED BY <2>1, <2>2, <2>3, <3>1 DEF AgreementInv, ClientAgreesWithVerdict, Live
  <2>4. CASE draft.client # NoClient
    <3>1. sweeper' = "cache" /\ draft' = draft /\ job' = job
      BY <1>11, <2>4 DEF StoreVerdict
    <3>2. JobPair' = JobPair /\ JobPair \in Pair
      BY <1>11, <3>1 DEF StoreVerdict, TypeOK, Route, JobPair, Pair
    <3> QED BY <2>1, <2>2, <3>1, <3>2 DEF AgreementInv, ClientAgreesWithVerdict, Live
  <2> QED BY <2>3, <2>4
<1>12. CASE StoreFails
  BY <1>0, <1>12 DEF StoreFails, Return, Quiet
<1>13. CASE CacheClient
  <2>1. \A pr \in Pair : clients'[pr] = IF pr = JobPair THEN draft.client ELSE clients[pr]
    BY <1>13 DEF CacheClient, Cached, TypeOK
  <2>2. verdicts' = verdicts /\ sweeper' = "next" /\ verdicts[JobPair] = draft
    BY <1>13 DEF CacheClient, Return, AgreementInv
  <2> QED BY <2>1, <2>2 DEF AgreementInv, ClientAgreesWithVerdict, Live
<1>14. CASE TriggerRefresh
  BY <1>0, <1>14 DEF TriggerRefresh, progress, Quiet
<1>15. ASSUME NEW p \in Provider, NEW row \in AdminRow, UpsertProvider(p, row)
       PROVE  AgreementInv'
  BY <1>0, <1>15 DEF UpsertProvider, progress, Quiet
<1>16. ASSUME NEW p \in Provider, NEW m \in Model, UpsertProviderModel(p, m)
       PROVE  AgreementInv'
  BY <1>0, <1>16 DEF UpsertProviderModel, progress, Quiet
<1>17. CASE TickerFires
  BY <1>0, <1>17 DEF TickerFires, progress, Quiet
<1>18. CASE Tick
  <2>1. ASSUME NEW pr \in Pair, Live(pr)'
        PROVE  Live(pr) /\ verdicts'[pr].client = verdicts[pr].client
    <3>1. verdicts'[pr] = Aged(verdicts[pr])
      BY <1>18 DEF Tick
    <3>2. verdicts[pr] \in Verdict
      BY <2>1, <3>1, AgedNoVerdict DEF TypeOK, Live
    <3>3. verdicts[pr].left > 0
      BY <2>1, <3>1, <3>2, AgedVerdict, TTLAssumption DEF Live, Verdict
    <3> QED BY <2>1, <3>1, <3>2, <3>3, AgedVerdict, NothingAssumption DEF Live
  <2>2. sweeper = "cache" => JobPair \in Pair
    BY DEF TypeOK, Route, JobPair, Pair
  <2>3. sweeper = "cache" => verdicts'[JobPair] = draft'
    BY <1>18, <2>2 DEF Tick, AgreementInv
  <2>4. clients' = clients /\ sweeper' = sweeper /\ JobPair' = JobPair
    BY <1>18 DEF Tick, JobPair
  <2> QED BY <2>1, <2>3, <2>4 DEF AgreementInv, ClientAgreesWithVerdict
<1>19. CASE Crash
  BY <1>19 DEF Crash, AgreementInv, ClientAgreesWithVerdict
<1>20. CASE Restart
  BY <1>0, <1>20 DEF Restart, progress, Quiet
<1>21. CASE UNCHANGED attVars
  BY <1>0, <1>21 DEF attVars, Quiet
<1> QED BY <1>1, <1>2, <1>3, <1>4, <1>5, <1>6, <1>7, <1>8, <1>9, <1>10, <1>11, <1>12,
           <1>13, <1>14, <1>15, <1>16, <1>17, <1>18, <1>19, <1>20, <1>21
        DEF AttNext, SweeperStep, AdminStep

LEMMA AgreementAlways == Spec => []AgreementInv
<1>1. Init => AgreementInv
  BY DEF Init, AgreementInv, ClientAgreesWithVerdict, Live
<1> QED BY <1>1, TypeCorrect, AgreementStep, PTL DEF Spec

\* A client found in the cache beside a live verdict is the verified one, or
\* its replacement is the sweeper's very next write.
THEOREM CacheAgrees == Spec => []ClientAgreesWithVerdict
<1>1. AgreementInv => ClientAgreesWithVerdict
  BY DEF AgreementInv
<1> QED BY <1>1, AgreementAlways, PTL

-----------------------------------------------------------------------------
(***************************************************************************)
(* NoRefreshLost. It is inductive as it stands: the token and the request  *)
(* it answers come and go together.                                        *)
(***************************************************************************)

LEMMA RefreshStep == NoRefreshLost /\ [AttNext]_attVars => NoRefreshLost'
<1> SUFFICES ASSUME NoRefreshLost, [AttNext]_attVars PROVE NoRefreshLost'
  OBVIOUS
<1> USE DEF NoRefreshLost
<1>1. CASE BeginSweep \/ ListFails
  BY <1>1 DEF BeginSweep, ListFails
<1>2. ASSUME NEW p \in Provider, TakeProvider(p) \/ SkipProvider(p)
      PROVE  NoRefreshLost'
  BY <1>2 DEF TakeProvider, SkipProvider
<1>3. CASE EndSweep \/ TakeModel
  BY <1>3 DEF EndSweep, TakeModel
<1>4. CASE AcceptEvidence \/ RejectEvidence \/ EvidenceUnreachable \/ UnreachableAndUnknown
  BY <1>4 DEF AcceptEvidence, RejectEvidence, EvidenceUnreachable, UnreachableAndUnknown
<1>5. CASE StoreVerdict \/ StoreFails \/ CacheClient
  BY <1>5 DEF StoreVerdict, StoreFails, CacheClient
<1>6. CASE TriggerRefresh
  BY <1>6 DEF TriggerRefresh, Pushed
<1>7. ASSUME NEW p \in Provider, NEW row \in AdminRow, UpsertProvider(p, row)
      PROVE  NoRefreshLost'
  BY <1>7 DEF UpsertProvider
<1>8. ASSUME NEW p \in Provider, NEW m \in Model, UpsertProviderModel(p, m)
      PROVE  NoRefreshLost'
  BY <1>8 DEF UpsertProviderModel
<1>9. CASE TickerFires \/ Tick
  BY <1>9 DEF TickerFires, Tick
<1>10. CASE Crash \/ Restart
  BY <1>10 DEF Crash, Restart
<1>11. CASE UNCHANGED attVars
  BY <1>11 DEF attVars
<1> QED BY <1>1, <1>2, <1>3, <1>4, <1>5, <1>6, <1>7, <1>8, <1>9, <1>10, <1>11
        DEF AttNext, SweeperStep, AdminStep

\* A refresh asked for at any point of a sweep is still in the channel until a
\* sweep that began after it answers it.
THEOREM RefreshIsNotLost == Spec => []NoRefreshLost
<1>1. Init => NoRefreshLost
  BY DEF Init, NoRefreshLost
<1> QED BY <1>1, RefreshStep, PTL DEF Spec

-----------------------------------------------------------------------------
(***************************************************************************)
(* LiveVerdictRunsOut. A write that was delayed may store a verdict that   *)
(* has run out already; it cannot replace a live one, because the verdict  *)
(* in the table is never younger than the draft made out after it.         *)
(***************************************************************************)

DraftInv ==
  sweeper = "store" =>
    /\ draft.verified
    /\ verdicts[JobPair] # NoVerdict => verdicts[JobPair].left <= draft.left

LEMMA DraftStep == TypeOK /\ DraftInv /\ [AttNext]_attVars => DraftInv'
<1> SUFFICES ASSUME TypeOK, DraftInv, [AttNext]_attVars, sweeper' = "store"
             PROVE  /\ draft'.verified
                    /\ verdicts'[JobPair'] # NoVerdict
                         => verdicts'[JobPair'].left <= draft'.left
  BY DEF DraftInv
<1> DEFINE Quiet == /\ sweeper = "store" /\ verdicts' = verdicts
                    /\ draft' = draft /\ job' = job
<1>1. CASE AcceptEvidence
  <2>1. draft'.verified /\ draft'.left = TTL
    BY <1>1 DEF AcceptEvidence
  <2>2. JobPair' \in Pair /\ verdicts' = verdicts
    BY <1>1 DEF AcceptEvidence, TypeOK, Route, JobPair, Pair
  <2>3. verdicts'[JobPair'] # NoVerdict => verdicts'[JobPair'].left \in 0..TTL
    BY <2>2 DEF TypeOK, Verdict
  <2> QED BY <2>1, <2>3, TTLAssumption
<1>2. CASE Tick
  <2>1. sweeper = "store" /\ draft \in Verdict /\ JobPair \in Pair /\ JobPair' = JobPair
    BY <1>2 DEF Tick, TypeOK, Route, JobPair, Pair
  <2>2. draft' = Aged(draft) /\ verdicts'[JobPair] = Aged(verdicts[JobPair])
    BY <1>2, <2>1 DEF Tick
  <2>3. draft'.verified /\ draft.left \in 0..TTL
    BY <2>1, <2>2, AgedVerdict DEF DraftInv, Verdict
  <2>4. ASSUME verdicts'[JobPair] # NoVerdict
        PROVE  verdicts'[JobPair].left <= draft'.left
    <3>1. verdicts[JobPair] \in Verdict
      BY <2>1, <2>2, <2>4, AgedNoVerdict DEF TypeOK
    <3>2. verdicts[JobPair].left \in 0..TTL /\ verdicts[JobPair].left <= draft.left
      BY <2>1, <3>1, NothingAssumption DEF Verdict, DraftInv
    <3>3. CASE verdicts[JobPair].left = 0
      <4>1. verdicts'[JobPair].left = 0
        BY <2>2, <3>1, <3>3, AgedVerdict
      <4>2. draft'.left \in Nat
        BY <2>1, <2>2, AgedVerdict, TTLAssumption DEF Verdict
      <4> QED BY <4>1, <4>2
    <3>4. CASE verdicts[JobPair].left > 0
      <4>1. verdicts'[JobPair].left = verdicts[JobPair].left - 1
        BY <2>2, <3>1, <3>4, AgedVerdict
      <4>2. draft'.left = draft.left - 1
        BY <2>1, <2>2, <2>3, <3>2, <3>4, AgedVerdict, TTLAssumption
      <4> QED BY <4>1, <4>2, <2>3, <3>2, TTLAssumption
    <3> QED BY <3>2, <3>3, <3>4, TTLAssumption
  <2> QED BY <2>1, <2>3, <2>4
<1>3. Quiet => /\ draft'.verified
               /\ verdicts'[JobPair'] # NoVerdict
                    => verdicts'[JobPair'].left <= draft'.left
  BY DEF DraftInv, JobPair
<1>4. CASE AdminStep
  BY <1>3, <1>4 DEF AdminStep, TriggerRefresh, UpsertProvider, UpsertProviderModel, progress
<1>5. CASE TickerFires \/ Restart \/ UNCHANGED attVars
  BY <1>3, <1>5 DEF TickerFires, Restart, attVars, progress
<1>6. CASE Crash
  BY <1>6 DEF Crash
<1>7. CASE SweeperStep /\ ~AcceptEvidence
  BY <1>7 DEF SweeperStep, BeginSweep, ListFails, TakeProvider, SkipProvider, EndSweep,
              TakeModel, RejectEvidence, EvidenceUnreachable, UnreachableAndUnknown,
              StoreVerdict, StoreFails, CacheClient, Return
<1> QED BY <1>1, <1>2, <1>4, <1>5, <1>6, <1>7 DEF AttNext

LEMMA RunsOutStep ==
  TypeOK /\ DraftInv /\ [AttNext]_attVars
    => \A pr \in Pair : Live(pr) /\ ~Live(pr)' => verdicts[pr].left = 1
<1> SUFFICES ASSUME TypeOK, DraftInv, [AttNext]_attVars,
                    NEW pr \in Pair, Live(pr), ~Live(pr)'
             PROVE  verdicts[pr].left = 1
  OBVIOUS
<1>1. verdicts[pr] \in Verdict /\ verdicts[pr].left \in 0..TTL
  BY DEF Live, TypeOK, Verdict
<1>2. verdicts'[pr] # verdicts[pr]
  BY DEF Live
<1>3. CASE EvidenceUnreachable
  BY <1>2, <1>3 DEF EvidenceUnreachable, KeptOrFailed, TypeOK
<1>4. CASE StoreVerdict
  <2>1. verdicts'[pr] = draft /\ pr = JobPair /\ sweeper = "store"
    BY <1>2, <1>4 DEF StoreVerdict, TypeOK
  <2>2. draft \in Verdict /\ draft.verified /\ verdicts[pr].left <= draft.left
    BY <2>1 DEF DraftInv, Live, TypeOK
  <2>3. draft.left > 0
    BY <1>1, <2>2, TTLAssumption DEF Live, Verdict
  <2> QED BY <2>1, <2>2, <2>3, NothingAssumption DEF Live
<1>5. CASE Tick
  <2>1. verdicts'[pr] = Aged(verdicts[pr])
    BY <1>5 DEF Tick
  <2>2. /\ verdicts'[pr] # NoVerdict /\ verdicts'[pr].verified
        /\ verdicts'[pr].left = verdicts[pr].left - 1
    BY <1>1, <2>1, AgedVerdict, NothingAssumption DEF Live
  <2> QED BY <1>1, <2>2, TTLAssumption DEF Live
<1>6. CASE AdminStep \/ TickerFires \/ Crash \/ Restart \/ UNCHANGED attVars
  BY <1>2, <1>6 DEF AdminStep, TriggerRefresh, UpsertProvider, UpsertProviderModel,
                    TickerFires, Crash, Restart, attVars
<1>7. CASE SweeperStep /\ ~EvidenceUnreachable /\ ~StoreVerdict
  BY <1>2, <1>7 DEF SweeperStep, BeginSweep, ListFails, TakeProvider, SkipProvider,
                    EndSweep, TakeModel, AcceptEvidence, RejectEvidence,
                    UnreachableAndUnknown, StoreFails, CacheClient
<1> QED BY <1>3, <1>4, <1>5, <1>6, <1>7 DEF AttNext

\* Nothing but time ends a live verdict: no unreachable verifier, delayed write,
\* edit of its provider or crash takes it from the requests that rely on it.
THEOREM OnlyTimeEndsVerdicts == Spec => LiveVerdictRunsOut
<1>1. Init => DraftInv
  BY DEF Init, DraftInv
<1>2. TypeOK /\ DraftInv /\ [AttNext]_attVars
        => [\A pr \in Pair : Live(pr) /\ ~Live(pr)' => verdicts[pr].left = 1]_attVars
  BY RunsOutStep
<1> QED BY <1>1, <1>2, TypeCorrect, DraftStep, PTL DEF Spec, LiveVerdictRunsOut

-----------------------------------------------------------------------------
(***************************************************************************)
(* The attestation service implements Registry, the view the request       *)
(* handlers have of it: every step of the sweep, of the clock, of the      *)
(* administrators and of the process is a step of Registry or none.        *)
(***************************************************************************)

-----------------------------------------------------------------------------
(***************************************************************************)
(* What the sweeper works on is out of date by at most the edits made.     *)
(***************************************************************************)

\* The rows a listing of the provider may hold.
Listable(p) == IF edits = 0 THEN {ConfigRow[p]} \ {NoRow} ELSE KnownRows(p)

Listed(p, row) == row \in Listable(p) /\ Swept(row)

RowsInv ==
  /\ edits = 0 => providers = ConfigRow
  /\ \A p \in Provider : snapshot[p] # NoRow => Listed(p, snapshot[p])
  /\ \A j \in jobs : Listed(j.provider, j.row)
  /\ sweeper \in {"verify", "store", "cache"} => Listed(job.provider, job.row)

EvidenceInv ==
  /\ sweeper \in {"store", "cache"} =>
       /\ draft.verified
       /\ [host |-> draft.host, client |-> draft.client] \in EvidenceOf(job.row)
  /\ sweeper = "cache" => draft.client # NoClient

RefInv == RowsInv /\ EvidenceInv

\* What is listed stays listable when rows are edited, since an edit only
\* widens what a provider can ever have had.
LEMMA ListableGrows ==
  ASSUME edits \in Nat, edits' \in Nat, edits' >= edits, NEW p \in Provider
  PROVE  Listable(p) \subseteq Listable(p)'
BY DEF Listable, KnownRows

\* A provider's present row is one a sweep may list.
LEMMA PresentRowListable ==
  ASSUME RowsInv, NEW p \in Provider, providers[p] # NoRow,
         edits = 0 \/ providers[p] \in KnownRows(p)
  PROVE  providers[p] \in Listable(p)
BY DEF RowsInv, Listable

KnownInv == \A p \in Provider : providers[p] # NoRow => providers[p] \in KnownRows(p)

LEMMA KnownStep == TypeOK /\ KnownInv /\ [AttNext]_attVars => KnownInv'
<1> SUFFICES ASSUME TypeOK, KnownInv, [AttNext]_attVars PROVE KnownInv'
  OBVIOUS
<1>1. ASSUME NEW p \in Provider, NEW row \in AdminRow, UpsertProvider(p, row)
      PROVE  KnownInv'
  BY <1>1 DEF UpsertProvider, KnownInv, KnownRows, TypeOK
<1>2. CASE Restart
  BY <1>2 DEF Restart, KnownInv, KnownRows
<1>3. CASE UNCHANGED providers
  BY <1>3 DEF KnownInv
<1>4. CASE TriggerRefresh \/ TickerFires \/ Tick \/ Crash \/ UNCHANGED attVars
  BY <1>3, <1>4 DEF TriggerRefresh, TickerFires, Tick, Crash, attVars, table
<1>5. ASSUME NEW p \in Provider, NEW m \in Model, UpsertProviderModel(p, m)
      PROVE  KnownInv'
  BY <1>3, <1>5 DEF UpsertProviderModel
<1>6. CASE SweeperStep
  BY <1>3, <1>6 DEF SweeperStep, BeginSweep, ListFails, TakeProvider, SkipProvider, EndSweep,
        TakeModel, AcceptEvidence, RejectEvidence, EvidenceUnreachable,
        UnreachableAndUnknown, StoreVerdict, StoreFails, CacheClient, table
<1> QED BY <1>1, <1>2, <1>4, <1>5, <1>6 DEF AttNext, AdminStep

LEMMA RowsStep == TypeOK /\ KnownInv /\ RowsInv /\ [AttNext]_attVars => RowsInv'
<1> SUFFICES ASSUME TypeOK, KnownInv, RowsInv, [AttNext]_attVars PROVE RowsInv'
  OBVIOUS
<1> DEFINE Quiet ==
      /\ providers' = providers /\ edits' = edits
      /\ \A p \in Provider : snapshot'[p] \in {snapshot[p], NoRow}
      /\ jobs' \subseteq jobs
      /\ \/ sweeper' \notin {"verify", "store", "cache"}
         \/ sweeper \in {"verify", "store", "cache"} /\ job' = job
<1>0. Quiet => RowsInv'
  BY DEF RowsInv, Listed, Listable
<1> HIDE DEF Quiet
<1>1. CASE BeginSweep
  <2>1. \A p \in Provider : snapshot'[p] # NoRow =>
          snapshot'[p] = providers[p] /\ providers[p] # NoRow /\ Swept(providers[p])
    BY <1>1 DEF BeginSweep
  <2>2. \A p \in Provider : snapshot'[p] # NoRow => Listed(p, snapshot'[p])
    BY <2>1, PresentRowListable DEF KnownInv, Listed
  <2> QED BY <1>1, <2>2 DEF BeginSweep, table, RowsInv, Listed, Listable
<1>2. CASE ListFails
  BY <1>0, <1>2 DEF ListFails, table, progress, Quiet
<1>3. ASSUME NEW p \in Provider, TakeProvider(p) PROVE RowsInv'
  <2>1. \A j \in jobs' : j.provider = p /\ j.row = snapshot[p]
    BY <1>3 DEF TakeProvider
  <2>2. Listed(p, snapshot[p])
    BY <1>3 DEF TakeProvider, RowsInv
  <2>3. \A q \in Provider : snapshot'[q] \in {snapshot[q], NoRow}
    BY <1>3 DEF TakeProvider, TypeOK
  <2> QED BY <1>3, <2>1, <2>2, <2>3
          DEF TakeProvider, table, RowsInv, Listed, Listable
<1>4. ASSUME NEW p \in Provider, SkipProvider(p) PROVE RowsInv'
  BY <1>0, <1>4 DEF SkipProvider, table, TypeOK, Quiet
<1>5. CASE EndSweep
  BY <1>0, <1>5 DEF EndSweep, table, progress, Quiet
<1>6. CASE TakeModel
  BY <1>6 DEF TakeModel, JobsAfter, table, RowsInv, Listed, Listable
<1>7. CASE AcceptEvidence
  BY <1>0, <1>7 DEF AcceptEvidence, table, Quiet
<1>8. CASE RejectEvidence \/ EvidenceUnreachable \/ UnreachableAndUnknown
  BY <1>0, <1>8 DEF RejectEvidence, EvidenceUnreachable, UnreachableAndUnknown, Return,
                    table, Quiet
<1>9. CASE StoreVerdict
  BY <1>0, <1>9 DEF StoreVerdict, Return, table, Quiet
<1>10. CASE StoreFails \/ CacheClient
  BY <1>0, <1>10 DEF StoreFails, CacheClient, Return, table, Quiet
<1>11. CASE TriggerRefresh \/ TickerFires
  BY <1>0, <1>11 DEF TriggerRefresh, TickerFires, table, progress, Quiet
<1>12. ASSUME NEW p \in Provider, NEW row \in AdminRow, UpsertProvider(p, row)
       PROVE  RowsInv'
  <2>1. edits \in Nat /\ edits' = edits + 1
    BY <1>12, BoundAssumption DEF UpsertProvider, TypeOK
  <2>2. \A q \in Provider : \A r : Listed(q, r) => Listed(q, r)'
    BY <2>1, ListableGrows DEF Listed
  <2>3. UNCHANGED <<snapshot, jobs, job, sweeper>>
    BY <1>12 DEF UpsertProvider, progress
  <2>4. \A j \in jobs : j.provider \in Provider
    BY DEF TypeOK, Route
  <2>5. sweeper \in {"verify", "store", "cache"} => job.provider \in Provider
    BY DEF TypeOK, Route
  <2> QED BY <2>1, <2>2, <2>3, <2>4, <2>5 DEF RowsInv
<1>13. ASSUME NEW p \in Provider, NEW m \in Model, UpsertProviderModel(p, m)
       PROVE  RowsInv'
  BY <1>0, <1>13 DEF UpsertProviderModel, progress, Quiet
<1>14. CASE Tick
  BY <1>0, <1>14 DEF Tick, table, Quiet
<1>15. CASE Crash
  BY <1>0, <1>15 DEF Crash, table, Quiet
<1>16. CASE Restart
  <2>1. edits = 0 => providers' = ConfigRow
    BY <1>16, RowAssumption DEF Restart, RowsInv
  <2> QED BY <1>16, <2>1 DEF Restart, progress, RowsInv, Listed, Listable
<1>17. CASE UNCHANGED attVars
  BY <1>0, <1>17 DEF attVars, Quiet
<1> QED BY <1>1, <1>2, <1>3, <1>4, <1>5, <1>6, <1>7, <1>8, <1>9, <1>10, <1>11, <1>12,
           <1>13, <1>14, <1>15, <1>16, <1>17 DEF AttNext, SweeperStep, AdminStep

LEMMA EvidenceStep == TypeOK /\ EvidenceInv /\ [AttNext]_attVars => EvidenceInv'
<1> SUFFICES ASSUME TypeOK, EvidenceInv, [AttNext]_attVars, sweeper' \in {"store", "cache"}
             PROVE  EvidenceInv'
  BY DEF EvidenceInv
<1> DEFINE Quiet ==
      sweeper \in {"store", "cache"} /\ sweeper' = sweeper /\ draft' = draft /\ job' = job
<1>0. Quiet => EvidenceInv'
  BY DEF EvidenceInv
<1> HIDE DEF Quiet
<1>1. CASE AcceptEvidence
  <2>1. PICK e \in EvidenceOf(job.row) :
          draft' = [verified |-> TRUE, left |-> TTL, host |-> e.host, client |-> e.client]
    BY <1>1 DEF AcceptEvidence
  <2>2. e = [host |-> e.host, client |-> e.client]
    BY DEF EvidenceOf
  <2> QED BY <1>1, <2>1, <2>2 DEF AcceptEvidence, EvidenceInv
<1>2. CASE StoreVerdict
  BY <1>2 DEF StoreVerdict, Return, EvidenceInv
<1>3. CASE Tick
  <2>1. sweeper' = sweeper /\ job' = job /\ draft' = Aged(draft) /\ draft \in Verdict
    BY <1>3 DEF Tick, TypeOK
  <2>2. draft'.verified = draft.verified /\ draft'.host = draft.host
        /\ draft'.client = draft.client
    BY <2>1, AgedVerdict
  <2> QED BY <2>1, <2>2 DEF EvidenceInv
<1>4. CASE AdminStep \/ TickerFires \/ Restart \/ UNCHANGED attVars
  BY <1>0, <1>4 DEF AdminStep, TriggerRefresh, UpsertProvider, UpsertProviderModel,
                    TickerFires, Restart, attVars, progress, Quiet
<1>5. CASE Crash
  BY <1>5 DEF Crash
<1>6. CASE SweeperStep /\ ~AcceptEvidence /\ ~StoreVerdict
  BY <1>6 DEF SweeperStep, BeginSweep, ListFails, TakeProvider, SkipProvider, EndSweep,
              TakeModel, RejectEvidence, EvidenceUnreachable, UnreachableAndUnknown,
              StoreFails, CacheClient, Return
<1> QED BY <1>1, <1>2, <1>3, <1>4, <1>5, <1>6 DEF AttNext

LEMMA RefInvAlways == Spec => [](TypeOK /\ JudgedInv /\ KnownInv /\ RefInv)
<1>1. Init => KnownInv /\ RefInv
  BY RowAssumption DEF Init, KnownInv, KnownRows, RefInv, RowsInv, EvidenceInv
<1>2. TypeOK /\ KnownInv /\ RefInv /\ [AttNext]_attVars => KnownInv' /\ RefInv'
  BY KnownStep, RowsStep, EvidenceStep DEF RefInv
<1> QED BY <1>1, <1>2, TypeCorrect, JudgedAlways, PTL DEF Spec

-----------------------------------------------------------------------------
(***************************************************************************)
(* The refinement mapping. Registry's operators, seen through the          *)
(* instance, are those of this specification.                              *)
(***************************************************************************)

SeenEvidence == [pr \in Pair |-> EvidenceSeen(pr)]

SeenPending == IF sweeper = "cache" THEN [pair |-> JobPair, client |-> draft.client]
               ELSE NoPending

LEMMA SameOperators ==
  /\ R!Pair = Pair
  /\ \A row : R!Swept(row) <=> Swept(row)
  /\ \A row : R!EvidenceOf(row) = EvidenceOf(row)
  /\ \A p : R!KnownRows(p) = KnownRows(p)
<1>1. R!Pair = Pair
  BY DEF R!Pair, Pair
<1>2. \A row : R!Swept(row) <=> Swept(row)
  BY DEF R!Swept, Swept, R!IsConfidentialTier, IsConfidentialTier
<1>3. \A row : R!ClientsOf(row) = ClientsOf(row)
  BY DEF R!ClientsOf, ClientsOf, R!VerifierUsesProxy, VerifierUsesProxy
<1>4. \A row : R!CanAccept(row) <=> CanAccept(row)
  BY DEF R!CanAccept, CanAccept, R!VerifierHasBundle, VerifierHasBundle
<1>5. \A row : R!EvidenceOf(row) = EvidenceOf(row)
  BY <1>3, <1>4 DEF R!EvidenceOf, EvidenceOf
<1>6. \A p : R!KnownRows(p) = KnownRows(p)
  BY DEF R!KnownRows, KnownRows
<1> QED BY <1>1, <1>2, <1>5, <1>6

\* The handlers see nothing of a step that leaves the tables they read, the
\* cache and what the sweeper is about to put there alone.
LEMMA Unseen ==
  ASSUME providers' = providers, offers' = offers, clients' = clients,
         edits' = edits, SeenEvidence' = SeenEvidence, SeenPending' = SeenPending,
         (sweeper' = "down") <=> (sweeper = "down")
  PROVE  /\ faults' = faults => UNCHANGED R!regVars
         /\ faults < MaxFaults /\ faults' = faults + 1 => R!Mishap
BY DEF R!regVars, R!Mishap, SeenEvidence, SeenPending

LEMMA RefInit == Init => R!RegInit
<1> SUFFICES ASSUME Init PROVE R!RegInit
  OBVIOUS
<1>1. \A pr \in Pair : EvidenceSeen(pr) = NoEvidence
  BY DEF Init, EvidenceSeen, Live
<1> QED BY <1>1, SameOperators DEF Init, R!RegInit

\* What the verdict about to be stored is to the handlers.
LEMMA DraftEvidence ==
  ASSUME TypeOK, RefInv, sweeper \in {"store", "cache"}
  PROVE  /\ JobPair \in Pair
         /\ Listed(job.provider, job.row)
         /\ [host |-> draft.host, client |-> draft.client] \in EvidenceOf(job.row)
         /\ draft \in Verdict /\ draft # NoVerdict /\ draft.verified
BY NothingAssumption DEF TypeOK, RefInv, RowsInv, EvidenceInv, Route, JobPair, Pair

LEMMA StoreIsVouch ==
  ASSUME TypeOK, JudgedInv, KnownInv, RefInv, StoreVerdict
  PROVE  R!Vouch(JobPair)
<1> DEFINE e == [host |-> draft.host, client |-> draft.client]
           seen == IF draft.left > 0 THEN e ELSE NoEvidence
<1>1. sweeper = "store" /\ JobPair \in Pair /\ e \in EvidenceOf(job.row)
      /\ Listed(job.provider, job.row) /\ draft # NoVerdict /\ draft.verified
  BY DraftEvidence DEF StoreVerdict
<1>2. JobPair \in offers /\ JobPair \in Eligible
  BY <1>1 DEF JudgedInv, Judgeable
<1>3. JobPair[1] = job.provider /\ job.provider \in Provider
  BY <1>1 DEF JobPair, Pair
<1>4. job.row \in R!PastRows(JobPair[1]) /\ R!Swept(job.row)
  <2>1. R!Swept(job.row) /\ job.row \in Listable(job.provider)
    BY <1>1, SameOperators DEF Listed
  <2>2. CASE edits = 0
    BY <1>3, <2>1, <2>2 DEF Listable, R!PastRows, RefInv, RowsInv
  <2>3. CASE edits # 0
    BY <1>3, <2>1, <2>3, SameOperators DEF Listable, R!PastRows
  <2> QED BY <2>1, <2>2, <2>3
<1>5. SeenEvidence' = [SeenEvidence EXCEPT ![JobPair] = seen]
  <2>1. \A pr \in Pair : verdicts'[pr] = IF pr = JobPair THEN draft ELSE verdicts[pr]
    BY <1>1 DEF StoreVerdict, TypeOK
  <2>2. ASSUME NEW pr \in Pair
        PROVE  EvidenceSeen(pr)' = IF pr = JobPair THEN seen ELSE EvidenceSeen(pr)
    <3>1. CASE pr = JobPair
      <4>1. verdicts'[pr] = draft
        BY <2>1, <3>1
      <4>2. Live(pr)' <=> draft.left > 0
        BY <1>1, <4>1 DEF Live
      <4> QED BY <3>1, <4>1, <4>2 DEF EvidenceSeen
    <3>2. CASE pr # JobPair
      BY <2>1, <3>2 DEF EvidenceSeen, Live
    <3> QED BY <3>1, <3>2
  <2> QED BY <1>1, <2>2 DEF SeenEvidence
<1>6. SeenPending = NoPending
  BY <1>1 DEF SeenPending
<1>7. SeenPending' = IF draft.client = NoClient THEN NoPending
                     ELSE [pair |-> JobPair, client |-> draft.client]
  BY DEF StoreVerdict, Return, SeenPending, JobPair
<1>8. UNCHANGED <<providers, offers, clients, edits, faults>>
      /\ sweeper # "down" /\ sweeper' # "down"
  BY <1>1 DEF StoreVerdict, Return, table
<1> QED BY <1>1, <1>2, <1>4, <1>5, <1>6, <1>7, <1>8, SameOperators
        DEF R!Vouch, SeenEvidence, SeenPending

LEMMA CacheIsCache ==
  ASSUME TypeOK, RefInv, CacheClient
  PROVE  R!Cache
<1>1. sweeper = "cache" /\ JobPair \in Pair /\ draft.client \in Client
  BY DraftEvidence DEF CacheClient, Verdict, RefInv, EvidenceInv
<1>2. SeenPending = [pair |-> JobPair, client |-> draft.client] /\ SeenPending # NoPending
  BY <1>1, NothingSeenAssumption DEF SeenPending
<1>3. sweeper' = "next" /\ SeenPending' = NoPending
  BY DEF CacheClient, Return, SeenPending
<1>4. SeenEvidence' = SeenEvidence
  BY DEF CacheClient, SeenEvidence, EvidenceSeen, Live
<1> QED BY <1>1, <1>2, <1>3, <1>4
        DEF CacheClient, Cached, table, R!Cache, SeenEvidence, SeenPending

LEMMA TickIsLapse ==
  ASSUME TypeOK, RefInv, Tick
  PROVE  \E gone \in SUBSET {pr \in Pair : SeenEvidence[pr] # NoEvidence} : R!Lapse(gone)
<1> DEFINE gone == {pr \in Pair : Live(pr) /\ ~Live(pr)'}
<1>1. \A pr \in Pair : Live(pr) => EvidenceSeen(pr) # NoEvidence
  BY NothingSeenAssumption DEF EvidenceSeen, Live, TypeOK, Verdict, Evidence
<1>2. gone \in SUBSET {pr \in Pair : SeenEvidence[pr] # NoEvidence}
  BY <1>1 DEF SeenEvidence
<1>3. ASSUME NEW pr \in Pair
      PROVE  EvidenceSeen(pr)' = IF pr \in gone THEN NoEvidence ELSE EvidenceSeen(pr)
  <2>1. verdicts'[pr] = Aged(verdicts[pr])
    BY DEF Tick
  <2>2. CASE ~Live(pr)'
    BY <2>2 DEF EvidenceSeen
  <2>3. CASE Live(pr)'
    <3>1. verdicts[pr] \in Verdict
      BY <2>1, <2>3, AgedNoVerdict DEF TypeOK, Live
    <3>2. /\ verdicts'[pr].verified = verdicts[pr].verified
          /\ verdicts'[pr].host = verdicts[pr].host
          /\ verdicts'[pr].client = verdicts[pr].client
      BY <2>1, <3>1, AgedVerdict
    <3>3. verdicts[pr].left > 0
      BY <2>1, <2>3, <3>1, AgedVerdict, TTLAssumption DEF Live, Verdict
    <3> QED BY <2>3, <3>1, <3>2, <3>3, NothingAssumption DEF EvidenceSeen, Live
  <2> QED BY <2>2, <2>3
<1>4. SeenEvidence' = [pr \in Pair |-> IF pr \in gone THEN NoEvidence ELSE SeenEvidence[pr]]
  BY <1>3 DEF SeenEvidence
<1>5. SeenPending' = SeenPending
  <2>1. sweeper' = sweeper /\ JobPair' = JobPair /\ draft' = Aged(draft)
    BY DEF Tick, JobPair
  <2>2. sweeper = "cache" => draft'.client = draft.client
    BY <2>1, AgedVerdict DEF TypeOK
  <2> QED BY <2>1, <2>2 DEF SeenPending
<1>6. R!Lapse(gone)
  BY <1>4, <1>5, SameOperators DEF Tick, table, R!Lapse, SeenEvidence, SeenPending
<1> QED BY <1>2, <1>6

-----------------------------------------------------------------------------
LEMMA UnreachableIsUnseen ==
  ASSUME TypeOK, EvidenceUnreachable
  PROVE  UNCHANGED R!regVars
<1>1. ASSUME NEW pr \in Pair
      PROVE  EvidenceSeen(pr)' = EvidenceSeen(pr)
  <2>1. verdicts'[pr] = verdicts[pr] \/ (~Live(pr) /\ ~Live(pr)')
    BY DEF EvidenceUnreachable, KeptOrFailed, Failed, Live, TypeOK
  <2> QED BY <2>1 DEF EvidenceSeen, Live
<1>2. SeenEvidence' = SeenEvidence
  BY <1>1 DEF SeenEvidence
<1>3. SeenPending' = SeenPending /\ sweeper # "down" /\ sweeper' # "down"
  BY DEF EvidenceUnreachable, Return, SeenPending
<1> QED BY <1>2, <1>3, Unseen DEF EvidenceUnreachable, table

\* A step that does not write verdicts leaves the evidence seen alone.
LEMMA SameEvidence == verdicts' = verdicts => SeenEvidence' = SeenEvidence
BY DEF SeenEvidence, EvidenceSeen, Live

LEMMA RefStep ==
  TypeOK /\ JudgedInv /\ KnownInv /\ RefInv /\ [AttNext]_attVars
    => [R!RegNext]_(R!regVars)
<1> SUFFICES ASSUME TypeOK, JudgedInv, KnownInv, RefInv, [AttNext]_attVars
             PROVE  R!RegNext \/ UNCHANGED R!regVars
  OBVIOUS
<1>1. CASE BeginSweep
  BY <1>1, Unseen, SameEvidence DEF BeginSweep, Wake, table, SeenPending
<1>2. CASE ListFails
  <2>1. R!Mishap
    BY <1>2, Unseen, SameEvidence DEF ListFails, Wake, table, progress, SeenPending
  <2> QED BY <2>1 DEF R!RegNext, R!RegStep
<1>3. ASSUME NEW p \in Provider, TakeProvider(p) PROVE UNCHANGED R!regVars
  BY <1>3, Unseen, SameEvidence DEF TakeProvider, table, SeenPending
<1>4. ASSUME NEW p \in Provider, SkipProvider(p) PROVE R!RegNext
  <2>1. R!Mishap
    BY <1>4, Unseen, SameEvidence DEF SkipProvider, table, SeenPending
  <2> QED BY <2>1 DEF R!RegNext, R!RegStep
<1>5. CASE EndSweep
  BY <1>5, Unseen, SameEvidence DEF EndSweep, table, progress, SeenPending
<1>6. CASE TakeModel
  BY <1>6, Unseen, SameEvidence DEF TakeModel, table, SeenPending
<1>7. CASE AcceptEvidence
  BY <1>7, Unseen, SameEvidence DEF AcceptEvidence, table, SeenPending
<1>8. CASE RejectEvidence
  BY <1>8, Unseen, SameEvidence DEF RejectEvidence, Return, table, SeenPending
<1>9. CASE EvidenceUnreachable
  BY <1>9, UnreachableIsUnseen
<1>10. CASE UnreachableAndUnknown
  <2>1. R!Mishap
    BY <1>10, Unseen, SameEvidence DEF UnreachableAndUnknown, Return, table, SeenPending
  <2> QED BY <2>1 DEF R!RegNext, R!RegStep
<1>11. CASE StoreVerdict
  <2>1. R!Vouch(JobPair) /\ JobPair \in R!Pair
    BY <1>11, StoreIsVouch, DraftEvidence, SameOperators DEF StoreVerdict
  <2> QED BY <2>1 DEF R!RegNext, R!RegStep
<1>12. CASE StoreFails
  <2>1. R!Mishap
    BY <1>12, Unseen, SameEvidence DEF StoreFails, Return, table, SeenPending
  <2> QED BY <2>1 DEF R!RegNext, R!RegStep
<1>13. CASE CacheClient
  BY <1>13, CacheIsCache DEF R!RegNext, R!RegStep
<1>14. CASE TriggerRefresh
  BY <1>14, Unseen, SameEvidence DEF TriggerRefresh, table, progress, SeenPending, JobPair
<1>15. ASSUME NEW p \in Provider, NEW row \in AdminRow, UpsertProvider(p, row)
       PROVE  R!RegNext
  <2>1. SeenPending' = SeenPending /\ SeenEvidence' = SeenEvidence
    BY <1>15, SameEvidence DEF UpsertProvider, progress, SeenPending, JobPair
  <2>2. R!EditProvider(p, row)
    BY <1>15, <2>1 DEF UpsertProvider, progress, R!EditProvider, SeenPending, SeenEvidence
  <2> QED BY <2>2 DEF R!RegNext, R!RegStep
<1>16. ASSUME NEW p \in Provider, NEW m \in Model, UpsertProviderModel(p, m)
       PROVE  R!RegNext
  <2>1. SeenPending' = SeenPending /\ SeenEvidence' = SeenEvidence
    BY <1>16, SameEvidence DEF UpsertProviderModel, progress, SeenPending, JobPair
  <2>2. R!Offer(p, m)
    BY <1>16, <2>1 DEF UpsertProviderModel, progress, R!Offer, SeenPending, SeenEvidence
  <2> QED BY <2>2 DEF R!RegNext, R!RegStep
<1>17. CASE TickerFires
  BY <1>17, Unseen, SameEvidence DEF TickerFires, table, progress, SeenPending, JobPair
<1>18. CASE Tick
  <2>1. R!RegStep
    BY <1>18, TickIsLapse, SameOperators DEF R!RegStep, SeenEvidence
  <2> QED BY <2>1 DEF R!RegNext
<1>19. CASE Crash
  <2>1. SeenPending' = NoPending /\ SeenEvidence' = SeenEvidence
    BY <1>19, SameEvidence DEF Crash, SeenPending
  <2>2. R!Die
    BY <1>19, <2>1, SameOperators DEF Crash, table, R!Die, SeenPending, SeenEvidence
  <2> QED BY <2>2 DEF R!RegNext
<1>20. CASE Restart
  <2>1. SeenPending' = SeenPending /\ SeenEvidence' = SeenEvidence
    BY <1>20, SameEvidence DEF Restart, SeenPending
  <2>2. R!Boot
    BY <1>20, <2>1 DEF Restart, progress, R!Boot, SeenPending, SeenEvidence
  <2> QED BY <2>2 DEF R!RegNext, R!RegStep
<1>21. CASE UNCHANGED attVars
  BY <1>21, Unseen, SameEvidence DEF attVars, SeenPending, JobPair
<1> QED BY <1>1, <1>2, <1>3, <1>4, <1>5, <1>6, <1>7, <1>8, <1>9, <1>10, <1>11, <1>12,
           <1>13, <1>14, <1>15, <1>16, <1>17, <1>18, <1>19, <1>20, <1>21
        DEF AttNext, SweeperStep, AdminStep

\* The attestation service, with its sweeps, its clock, its failures and the
\* rows that change under it, does nothing that Registry does not allow.
THEOREM AttestationImplementsRegistry == Spec => ImplementsRegistry
BY RefInit, RefStep, RefInvAlways, PTL DEF Spec, ImplementsRegistry, R!RegSpec

=============================================================================
