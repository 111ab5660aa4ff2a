---------------------------- MODULE Attestation ----------------------------
(***************************************************************************)
(* The attestation service (internal/attestation/attestation.go), the      *)
(* tables of the database it reads and writes (internal/database), the     *)
(* admin operations that change them under it (internal/admin), and the    *)
(* crash and restart of the process (main.go).                             *)
(*                                                                         *)
(* One goroutine runs the refresh loop. It is the only writer of verdicts  *)
(* and of the cache of verified clients, but its sweep works on a copy of  *)
(* the providers table while the admin API rewrites that table, and the    *)
(* database outlives the process while the cache does not.                 *)
(*                                                                         *)
(* Time is counted in ticks. A verdict holds the ticks left until its      *)
(* expires_at, so "expires_at > now" is left > 0 and no clock is needed.   *)
(***************************************************************************)
EXTENDS Verifiers

CONSTANTS
  TTL,          \* attestation.verdict_ttl, in ticks
  MaxEdits,     \* bound: provider rows written by administrators
  MaxFaults,    \* bound: crashes and database errors
  NoVerdict,    \* "no row in provider_attestations"
  NoJob         \* "no pair under verification"

ASSUME TTLAssumption == TTL \in Nat \ {0}
ASSUME BoundAssumption == MaxEdits \in Nat /\ MaxFaults \in Nat


\* A row of provider_attestations. The client is in its verified_claims.
Verdict == [verified : BOOLEAN, left : 0..TTL, host : Host,
            client : Client \cup {NoClient}]

ASSUME NothingAssumption == /\ NoVerdict \notin Verdict
                            /\ NoJob \notin Route

VARIABLES
  providers,   \* table providers
  offers,      \* table provider_models: the enabled pairs
  verdicts,    \* table provider_attestations
  clients,     \* package variable verifiedClients
  refresh,     \* the refresh channel, capacity 1: it holds a token or not
  due,         \* the ticker's channel, capacity 1
  sweeper,     \* where the refresh loop is; "down" when no process runs
  snapshot,    \* rows listed by the current sweep and not yet taken up
  jobs,        \* pairs of the provider taken up that are still to verify
  job,         \* the pair under verification, with the row listed for it
  draft,       \* the verdict about to be stored
  edits,       \* rows written by administrators so far
  faults,      \* crashes and database errors so far
  proofAge,    \* history: ticks since evidence for a pair was last accepted
  asked        \* history: a refresh was requested and no sweep began since

table    == <<providers, offers>>
progress == <<snapshot, jobs, job, draft>>
attVars  == <<providers, offers, verdicts, clients, refresh, due, sweeper,
              snapshot, jobs, job, draft, edits, faults, proofAge, asked>>

TypeOK ==
  /\ providers \in [Provider -> Row \cup {NoRow}]
  /\ offers \subseteq Pair
  /\ verdicts \in [Pair -> Verdict \cup {NoVerdict}]
  /\ clients \in [Pair -> Client \cup {NoClient}]
  /\ refresh \in BOOLEAN /\ due \in BOOLEAN /\ asked \in BOOLEAN
  /\ sweeper \in {"down", "boot", "idle", "next", "verify", "store", "cache"}
  /\ snapshot \in [Provider -> Row \cup {NoRow}]
  /\ jobs \subseteq Route
  /\ job \in Route \cup {NoJob}
  /\ draft \in Verdict \cup {NoVerdict}
  /\ sweeper \in {"verify", "store", "cache"} => job \in Route
  /\ sweeper \in {"store", "cache"} => draft \in Verdict
  /\ edits \in 0..MaxEdits /\ faults \in 0..MaxFaults
  /\ proofAge \in [Pair -> 0..TTL]

MutantLive(pr) == verdicts[pr] # NoVerdict /\ verdicts[pr].verified
Live(pr) == /\ verdicts[pr] # NoVerdict
            /\ verdicts[pr].verified
            /\ verdicts[pr].left > 0

JobPair == <<job.provider, job.model>>

-----------------------------------------------------------------------------
\* The process starts on an empty database.
Init ==
  /\ providers = ConfigRow
  /\ offers = {}
  /\ verdicts = [pr \in Pair |-> NoVerdict]
  /\ clients = [pr \in Pair |-> NoClient]
  /\ refresh = FALSE /\ due = FALSE /\ asked = FALSE
  /\ sweeper = "boot"
  /\ snapshot = [p \in Provider |-> NoRow]
  /\ jobs = {} /\ job = NoJob /\ draft = NoVerdict
  /\ edits = 0 /\ faults = 0
  /\ proofAge = [pr \in Pair |-> TTL]

-----------------------------------------------------------------------------
(***************************************************************************)
(* The refresh loop.                                                       *)
(***************************************************************************)

\* Start's select took the ticker's or a caller's token, or is at its initial
\* sweep. The two channels are served in any order.
Wake ==
  \/ sweeper = "boot" /\ UNCHANGED <<refresh, due>>
  \/ sweeper = "idle" /\ due /\ due' = FALSE /\ UNCHANGED refresh
  \/ sweeper = "idle" /\ refresh /\ refresh' = FALSE /\ UNCHANGED due

\* sweep lists the providers.
BeginSweep ==
  /\ Wake
  /\ snapshot' = [p \in Provider |-> IF Swept(providers[p]) THEN providers[p] ELSE NoRow]
  /\ sweeper' = "next"
  /\ asked' = FALSE
  /\ UNCHANGED <<table, verdicts, clients, jobs, job, draft, edits, faults, proofAge>>

\* The listing fails and the sweep is over: the token is gone all the same.
ListFails ==
  /\ Wake
  /\ faults < MaxFaults
  /\ faults' = faults + 1
  /\ sweeper' = "idle"
  /\ asked' = FALSE
  /\ UNCHANGED <<table, verdicts, clients, progress, edits, proofAge>>

\* The enabled models of a provider that the sweep does not pass over.
MutantSweptModels(p) == {m \in Model : <<p, m>> \in offers}
SweptModels(p) == {m \in Model : <<p, m>> \in offers /\ <<p, m>> \in Eligible}

\* The models of the next provider, as the table has them now.
TakeProvider(p) ==
  /\ sweeper = "next" /\ jobs = {}
  /\ snapshot[p] # NoRow
  /\ snapshot' = [snapshot EXCEPT ![p] = NoRow]
  /\ jobs' = {[provider |-> p, model |-> m, row |-> snapshot[p]] : m \in SweptModels(p)}
  /\ UNCHANGED <<table, verdicts, clients, refresh, due, asked, sweeper, job, draft,
                 edits, faults, proofAge>>

\* They cannot be listed: the sweep goes on without this provider.
SkipProvider(p) ==
  /\ sweeper = "next" /\ jobs = {}
  /\ snapshot[p] # NoRow
  /\ faults < MaxFaults
  /\ faults' = faults + 1
  /\ snapshot' = [snapshot EXCEPT ![p] = NoRow]
  /\ UNCHANGED <<table, verdicts, clients, refresh, due, asked, sweeper, jobs, job, draft,
                 edits, proofAge>>

EndSweep ==
  /\ sweeper = "next" /\ jobs = {}
  /\ \A p \in Provider : snapshot[p] = NoRow
  /\ sweeper' = "idle"
  /\ UNCHANGED <<table, verdicts, clients, refresh, due, asked, progress, edits,
                 faults, proofAge>>

MutantJobsAfter(j) == jobs
JobsAfter(j) == jobs \ {j}

TakeModel ==
  /\ sweeper = "next"
  /\ \E j \in jobs : job' = j /\ jobs' = JobsAfter(j)
  /\ sweeper' = "verify"
  /\ UNCHANGED <<table, verdicts, clients, refresh, due, asked, snapshot, draft,
                 edits, faults, proofAge>>

-----------------------------------------------------------------------------
(***************************************************************************)
(* One verification.                                                       *)
(***************************************************************************)

\* A verifier returns to the sweep.
Return == sweeper' = "next" /\ job' = NoJob /\ draft' = NoVerdict

\* The evidence holds: the verdict is made out, expiring a TTL from now.
AcceptEvidence ==
  /\ sweeper = "verify"
  /\ \E e \in EvidenceOf(job.row) :
       draft' = [verified |-> TRUE, left |-> TTL, host |-> e.host, client |-> e.client]
  /\ proofAge' = [proofAge EXCEPT ![JobPair] = 0]
  /\ sweeper' = "store"
  /\ UNCHANGED <<table, verdicts, clients, refresh, due, asked, snapshot, jobs, job,
                 edits, faults>>

RejectEvidence ==
  /\ sweeper = "verify" /\ CanReject(job.row)
  /\ Return
  /\ UNCHANGED <<table, verdicts, clients, refresh, due, asked, snapshot, jobs, edits,
                 faults, proofAge>>

\* The verdicts handleNetworkError leaves: a live one is kept, a dead one is
\* replaced by a failed one (whose expiry nobody reads).
Failed(host) == [verified |-> FALSE, left |-> 0, host |-> host, client |-> NoClient]
MutantRenewed(pr, host) ==
  [verdicts EXCEPT ![pr] = IF Live(pr) THEN [@ EXCEPT !.left = TTL] ELSE Failed(host)]
MutantFailed(pr, host) == [verdicts EXCEPT ![pr] = Failed(host)]
KeptOrFailed(pr, host) ==
  IF Live(pr) THEN verdicts ELSE [verdicts EXCEPT ![pr] = Failed(host)]

\* The verifier does not return after handleNetworkError: it goes on to store a
\* verdict it has not made out.
MutantEvidenceUnreachable ==
  /\ sweeper = "verify" /\ FallsBack(job.row)
  /\ verdicts' = KeptOrFailed(JobPair, job.row.host)
  /\ sweeper' = "store"
  /\ UNCHANGED <<table, clients, refresh, due, asked, snapshot, jobs, job, draft, edits,
                 faults, proofAge>>

\* Nobody answers. Only this goroutine writes verdicts, so the check of the
\* cached verdict and the write are one step.
EvidenceUnreachable ==
  /\ sweeper = "verify" /\ FallsBack(job.row)
  /\ verdicts' = KeptOrFailed(JobPair, job.row.host)
  /\ Return
  /\ UNCHANGED <<table, clients, refresh, due, asked, snapshot, jobs, edits, faults,
                 proofAge>>

\* Nobody answers, and the database cannot say whether a verdict is live or
\* cannot take the failed one.
UnreachableAndUnknown ==
  /\ sweeper = "verify" /\ FallsBack(job.row)
  /\ faults < MaxFaults
  /\ faults' = faults + 1
  /\ Return
  /\ UNCHANGED <<table, verdicts, clients, refresh, due, asked, snapshot, jobs, edits,
                 proofAge>>

StoreVerdict ==
  /\ sweeper = "store"
  /\ verdicts' = [verdicts EXCEPT ![JobPair] = draft]
  /\ IF draft.client = NoClient
     THEN Return
     ELSE sweeper' = "cache" /\ UNCHANGED <<job, draft>>
  /\ UNCHANGED <<table, clients, refresh, due, asked, snapshot, jobs, edits, faults,
                 proofAge>>

\* UpsertAttestation fails: neither a verdict nor a client comes of it.
StoreFails ==
  /\ sweeper = "store"
  /\ faults < MaxFaults
  /\ faults' = faults + 1
  /\ Return
  /\ UNCHANGED <<table, verdicts, clients, refresh, due, asked, snapshot, jobs, edits,
                 proofAge>>

MutantCached(pr, c) == [clients EXCEPT ![pr] = IF @ = NoClient THEN c ELSE @]
Cached(pr, c) == [clients EXCEPT ![pr] = c]

CacheClient ==
  /\ sweeper = "cache"
  /\ clients' = Cached(JobPair, draft.client)
  /\ Return
  /\ UNCHANGED <<table, verdicts, refresh, due, asked, snapshot, jobs, edits, faults,
                 proofAge>>

-----------------------------------------------------------------------------
(***************************************************************************)
(* The rest of the process and its surroundings.                           *)
(***************************************************************************)

\* The send that does not block: the token goes into the channel's one place,
\* or is dropped when one is there already.
MutantPushed == refresh \/ sweeper = "idle"
Pushed == TRUE

TriggerRefresh ==
  /\ sweeper # "down"
  /\ refresh' = Pushed /\ asked' = TRUE
  /\ UNCHANGED <<table, verdicts, clients, due, sweeper, progress, edits, faults, proofAge>>

TickerFires ==
  /\ sweeper # "down" /\ ~due
  /\ due' = TRUE
  /\ UNCHANGED <<table, verdicts, clients, refresh, asked, sweeper, progress, edits,
                 faults, proofAge>>

\* createProvider of the admin API: the row changes, its verdicts stay.
UpsertProvider(p, row) ==
  /\ sweeper # "down" /\ edits < MaxEdits
  /\ row # providers[p]
  /\ edits' = edits + 1
  /\ providers' = [providers EXCEPT ![p] = row]
  /\ UNCHANGED <<offers, verdicts, clients, refresh, due, asked, sweeper, progress,
                 faults, proofAge>>

\* The model fetcher, in this process or run as encproxy -fetch-models.
\* Nothing ever disables a pair again.
UpsertProviderModel(p, m) ==
  /\ providers[p] # NoRow
  /\ <<p, m>> \in Catalog /\ <<p, m>> \notin offers
  /\ offers' = offers \cup {<<p, m>>}
  /\ UNCHANGED <<providers, verdicts, clients, refresh, due, asked, sweeper, progress,
                 edits, faults, proofAge>>

\* The clock. expires_at is absolute and only compared with the present time:
\* left, the distance between the two, shrinks on its own.
Aged(v) == IF v = NoVerdict \/ v.left = 0 THEN v ELSE [v EXCEPT !.left = @ - 1]

Tick ==
  /\ verdicts' = [pr \in Pair |-> Aged(verdicts[pr])]
  /\ draft' = Aged(draft)
  /\ proofAge' = [pr \in Pair |-> IF proofAge[pr] < TTL THEN proofAge[pr] + 1 ELSE TTL]
  /\ UNCHANGED <<table, clients, refresh, due, asked, sweeper, snapshot, jobs, job,
                 edits, faults>>

\* The process dies: killed, the map race the runtime detects, or the slice
\* of a short body that verifyNanoGPT panics on. The database stays.
Crash ==
  /\ sweeper # "down" /\ faults < MaxFaults
  /\ faults' = faults + 1
  /\ sweeper' = "down"
  /\ clients' = [pr \in Pair |-> NoClient]
  /\ refresh' = FALSE /\ due' = FALSE /\ asked' = FALSE
  /\ snapshot' = [p \in Provider |-> NoRow]
  /\ jobs' = {} /\ job' = NoJob /\ draft' = NoVerdict
  /\ UNCHANGED <<table, verdicts, edits, proofAge>>

\* main writes the providers of the configuration file over what is there.
Restart ==
  /\ sweeper = "down"
  /\ sweeper' = "boot"
  /\ providers' = [p \in Provider |->
                     IF ConfigRow[p] # NoRow THEN ConfigRow[p] ELSE providers[p]]
  /\ UNCHANGED <<offers, verdicts, clients, refresh, due, asked, progress, edits,
                 faults, proofAge>>

SweeperStep ==
  \/ BeginSweep \/ ListFails
  \/ \E p \in Provider : TakeProvider(p) \/ SkipProvider(p)
  \/ EndSweep \/ TakeModel
  \/ AcceptEvidence \/ RejectEvidence \/ EvidenceUnreachable \/ UnreachableAndUnknown
  \/ StoreVerdict \/ StoreFails \/ CacheClient

AdminStep ==
  \/ TriggerRefresh
  \/ \E p \in Provider, row \in AdminRow : UpsertProvider(p, row)
  \/ \E p \in Provider, m \in Model : UpsertProviderModel(p, m)

AttNext == SweeperStep \/ AdminStep \/ TickerFires \/ Tick \/ Crash \/ Restart

Spec == Init /\ [][AttNext]_attVars

(***************************************************************************)
(* The loop's goroutine is always scheduled and every fetch ends (its HTTP *)
(* clients time out); the ticker and the clock go on. Nothing in the       *)
(* repository restarts a process that died, so no fairness is assumed of   *)
(* Restart.                                                                *)
(***************************************************************************)
Fairness == /\ WF_attVars(SweeperStep)
            /\ WF_attVars(TickerFires)
            /\ WF_attVars(Tick)

FairSpec == Spec /\ Fairness

-----------------------------------------------------------------------------
(***************************************************************************)
(* Safety.                                                                 *)
(***************************************************************************)

\* A live verdict rests on evidence accepted less than a TTL ago: what is left
\* of it and the age of the evidence never add up to more than the TTL, across
\* unreachable verifiers (handleNetworkError), slow writes, and restarts.
FreshEvidence ==
  \A pr \in Pair : Live(pr) => verdicts[pr].left + proofAge[pr] <= TTL

\* Verdicts exist only for pairs a provider offers and the model policy lets
\* through: a sweep never judges a model it was to pass over.
OnlyEligibleJudged ==
  \A pr \in Pair : verdicts[pr] # NoVerdict => pr \in offers /\ pr \in Eligible

\* The cached client is the one the live verdict was given for, but for the
\* moment between the two writes of a verification (verifyTinfoil, verifyPPQ).
ClientAgreesWithVerdict ==
  \A pr \in Pair :
    Live(pr) /\ verdicts[pr].client # NoClient /\ clients[pr] # NoClient
      => \/ clients[pr] = verdicts[pr].client
         \/ sweeper = "cache" /\ JobPair = pr

\* A refresh request that no sweep has answered is in the channel, whatever the
\* loop was doing when TriggerRefresh was called.
NoRefreshLost == asked => refresh

\* A live verdict ends by running out: neither an unreachable verifier, nor
\* rejected evidence, nor an edit of the provider, nor a crash cuts it short.
LiveVerdictRunsOut ==
  [][\A pr \in Pair : Live(pr) /\ ~Live(pr)' => verdicts[pr].left = 1]_attVars

-----------------------------------------------------------------------------
(***************************************************************************)
(* Liveness.                                                               *)
(***************************************************************************)

\* Every sweep comes to an end, so that the loop can see its channels again.
SweepEnds == sweeper \notin {"idle", "down"} ~> sweeper \in {"idle", "down"}

\* The pairs a sweep is to verify.
Due(pr) == /\ pr \in offers \cap Eligible
           /\ providers[pr[1]] # NoRow
           /\ IsConfidentialTier(providers[pr[1]].tier)

\* A pair that is to be verified is taken up by some later sweep, as long as
\* the process lives and the provider stays of a confidential tier.
EveryPairTakenUp ==
  \A pr \in Pair :
    Due(pr) ~> \/ sweeper = "verify" /\ JobPair = pr
               \/ sweeper = "down"
               \/ ~Due(pr)

\* A verdict given for a deployment its provider no longer points at does not
\* last: the row may be edited under a running sweep, and nothing invalidates
\* its verdicts, but they are replaced or run out.
StaleVerdictDies ==
  \A pr \in Pair :
    (Live(pr) /\ verdicts[pr].host # providers[pr[1]].host)
      ~> (~Live(pr) \/ verdicts[pr].host = providers[pr[1]].host)

-----------------------------------------------------------------------------
(***************************************************************************)
(* What the request handlers see of all this.                              *)
(***************************************************************************)
CONSTANTS NoEvidence, NoPending

ASSUME NothingSeenAssumption == /\ NoEvidence \notin Evidence
                                /\ NoPending \notin [pair : Pair, client : Client]

EvidenceSeen(pr) ==
  IF Live(pr) THEN [host |-> verdicts[pr].host, client |-> verdicts[pr].client]
  ELSE NoEvidence

R == INSTANCE Registry WITH
  up       <- sweeper # "down",
  evidence <- [pr \in Pair |-> EvidenceSeen(pr)],
  pending  <- IF sweeper = "cache" THEN [pair |-> JobPair, client |-> draft.client]
              ELSE NoPending

\* The handlers may take the attestation service for the registry: every step
\* of the sweep, of the clock and of the administrators is a step of it.
ImplementsRegistry == R!RegSpec

=============================================================================
