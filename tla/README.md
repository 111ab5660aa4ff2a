# A TLA+ model of encproxy

encproxy is a Go server that offers the OpenAI chat completion API and routes
each request to an inference provider whose confidential deployment it has
verified. This directory models it: the loop that verifies providers, the tables it
shares with the request handlers and the admin API, the handlers with their
failovers, sealed answers, listings and costs, the keys and names they decide
by, the fetcher that fills the tables, and the start and end of the process.

Paths below are relative to the repository; line numbers are those of the
sources at the commit modelled. `PROJECT.json` maps every definition to them.

## 1. Inventory

### Components

| component | state | operations | modelled in |
|---|---|---|---|
| attestation service, `internal/attestation` | refresh channel (capacity 1), ticker, package variable `verifiedClients` | `Start`, `TriggerRefresh`, `sweep`, eight verifiers, `handleNetworkError`, `GetVerifiedClient`, `GetConfidentialityStatus` | `Attestation`, `Verifiers`, `RefreshTiming`, `Listing`; abstractly `Registry` |
| chat handlers, `internal/proxy` | locals of one goroutine per request, its context | both chat handlers, `streamResponse`, `recordUsage`; `/v1/models`, `/v1/confidentiality` | `Proxy`, `Ehbp`, `Cost`, `Listing`; abstractly `VerifiedGateway` |
| selection, `internal/routing` | `FailoverState` of a request | `SelectProvider`, `NextProvider`, `scoreRoutes`, `needsEHBP`, `CalculateCost` | `Routing`, `Proxy`, `Cost` |
| database, `internal/database` | SQLite tables `providers`, `provider_models`, `provider_attestations`, `api_keys`, `usage_events`, `pricing_history` | upserts and queries, each a transaction of its own | the variables of `Attestation`, `Registry`, `Proxy`, `Listing`, `Keys`, `Fetcher` |
| authorization, `internal/authz` | none | `AuthorizeRequest`, `CheckProviderAllowed`, pattern matching | `Proxy` (patterns as the constant `KeyNames`), `Keys` (the patterns) |
| admin API, `internal/admin` | none | create a provider, create or delete a key, refresh, fetch models | actions of `Attestation`, `Proxy`, `Keys`, `Fetcher`, `Startup` |
| model fetcher, `internal/providers` | none | `FetchAllModels`, with retries | `Fetcher`; elsewhere `UpsertProviderModel`, `Offer` |
| model policy, `internal/modelpolicy` | none | tier predicate, string rules about model names | `IsConfidentialTier`; the rules about names in `ModelNames`, applied in `Keys`; elsewhere the constants `Eligible`, `Admitted` |
| model names, `internal/models` | none | `CanonicalModelName`, `ModelsMatch` | `ModelNames`, `Keys`; elsewhere the constant `Canonical` |
| start and shutdown, `main.go` | the process | configuration, upserts of the configured providers, servers, shutdown | `Startup`; elsewhere `Init`, `Restart`, `Crash`; `Boot`, `Die` |
| usage, `internal/usage` | none | `RecordEvent` | `Record` |
| configuration, `internal/config` | a struct | load, runtime overrides, validation | `Startup` |
| managed proxies, `internal/managedproxies` | child processes | start, wait until ready, stop | `Startup` |
| EHBP, `internal/ehbp` | an encryption context per request | sealing, chunk framing, key derivation | `Ehbp` |
| `cmd/listmodels` | none | prints model lists | no |

### How they interact

The refresh loop and the handlers never call each other. They meet in the
database and in the map `verifiedClients`: the loop writes a verdict
(`UpsertAttestation`) and then a client into the map, the handlers query the
verdicts when they select a provider and read map and verdict when they seal a
body. The admin API writes the rows of providers, which the loop lists once per
sweep and the handlers read at each selection, and calls `TriggerRefresh`,
which puts a token into a channel of capacity 1 or drops it. `main` writes the
configured providers over the table at each start; the database outlives the
process, the map and the channel do not.

### What is hard here

* A sweep works on rows listed at its start, while they are replaced.
* A verdict and its client are two writes; a restart forgets one of them.
* A verifier that cannot be reached keeps a live verdict and replaces a dead one.
* Selection is a query and then a read per candidate; between these, and between
  selection, sealing and sending, everything else may move; and every failover
  starts over with a fresh view.
* A streaming answer commits its head before its body is read.
* Contexts: usage is recorded under the request's context (or not at all); the
  EHBP secret is put into a context that failovers inherit.
* Liveness: the loop serves its channels only between sweeps, and a failover
  ends only because a provider is never tried twice.
* Time: nothing relates `refresh_interval` and the length of a sweep to
  `verdict_ttl`, on which the absence of gaps between verdicts depends.
* Start-up applies the overrides of the configuration before and after a proxy
  is started whose address they depend on, and `log.Fatalf` skips what is
  deferred.
* Names: what is stored, listed, priced and allowed is compared after different
  conversions; the listing reads five tables' worth of queries one by one.
* A sealed answer is a sequence of chunks that a connection may cut or change,
  and a failure to open it is relayed as a success.

`PROJECT.json` lists these with their lines as hazards, each with the properties
that would catch it going wrong.

### What makes each component correct

* Attestation: verdicts rest on evidence no older than the TTL, are given only
  on eligible pairs, agree with the cached client, and end by running out;
  sweeps end, reach every pair, and requested refreshes happen; verdicts of a
  deployment the provider has left go away.
* Handlers and selection: a request is handed only to pairs that were trusted
  when selected and that its key allows, to no provider twice, never in the
  clear to one that takes sealed bodies when it is a stream; a sealed body fits its route and its secret;
  no failover after a head is written; the usage event names who answered; every
  request ends.
* EHBP: bodies are sealed to attested keys only, what is opened is a beginning
  of one answer to this request, and an untouched answer arrives.
* Listings show what was servable while they were read, once, and miss nothing
  that was so throughout; a model is found however it is spelled; a key
  keeps to the models it names; a family hosted elsewhere is served only where its
  provider marks what runs in an enclave; an event is booked at the price of its
  tokens.
* Fetcher: adds a model outside the policy only for a provider it has listed as
  plaintext; every fetch ends, whatever endpoints do.
* Start and shutdown: overrides settle, the proxy's address is used only after it
  has answered, a direct API is not left in a confidential tier by `main`, nothing
  is left running, start and stop come to an end.

## 2. Modules

```
Routing            tiers, rows, pairs, routes; the pure part of selection
  Verifiers        what a verifier can make of an answer, by provider row
    Registry       what attestation promises the handlers      (abstract)
      Proxy        handlers, keys, usage, composed with Registry
    Attestation    the refresh loop over the database           (detailed)
VerifiedGateway    what encproxy promises its clients           (abstract)

Attestation implements Registry          (AttestationProofs; and TLC)
Proxy       implements VerifiedGateway   (ProxyProofs; and TLC)

Startup            main, configuration, managed proxies
Ehbp               one sealed exchange, chunk by chunk
RefreshTiming      the clock of the refresh loop
Fetcher            fetches of the providers' models
Listing            readings of /v1/models and /v1/confidentiality
Cost               what answers are booked with
ModelNames         canonical names, and the model policy on names
  Keys             API keys, and the way of a name through table, listing and query

AttestationProofs, ProxyProofs, StartupProofs, EhbpProofs,
TimingProofs, FetcherProofs, ListingProofs, KeysProofs     theorems
MC*                                                        instances for TLC
```

The chain matters: `Proxy` is checked against `Registry`, not against the
verifying loop, and may be because the loop is proved to do nothing `Registry`
does not allow. `Registry` allows more than the loop does (any eligible pair may
be vouched for at any time, verdicts may lapse at any time), so what holds of
`Proxy` holds of the handlers beside the real loop.

### Attestation

| model | code |
|---|---|
| `providers`, `offers`, `verdicts` | tables `providers`, `provider_models` (enabled rows), `provider_attestations` |
| `clients` | `verifiedClients` |
| `refresh`, `due` | `Service.refreshCh`, the ticker's channel: a token is there or not |
| `sweeper` | program counter of the goroutine of `Start`: `boot` before its first sweep, `idle` in the select, `next` between verifications, `verify` waiting for evidence, `store` before `UpsertAttestation`, `cache` before the write of the map, `down` when there is no process |
| `snapshot`, `jobs`, `job` | the loop variables of `sweep`: providers still to go, models still to go, the pair in hand |
| `draft` | the `ProviderAttestation` a verifier has built |
| `proofAge`, `asked` | history variables; no action reads them to decide anything |

Actions follow the loop: `BeginSweep` or `ListFails` takes a token and lists the
providers; `TakeProvider` or `SkipProvider` lists the models of one;
`TakeModel` calls a verifier; it ends in `AcceptEvidence` followed by
`StoreVerdict` (and `CacheClient`) or `StoreFails`, in `RejectEvidence`, or in
`EvidenceUnreachable` (`handleNetworkError`, which reads and writes verdicts;
one step, since nobody else writes them) or `UnreachableAndUnknown` (the same
with the database failing). Around it act the ticker, the clock, the admin API,
the fetcher, a crash and a restart.

The eight verifiers are five families (`Verifiers`): `tinfoil` and the
`ppq-private` bundle yield clients, `nanogpt` never falls back on a cached
verdict, `report` stands for redpill, near, venice, privatemode and chutes,
`none` for any other type (and a tinfoil row without a repository), which is
always refused. What a verifier can return is read off its code row by row: a
PPQ row whose `attestation_config` uses snake case keys has no bundle URL the
Go struct can see and is refused.

Time is counted in ticks. The code stores an absolute `expires_at` and compares it
with the clock; a verdict of the model holds the difference, the ticks it has left,
so a tick (`Tick`, `Aged`) is the clock's doing and stands for no code. Ticks may
happen at any point, also between `AcceptEvidence` and `StoreVerdict`: a write
may be late.

### Proxy

One request is a goroutine; `phase` is its program counter: `auth`, `query`
(the query for verified pairs), `pick` (the provider rows and the choice),
`prepare` (sealing or not), `send`, `wait` (for the head of the answer), `body`,
`stream`. Each database read, the look-up of the client, the call and its
outcome are steps, and everything else may move between two of them. `cause`
records why a selection runs, because what the handlers do when none is left
differs: an error with a usage event at first, an error without one after a
network error or a skipped sealed route, and the answer at hand after a
retryable status. Every database call under the request's context may fail when
the client has gone (`gone`) or by a fault.

A handler may also end before anything is sent, in `PrepareFails`: a writer that
cannot flush (once, before the first attempt of a stream), a body that
`buildUpstreamRequestBody` cannot rewrite, or `NewRequest` failing.

A send to a `base_url` that `url.Parse` refuses dereferences a nil request:
net/http recovers the panic, so the request is `aborted`, without an answer
written by the handler.

### Startup

`main` is the position of the main goroutine, from `start` over the managed
proxies (`probe`, `wait`), the second application of the overrides (`override`),
validation, the database and the upserts to `serve` and `shutdown`; `conf` is the
loaded configuration, `table` the rows that outlive the process, `env` the
environment, `box` the container at the proxy's address (of this process if
`mine`). While it serves, and until it has shut down, the admin server writes rows
too (`CreateProvider`), any row at all and without the overrides; `foreign` is a
history of whose row is the admin server's. A row is what the overrides look at: where its address leads, its
tier, whether it has an attestation type. `Kill` ends the process at any point
before signals are caught; a start finds what an earlier one has left.

### Ehbp

One exchange: the bytes of a key configuration built around an attested key
and read back by length fields (`BuildKeyConfig`, `Parses`), then the answer as a
sequence of chunks, each with its length, the answer it was sealed for and its
number. `offset`, `at`, `seq` are the loop variables of `openFramedBody` (`at`
counts chunks as `offset` counts bytes). A chunk opens exactly under the nonce
and number it was sealed with; that is the assumption about HPKE and AES-GCM.
The body may be any sequence of chunks, cut anywhere, coded or not.

### RefreshTiming

`Start` with a clock: `toTick` and `ticked` are the ticker and its channel,
`asked` the refresh channel, `sweeping`, `since`, `judged` the sweep as far as one
pair goes, `left` what its verdict has left. A sweep takes up to `SweepTime`, and
evidence may be missed `Misses` times in a row.

### Fetcher, Listing, Cost

Each is one handler, with a step per query or request and whatever else writes
the tables between two of them. `Fetcher`: `todo`, `cur`, `attempt`, `answer` are
the locals of `FetchAllModels` and `FetchProviderModels`; `plain` is a
history, the providers that were plaintext in the listing of the fetch under way. `Listing`: `todo`, `mods`, `found`, `owners`, `list` are the locals of
`handleListModels`, and of `GetConfidentialityStatus` where `kind = "status"`.
`Cost`: a route carries the copy of the prices it was selected with; an answer is
read whole, not understood, or streamed.

### ModelNames, Keys

A name is a sequence of words and separators in lower case. Every step of
`NormalizeModelName` is an operator on such sequences, with what Go's regular
expressions do about overlapping matches (`StripDates`). Beside them are the rules of
the model policy, provider by provider: nanogpt, ppq and chutes serve what has their
mark (`tee/`, `private/`, `-tee`), tinfoil, near and privatemode whatever is not of a
family hosted elsewhere, redpill both together.

A row of `Keys` is a provider and a model as it lists it. The upsert stores any
row; the policy (`Eligible`) is applied where the code applies it, in the listing
and when a route is selected, to the name of the row and not of the request. A
request ends as `no_verified_provider` if no row has its canonical name and as
`no_suitable_provider` if none of those may be sent a chat. The patterns of a key
are matched with the name as it was asked for, the rows with the canonical one. What a client asks for
is what is listed, any respelling of an offered model (`Respelled`), or a name
from a fixed set.

### Abstractions

* Names: in all modules but `ModelNames` and `Keys`,
  `CanonicalModelName`, the model policy's string rules and the matching
  of key patterns are constants (`Canonical`, `Eligible`, `KeyNames`).
* The rows of the candidates of one selection are read in one step (`Pick`),
  after the query in another; a row that cannot be read drops its candidate.
* The region bonus is the same for all routes of a process and the random bonus
  smaller than the distance between tiers, so selection is any route of the best
  tier.
* `createProvider` and the start-up upserts are one step each; the latter run
  before the loop is started.
* Bodies, answers and reports have no content. Sealing is a record of what was
  sealed to whom.
* A graceful stop is a crash: the loop holds nothing that a stop would save.
* The race on `verifiedClients` is a crash (`Crash`, `Die`), which is how the Go
  runtime ends it when it detects it; a torn read is not modelled.

## 3. Runs

| run | question | instance |
|---|---|---|
| `attestation` | Are verdicts and clients honest whatever is edited, unreachable or killed under a sweep? | two providers (PPQ by bundle; tinfoil with a model the policy refuses), TTL 2, one edit out of three kinds, one fault |
| `refresh_loop` | Does the loop get round, do verdicts of a moved provider go away, and does it implement `Registry`? | one provider, two models, TTL 1, one edit, one fault, fair |
| `request` | Do failovers, sealed bodies, usage and heads stay in order while rows, verdicts, keys and the client move under one request, does it end, and do handlers and registry implement `VerifiedGateway`? | two providers, one over EHBP, at one host; one edit (a provider retyped, or demoted to a plaintext tier), one fault, unrestricted key, fair |
| `startup` | Do start-up and shutdown hold together whatever container, signals and administrator do? | seven files with rows of `privatemode`, `ppq` and another provider, environments with and without each address, key and proxy, one row for the administrator, two starts, one fault, fair |
| `ehbp` | What does a client get of a sealed answer that is framed, cut or changed in any way? | keys of ten lengths, two answers to a request and one to another, up to three chunks, fair |
| `keys` | Does a key reach what it names, a name its model, and a family hosted elsewhere nobody without a mark, under replaced keys and any spelling? | 16 rows of five providers: names put together in different ways, of families hosted elsewhere with a mark and without, and of no chat model, each respelled; three patterns beside copied names, one in a key; two rows at a time |
| `listing` | Is a listing true, and complete, though it is read query by query? | two providers, three models, two of one name, one write, one failing query |
| `refresh_timing` | Do verdicts lapse between sweeps? | interval 3, sweeps up to 4, two misses, TTL 17, one above the least without a gap |
| `fetcher` | Is what a fetch adds let through by the policy for the rows it listed, and does each fetch end? | ppq and another provider, two models, two attempts, one change, fair |
| `moved_provider` | Are requests sent only where somebody has looked? No. | as `request`, with an edit that moves ppq to another host |
| `direct_privatemode` | Is PrivateMode's public API, where the configuration names it, downgraded to plaintext? No. | as `startup` |
| `booked_price` | Is the cost the documented price of the tokens? No. | two providers, two spellings, prices edited once, a million of 5 |

### Bounds, and why they are enough

* `MaxEdits = 1`: one edit separates the row a sweep works on, or a request
  holds a copy of, from the row in the table; a second edit only changes which
  two rows differ. The edit may move a provider (not in `request`, where
  `moved_provider` has it), change its kind, or demote it.
* `MaxFaults = 1`: one crash or one database error at any point. A crash clears
  the state of the process, so crashes compose by restarting.
* `TTL = 2` lets a verdict be fresh, aged and dead; `TTL = 1` still lets it run
  out between its making and its storing.
* One request: handlers share nothing with one another but the registry and the
  keys, which they only read, so another request can add nothing.
* Two providers are the least for a failover: forgetting whom it has tried, a
  request can go back to the first of two, and for ever between them.
* One key, for all providers: that a request keeps to what its key allows is proved
  (`KeysAreKept`) and no run checks it, as a second key makes the instance larger
  than a run should be.
* No row of the instances has an address that does not parse (`Unparsable` is
  empty): that branch of `Send` ends the request, and only the theorems cover it.
* All three bounds are parameters of the theorems, which hold for all values.
* `Startup`: `MaxStarts = 2` lets a start find the table and the container of an
  earlier one; one fault is a failing docker, a write that is lost or an
  endpoint that dies. The files and environments are a handful of those there
  are: each branch of the overrides is taken, in either application. The theorems
  are about all of them, and drop both bounds.
* `Ehbp`: three chunks hold an answer of two pieces with an empty one between, a
  swapped pair, a repetition, and a chunk of another exchange; `Limit = 9` cuts
  within a length, within a chunk and between two.
* `Listing`: one write separates any two queries of the reading, and one failing
  query is told from none; two would only leave out more.
* `Cost`: the real million needs numbers TLC has no use for; with 5 the product of
  the largest price and token count, divided once, is rounded up and down and to
  zero, as with the real one; the second division takes away what is left.
* `Fetcher`: two attempts let a retry succeed or be the last; one change falls
  between the query of the rows and the storing of an answer. Fetches repeat
  without a bound.
* `Keys`: the rows have each kind of ending, prefix and mark at least once. Two
  rows let one be refused by the policy and the other, of the same canonical name,
  be served; one pattern in a key is enough, as a key allows what one of its
  patterns does. The theorems are about all names, rows and keys.

### Fairness

The loop's goroutine is always scheduled and its HTTP clients have timeouts, so
`SweeperStep` is weakly fair; the one exception is the fetch of the tinfoil
library, outside the repository, which is assumed to end. The ticker and the
clock go on. Of a request, `Handle` is weakly fair: Go schedules its goroutine,
and `http.Client.Timeout` (120 s, `internal/proxy/proxy.go`) bounds the upstream
call with its body, streams included. `Restart` and `Boot` are not fair, since
nothing in the repository restarts the process: properties that need a process
say "or it is down".

`MainStep` of `Startup` is weakly fair: readiness is polled with a two second
timeout until a deadline, and `docker stop` is waited for with one. `Next` of
`Ehbp` is: the exchange is under the same 120 seconds. `FetchStep` of `Fetcher` is: its client gives up after
30 seconds (`internal/providers/fetcher.go:29`).

### Findings

* A provider row that is moved keeps its live verdicts (`moved_provider`):
  requests go to a deployment nobody has verified, for up to `verdict_ttl`.
  `StaleVerdictDies` says that this ends.
* A row of the encrypted tier that the configuration points at PrivateMode's direct
  API is not downgraded (`direct_privatemode`): the override demotes the
  confidential tier only (`internal/config/config.go:148`), though
  `encproxy.example.toml:89` says the direct API "is downgraded to plaintext", and
  routing counts both tiers as confidential (`internal/modelpolicy/modelpolicy.go:12`).
  `DirectOnlyAsEncrypted` says that it is the one way this can happen in a row that
  `main` wrote; to rows of the admin API no override is applied at all.
* Costs are divided by a million twice (`booked_price`), so that at realistic
  prices every answer is booked with nothing.

Also seen while modelling, without a run of their own:

* Between the two writes of a verification `GetVerifiedClient` can return the
  previous client although the live verdict is about the new one
  (`internal/attestation/attestation.go:178`).
* A tinfoil client without an HPKE key, of a provider retyped to `ppq-private`,
  makes a route that needs EHBP go out unsealed (`internal/proxy/proxy.go:177`).
* Some canonical names have another canonical name, so that what the listing
  shows does not find their rows (`internal/models/normalize.go:102`, two dates in
  a row); two versions of a model have one (`normalize.go:109`); a family hosted
  elsewhere is not recognised behind a further prefix, as in `near/x-ai/grok`
  (`internal/modelpolicy/modelpolicy.go:93`).
* A key is matched with the spelling of a request, everything else with the
  canonical name (`internal/authz/authz.go:43`).
* The listing counts rows as providers (`internal/proxy/proxy.go:524`), and the
  price is looked up by the name of the request instead of the model that answers
  (`proxy.go:297`).

## 4. Proofs

Each module of theorems is named after the module it proves about. They prove,
for all values of the constants that satisfy the named assumptions, what the runs
check on small ones; `AttestationProofs` and `ProxyProofs` end with the two
refinements. The assumptions on the constants are typing (`RowAssumption`,
`TTLAssumption`, `BoundAssumption`, `KeyAssumption`, `NameAssumption`,
`AliasAssumption`) and that the "nothing" values are none of the
values they stand beside (`NothingAssumption`, `NothingSeenAssumption`,
`NoClientAssumption`, `AbsentAssumption`).

Those of `Startup` are that a file and an environment do not name the managed
address, which is made up by the process, and nor do the rows of the admin API
(`FileAssumption`, `EnvironmentAssumption`, `AdminAssumption`); those of `Ehbp` that chunks belong to answers
(`ChunkAssumption`) and that tags differ; that of `Listing` that there are finitely
many providers (`FiniteAssumption`: they are rows of a table). `ModelNames` assumes
of the prefixes that each ends in a slash and has no other (`PrefixAssumption`),
and of the aliases that they lead to no other of the families hosted elsewhere
(`AliasFamilyAssumption`); both are read off the lists in `normalize.go`. That a
date is neither a separator nor a slash (`WordAssumption`) is its regular
expression, eight digits.
`TTLAssumption` of `RefreshTiming`,
`VerdictTTL > (Misses + 1) * Longest + SweepTime`, is a demand on the settings
that the code does not check: the default settings meet it as long as sweeps are
short. With equality `NeverLapses` fails, so it cannot be weakened.

| theorem | inductive invariant, and why the property is not inductive |
|---|---|
| `TypeCorrect` | `TypeOK` itself: it ties the sweeper's position to what it has in hand |
| `EvidenceIsFresh` | `FreshInv`: the bound also for the draft, which `StoreVerdict` copies, and for failed verdicts, which have none left |
| `JudgesOnlyEligible` | `JudgedInv`: also for the jobs and the pair in hand; relies on offers never being taken back |
| `CacheAgrees` | `AgreementInv`: while the map is still to be written, the stored verdict is the sweeper's draft, both aged alike |
| `RefreshIsNotLost` | the property itself |
| `OnlyTimeEndsVerdicts` | `DraftInv`: the stored verdict has no more left than the draft made after it, so a late write of a dead draft cannot replace a live verdict |
| `AttestationImplementsRegistry` | `RefInv`, `KnownInv`, `JudgedInv`: whatever a sweep holds was a row of its provider, the present one when nothing was edited, and the draft is evidence for it |
| `HandlersTypeCorrect` | `HandlersInv`: also that a head is out exactly while a stream is relayed, and that no request has a reason to select again before its first selection; typing needs both, because heads are counted and because a selection after the first must have a route behind it, whose answer may be the one at hand |
| `NoSecondAnswer` | the same `HandlersInv`: of all the steps of a handler, those from `stream` are the only ones after a head |
| `KeysAreKept`, `NobodyIsAskedTwice` | `ContactInv`: everybody contacted is allowed and is recorded as attempted, or is the provider of the current attempt, which `tried` does not list yet; and whoever is a candidate, or the route, is allowed and not among them |
| `SealsFit`, `DemandsAreMet`, `UsageIsHonest` | `AttemptInv`: what an attempt carries fits its route from the moment it is prepared; while a retryable answer is kept for the case that no route is left, the route it came by is still the one contacted last |
| `StartupTypeCorrect`, `EhbpTypeCorrect`, `TimingTypeCorrect` | `TypeOK`, for `Ehbp` with `FreshInv` (nothing is read before the opening begins), for `RefreshTiming` with `TimingInv`, which bounds the pause between two sweeps |
| `OverridesAreSettled` | `SettledInv`: before the second application the configuration is what the first made in a smaller environment; the lemma is that adding an address afterwards gives what it would have given at once |
| `DirectIsOnlyEncrypted`, `ManagedAddressHasAnswered` | `PrivateModeInv`: the same of configuration, table and environment, as each is copied from another; of the table where `main` wrote it |
| `NoContainerIsLeft` | `ContainerInv`: a process has a container of its own only behind the point where it starts one, and one that never serves starts none |
| `RequestIsSealedToTheAttestedKey` | `SealedInv`, from byte arithmetic: a key of another length shifts the length field into one that is refused |
| `OpenedAnswerIsPrefix` | `PlainInv`: what is open is the first `seq` pieces of the answer with this nonce |
| `VerdictsAreRenewedInTime` | `TimingInv`: what a verdict has left, the time since the sweep began and a period for each sweep that missed come to the TTL at least |
| `AnswerIsOpenedWhole` | `PlaceInv`: `offset` is the number of units, `seq` the number of sealed chunks, of what the reader has passed. Both are sizes of sets, so that a step adds a set and no sum has to be unrolled |
| `AnswerArrives` | `PlaceInv`, `PlainInv` and `FaithfulInv`: in an answer that was left alone the loop finds nothing to complain of, as every sealed chunk is numbered by the sealed ones before it |
| `PolicyIsKept` | `PolicyInv`: every row the fetch has still to do, or has in hand, is of a confidential tier or of a provider its listing had as plaintext |
| `NothingDeadIsListed` | `WasInv` over `ReadInv`: what each query has found was so when it ran, for every one of the locals it is copied through |
| `NamesAreListedOnce` | `UniqueInv`: also that an entry of the status document is of one eligible pair |
| `SteadyModelsAreListed` | `SteadyInv`: each provider that was passed over for a steady model has cost a query that failed, so those missed are never more than `faults` (`MissedInv`), and what was not missed is on its way to the list (`CompleteInv`, `StatusInv`) |
| `KeysNameTheirModels` | `GrantInv`: a request at work was let through by the copy of the key it came with, and its route has the canonical name it asked for; the lemma is that a pattern without a wildcard matches itself alone |
| `RemoteFamiliesAreNotServed` | `GrantInv`: a route has the canonical name that was asked for and was let through by the policy; and `CanonicalFamily`: what a name begins with behind the prefixes, and a hyphen after it, survive every step of `NormalizeModelName`, so the row is known as remote (`FamilyIsRemote`; `GptOssStays` keeps gpt-oss out of it) and only a provider with a mark takes it (`RemoteIsMarked`) |
| `CopiedNamesAreServed` | none: each action keeps it by itself |
| `SpellingsFindTheRow` | `GrantInv` for the names of the rows, and `RespelledCanonical`: of prefixes only the one that ends at the next slash fits (`BehindOnce`), so one more goes alone (`PrefixGoes`); a date behind the last slash stays where it is while the prefixes go (`DateStays`) and the separators are normalised, which leaves a hyphen or nothing behind it (`DateBetweenSeparators`), and then goes (`DateGoes`) |
| `HandlersImplementGateway` | `ContactInv`, and that a request that has not begun has no key |

The mapping of `AttestationImplementsRegistry` is part of `Attestation` (`R`):
`up` is `sweeper # "down"`, `evidence` what live verdicts say, `pending` the
client between the two writes. Most steps of the sweep are unseen;
`StoreVerdict` is `Vouch`, `CacheClient` is `Cache`, a tick is a `Lapse`, and the
failures are `Mishap`.

That of `HandlersImplementGateway` is part of `Proxy` (`G`): the shortlist is the
candidates of a selection and then its one route, until the request is handed
over; `Query` is `Shortlist`, `Pick` is `Settle`, `Send` is `Hand`, whatever ends
a request is `Finish`, and the death of the process is `Fall`. Its proof splits
frame and effect: `OthersKeep` says that a step of one request leaves the others
alone, so each action is proved about the one request it moves.

What the functions on names do to a name of any length takes induction over the
name. The library's induction theorems have an operator for a parameter, which the
provers do not instantiate, so `KeysProofs` begins with its own, about sets and
functions: that a set of numbers has a least one (`LeastNatural`, from the
library's order on finite sets, which is well founded), induction by rank
(`RankedInduction`) and that a recursive definition which goes down in rank has a
solution (`RankedRecursion`). `StripProviderPrefix`, `NormalizeSeparators` and
`StripDates` are then unfolded (`...Unfolds`) like any definition. The first word
of a name is followed through all of them for the families (`...Begins`), and a
whole name through its other spellings for `RespelledCanonical`.

Two things the proofs changed in the model. `ListedWasServable` said of the models
list that a row's name canonicalised twice is the entry's, which is true on the
instance only because canonical names are canonical there; it now says what the
query compares. `HostedElsewhereIsNotServed` said of every name that starts with
such a family what is true only when the family is a word of its own:
"claude/x" is no name of the family for the policy, and the property says so now.

Only model-checked: the liveness properties (`SweepEnds`, `EveryPairTakenUp`,
`StaleVerdictDies`, `EveryRequestEnds`, `StartAndStopEnd`, `ExchangeEnds`,
`FetchEnds`), which the prover cannot treat, and the three properties of the
findings, which do not hold. Every other property of a run is a theorem, and
`KeysAreKept` is a theorem without a run.

## 5. Plan

The modules of the plan are written, and what can be proved of their properties
is. What is left is `Keys` composed with `Proxy`, so that `KeyNames` is what the
patterns match.

### Not modelled

* The cryptography of EHBP and the parsing of attestation reports: a chunk opens
  or not, evidence is accepted, refused or missing.
* Markers within a word: `SupportsChatCompletions` looks for "tts" anywhere in a
  name, the model for a word of its own. In modules but `Keys` what the policy lets
  through is a constant.
* Two readings of one row's JSON by selection and sending: `NeedsEHBP` is one
  operator (`internal/routing/routing.go:178`).
* `pricing_history`, `ListAPIKeys`, `EstimateTokens`, `ensurePPQ`, the regions of a
  key: nothing decides by them. `deleteProvider` answers and does nothing.
* Tinfoil's library and the providers are outside the repository; the container
  of the managed proxy is modelled by what `managedproxies.go` sees of it.
* Logging, the wording of answers, `cmd/listmodels`.
