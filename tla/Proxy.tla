------------------------------- MODULE Proxy -------------------------------
(***************************************************************************)
(* The chat completion handlers (internal/proxy/proxy.go) with the         *)
(* selection they call (internal/routing/routing.go), the authorization of *)
(* internal/authz/authz.go, the API keys and usage events of               *)
(* internal/database, composed with the registry of verified pairs that    *)
(* the attestation service keeps.                                          *)
(*                                                                         *)
(* Every request is a goroutine of its own. Each of its database reads,    *)
(* its look-up of a verified client, its upstream call and the end of that *)
(* call is a step, and between any two of them the sweeper, the admins,    *)
(* the clock, other requests, the client and a crash may act.              *)
(***************************************************************************)
EXTENDS Registry

CONSTANTS
  Request,       \* chat completion requests
  Key,           \* API keys
  KeyProviders,  \* [Key -> SUBSET Provider]: allowed_providers, {} for any
  KeyNames,      \* [Key -> SUBSET Name]: what allowed_models matches, {} for any
  Unparsable,    \* deployments whose base_url url.Parse refuses
  NoRoute, NoSecret, NoUsage, NoAsk

Ask == [key : Key, name : Name, stream : BOOLEAN]

\* The secret of an EHBP exchange belongs to one client and one deployment.
Secret == [pair : Pair, client : Client]
Usage == [status : {"success", "error"}, provider : SUBSET Provider]

ASSUME KeyAssumption == /\ KeyProviders \in [Key -> SUBSET Provider]
                        /\ KeyNames \in [Key -> SUBSET Name]
ASSUME AbsentAssumption == /\ NoRoute \notin Route
                           /\ NoSecret \notin Secret
                           /\ NoUsage \notin Usage
                           /\ NoAsk \notin Ask

VARIABLES
  keys,        \* [Key -> "unborn", "live" or "deleted"]: table api_keys
  ask,         \* what each request asks for, and with which key
  phase,       \* where its handler is
  cause,       \* why it is selecting a provider
  cands,       \* the verified pairs its last selection query returned
  route,       \* the route it is on, with its copy of the provider row
  tried,       \* FailoverState.AttemptedProviders
  sealed,      \* the body of the current attempt is EHBP encrypted
  secret,      \* the context's ehbp_exported_secret, kept over failovers
  heads,       \* response heads written to the client
  usage,       \* its row of usage_events
  gone,        \* the client has left and the context is cancelled
  contacted    \* history: providers its body was sent to

reqVars == <<ask, phase, cause, cands, route, tried, sealed, secret, heads,
             usage, gone, contacted>>
vars == <<up, providers, offers, evidence, clients, pending, edits, faults,
          keys, ask, phase, cause, cands, route, tried, sealed, secret, heads,
          usage, gone, contacted>>

Phases == {"idle", "auth", "query", "pick", "prepare", "send", "wait", "body",
           "stream", "done", "aborted", "dead"}
Over == {"done", "aborted", "dead"}
Active(r) == phase[r] \notin Over \cup {"idle"}

TypeOK ==
  /\ RegTypeOK
  /\ keys \in [Key -> {"unborn", "live", "deleted"}]
  /\ ask \in [Request -> Ask \cup {NoAsk}]
  /\ phase \in [Request -> Phases]
  /\ cause \in [Request -> {"first", "sealed", "neterr", "status"}]
  /\ cands \in [Request -> SUBSET Pair]
  /\ route \in [Request -> Route \cup {NoRoute}]
  /\ tried \in [Request -> SUBSET Provider]
  /\ sealed \in [Request -> BOOLEAN]
  /\ secret \in [Request -> Secret \cup {NoSecret}]
  /\ heads \in [Request -> 0..2]
  /\ usage \in [Request -> Usage \cup {NoUsage}]
  /\ gone \in [Request -> BOOLEAN]
  /\ contacted \in [Request -> SUBSET Provider]
  /\ \A r \in Request :
       /\ phase[r] # "idle" => ask[r] \in Ask \/ phase[r] \in Over
       /\ phase[r] \in {"prepare", "send", "wait", "body", "stream"} => route[r] \in Route
       /\ phase[r] \in {"query", "pick"} /\ cause[r] # "first" => route[r] \in Route

Init ==
  /\ RegInit
  /\ keys \in [Key -> {"unborn", "live"}]
  /\ ask = [r \in Request |-> NoAsk]
  /\ phase = [r \in Request |-> "idle"]
  /\ cause = [r \in Request |-> "first"]
  /\ cands = [r \in Request |-> {}]
  /\ route = [r \in Request |-> NoRoute]
  /\ tried = [r \in Request |-> {}]
  /\ sealed = [r \in Request |-> FALSE]
  /\ secret = [r \in Request |-> NoSecret]
  /\ heads = [r \in Request |-> 0]
  /\ usage = [r \in Request |-> NoUsage]
  /\ gone = [r \in Request |-> FALSE]
  /\ contacted = [r \in Request |-> {}]

-----------------------------------------------------------------------------
(***************************************************************************)
(* Helpers of the handlers.                                                *)
(***************************************************************************)


\* CheckProviderAllowed, and the same filter in the selection.
Allowed(k, p) == KeyProviders[k] = {} \/ p \in KeyProviders[k]

Goto(r, ph) == phase' = [phase EXCEPT ![r] = ph]

\* writeError or writeStreamingError, then return.
AnswerError(r) == /\ heads' = [heads EXCEPT ![r] = @ + 1]
                  /\ Goto(r, "done")

\* recordUsage under the request's context: a cancelled context loses the event,
\* and so does a failed insert, which nobody is told of.
Record(r, status, ps) ==
  \/ UNCHANGED usage
  \/ ~gone[r] /\ usage' = [usage EXCEPT ![r] = [status |-> status, provider |-> ps]]

\* A database call under the request's context fails.
DbError(r) == \/ gone[r] /\ UNCHANGED faults
              \/ faults < MaxFaults /\ faults' = faults + 1

RegUnchanged == UNCHANGED <<up, providers, offers, evidence, clients, pending, edits>>

-----------------------------------------------------------------------------
(***************************************************************************)
(* handleChatCompletions.                                                  *)
(***************************************************************************)

\* Wrong method, no key, an unreadable body or no model: refused at once.
Malformed(r) ==
  /\ up /\ phase[r] = "idle"
  /\ AnswerError(r)
  /\ RegUnchanged
  /\ UNCHANGED <<faults, keys, ask, cause, cands, route, tried, sealed, secret, usage, gone,
                 contacted>>

Arrive(r) ==
  /\ up /\ phase[r] = "idle"
  /\ \E a \in Ask : ask' = [ask EXCEPT ![r] = a]
  /\ Goto(r, "auth")
  /\ RegUnchanged
  /\ UNCHANGED <<faults, keys, cause, cands, route, tried, sealed, secret, heads, usage,
                 gone, contacted>>

Authorized(a) == /\ keys[a.key] = "live"
                 /\ KeyNames[a.key] = {} \/ a.name \in KeyNames[a.key]

\* AuthorizeRequest; the key's restrictions are kept for the whole request.
Authorize(r) ==
  /\ phase[r] = "auth"
  /\ IF Authorized(ask[r])
     THEN Goto(r, "query") /\ UNCHANGED heads
     ELSE AnswerError(r)
  /\ RegUnchanged
  /\ UNCHANGED <<faults, keys, ask, cause, cands, route, tried, sealed, secret, usage,
                 gone, contacted>>

\* A failed read of the key counts as an invalid key.
AuthorizeFails(r) ==
  /\ phase[r] = "auth" /\ DbError(r)
  /\ AnswerError(r)
  /\ RegUnchanged
  /\ UNCHANGED <<keys, ask, cause, cands, route, tried, sealed, secret, usage, gone,
                 contacted>>

-----------------------------------------------------------------------------
(***************************************************************************)
(* SelectProvider and NextProvider: first the query for verified pairs,    *)
(* then the rows of their providers.                                       *)
(***************************************************************************)

\* GetProviderModelsWithVerification, less the providers already attempted and
\* those the key does not allow.
MutantSelectable(r, pr) ==
  /\ pr \in offers
  /\ Canonical[pr[2]] = ask[r].name
  /\ pr[1] \notin tried[r]
  /\ Allowed(ask[r].key, pr[1])
Selectable(r, pr) ==
  /\ pr \in offers
  /\ Canonical[pr[2]] = ask[r].name
  /\ evidence[pr] # NoEvidence
  /\ pr[1] \notin tried[r]
  /\ Allowed(ask[r].key, pr[1])

Query(r) ==
  /\ phase[r] = "query"
  /\ cands' = [cands EXCEPT ![r] = {pr \in Pair : Selectable(r, pr)}]
  /\ Goto(r, "pick")
  /\ RegUnchanged
  /\ UNCHANGED <<faults, keys, ask, cause, route, tried, sealed, secret, heads, usage,
                 gone, contacted>>

\* What the handlers do when no route is left, by the reason they looked for one.
MutantNoRouteLeft(r) == Goto(r, "body") /\ UNCHANGED <<heads, usage>>
NoRouteLeft(r) ==
  \/ /\ cause[r] = "first"
     /\ AnswerError(r) /\ Record(r, "error", {})
  \/ /\ cause[r] \in {"sealed", "neterr"}
     /\ AnswerError(r) /\ UNCHANGED usage
  \/ /\ cause[r] = "status"
     /\ Goto(r, "body") /\ UNCHANGED <<heads, usage>>

\* A candidate whose provider row cannot be read is passed over.
Pick(r) ==
  /\ phase[r] = "pick"
  /\ \E read \in SUBSET cands[r] :
       /\ (read = cands[r] /\ UNCHANGED faults) \/ DbError(r)
       /\ LET routes == BestRoutes(RoutesOf(read, providers, "confidential")) IN
            \/ \E rt \in routes : /\ route' = [route EXCEPT ![r] = rt]
                                  /\ Goto(r, "prepare")
                                  /\ UNCHANGED <<heads, usage>>
            \/ routes = {} /\ NoRouteLeft(r) /\ UNCHANGED route
  /\ cands' = [cands EXCEPT ![r] = {}]
  /\ RegUnchanged
  /\ UNCHANGED <<keys, ask, cause, tried, sealed, secret, gone, contacted>>

\* The query itself fails.
QueryFails(r) ==
  /\ phase[r] = "query" /\ DbError(r)
  /\ NoRouteLeft(r)
  /\ RegUnchanged
  /\ UNCHANGED <<keys, ask, cause, cands, route, tried, sealed, secret, gone, contacted>>

MutantMarkAttempted(r) == [tried EXCEPT ![r] = {route[r].provider}]
MarkAttempted(r) == [tried EXCEPT ![r] = @ \cup {route[r].provider}]

\* MarkAttempted, then NextProvider.
FailOver(r, why) ==
  /\ tried' = MarkAttempted(r)
  /\ cause' = [cause EXCEPT ![r] = why]
  /\ Goto(r, "query")

RoutePair(r) == <<route[r].provider, route[r].model>>

-----------------------------------------------------------------------------
(***************************************************************************)
(* One attempt: preparing the body, the upstream call, its outcome.        *)
(***************************************************************************)

\* A streaming request passes over a provider that needs an encrypted body.
SkipSealed(r) ==
  /\ phase[r] = "prepare" /\ ask[r].stream /\ NeedsEHBP(route[r].row)
  /\ FailOver(r, "sealed")
  /\ RegUnchanged
  /\ UNCHANGED <<faults, keys, ask, cands, route, sealed, secret, heads, usage, gone,
                 contacted>>

MutantGoesPlain(r) == ask[r].stream \/ ~NeedsEHBP(route[r].row)
GoesPlain(r) == ~NeedsEHBP(route[r].row)

PreparePlain(r) ==
  /\ phase[r] = "prepare" /\ GoesPlain(r)
  /\ sealed' = [sealed EXCEPT ![r] = FALSE]
  /\ Goto(r, "send")
  /\ RegUnchanged
  /\ UNCHANGED <<faults, keys, ask, cause, cands, route, tried, secret, heads, usage, gone,
                 contacted>>

\* GetVerifiedClient finds a cached client, and a live verdict for the pair.
HasVerifiedClient(pr) == clients[pr] # NoClient /\ evidence[pr] # NoEvidence

\* The values put into the request's context, which is handed on to failovers.
MutantContextSecret(r, vc) ==
  IF vc.key /\ secret[r] = NoSecret
  THEN [secret EXCEPT ![r] = [pair |-> RoutePair(r), client |-> vc]]
  ELSE secret
ContextSecret(r, vc) ==
  IF vc.key THEN [secret EXCEPT ![r] = [pair |-> RoutePair(r), client |-> vc]]
  ELSE secret

\* The body is sealed to the key of the cached client, if that has one.
Seal(r) ==
  /\ phase[r] = "prepare" /\ ~ask[r].stream /\ NeedsEHBP(route[r].row)
  /\ HasVerifiedClient(RoutePair(r))
  /\ LET vc == clients[RoutePair(r)] IN
       /\ sealed' = [sealed EXCEPT ![r] = vc.key]
       /\ secret' = ContextSecret(r, vc)
  /\ Goto(r, "send")
  /\ RegUnchanged
  /\ UNCHANGED <<faults, keys, ask, cause, cands, route, tried, heads, usage, gone,
                 contacted>>

\* No verified client, a key EncryptRequest cannot use, or a failed look at the
\* verdicts (not under the request's context): no failover.
SealFails(r) ==
  /\ phase[r] = "prepare" /\ ~ask[r].stream /\ NeedsEHBP(route[r].row)
  /\ \/ (HasVerifiedClient(RoutePair(r)) => clients[RoutePair(r)].key) /\ UNCHANGED faults
     \/ faults < MaxFaults /\ faults' = faults + 1
  /\ AnswerError(r) /\ Record(r, "error", {route[r].provider})
  /\ RegUnchanged
  /\ UNCHANGED <<keys, ask, cause, cands, route, tried, sealed, secret, gone,
                 contacted>>

\* A stream whose response writer cannot be flushed, a body that cannot be made
\* out for the route, an upstream request that cannot: nothing is recorded.
PrepareFails(r) ==
  /\ \/ /\ phase[r] = "prepare"
        /\ ask[r].stream /\ NeedsEHBP(route[r].row) => cause[r] = "first"
     \/ /\ phase[r] = "send"
        /\ route[r].row.host \notin Unparsable
  /\ AnswerError(r)
  /\ RegUnchanged
  /\ UNCHANGED <<faults, keys, ask, cause, cands, route, tried, sealed, secret, usage,
                 gone, contacted>>

\* The request goes out, with the provider's API key. A base_url that does not
\* parse is a nil dereference: net/http recovers and drops the connection.
Send(r) ==
  /\ phase[r] = "send"
  /\ IF route[r].row.host \in Unparsable
     THEN Goto(r, "aborted") /\ UNCHANGED contacted
     ELSE /\ Goto(r, "wait")
          /\ contacted' = [contacted EXCEPT ![r] = @ \cup {route[r].provider}]
  /\ RegUnchanged
  /\ UNCHANGED <<faults, keys, ask, cause, cands, route, tried, sealed, secret, heads,
                 usage, gone>>

\* No answer, a refused connection, the client's timeout or a cancelled
\* context: a streaming request fails over, another one does not.
NetworkError(r) ==
  /\ phase[r] = "wait"
  /\ \/ /\ ask[r].stream
        /\ FailOver(r, "neterr") /\ UNCHANGED <<heads, usage>>
     \/ /\ ~ask[r].stream
        /\ AnswerError(r) /\ Record(r, "error", {route[r].provider})
        /\ UNCHANGED <<tried, cause>>
  /\ RegUnchanged
  /\ UNCHANGED <<faults, keys, ask, cands, route, sealed, secret, gone, contacted>>

MutantRetryableAnswer(r) ==
  /\ phase[r] = "wait"
  /\ FailOver(r, "status")
  /\ heads' = IF ask[r].stream THEN [heads EXCEPT ![r] = 1] ELSE heads
  /\ RegUnchanged
  /\ UNCHANGED <<faults, keys, ask, cands, route, sealed, secret, usage, gone, contacted>>

\* An answer with a status of RetryableHTTPStatus.
RetryableAnswer(r) ==
  /\ phase[r] = "wait"
  /\ FailOver(r, "status")
  /\ RegUnchanged
  /\ UNCHANGED <<faults, keys, ask, cands, route, sealed, secret, heads, usage, gone,
                 contacted>>

FinalAnswer(r) ==
  /\ phase[r] = "wait"
  /\ Goto(r, "body")
  /\ RegUnchanged
  /\ UNCHANGED <<faults, keys, ask, cause, cands, route, tried, sealed, secret, heads,
                 usage, gone, contacted>>

\* The provider named in the event of a success.
MutantAnswerer(r) == IF tried[r] = {} THEN {route[r].provider} ELSE tried[r]
Answerer(r) == {route[r].provider}

\* The body is read (and opened, if a secret and a nonce are there), the event
\* recorded as a success whatever the status, the answer relayed.
RelayBody(r) ==
  /\ phase[r] = "body" /\ ~ask[r].stream
  /\ heads' = [heads EXCEPT ![r] = @ + 1]
  /\ Record(r, "success", Answerer(r))
  /\ Goto(r, "done")
  /\ RegUnchanged
  /\ UNCHANGED <<faults, keys, ask, cause, cands, route, tried, sealed, secret, gone,
                 contacted>>

ReadFails(r) ==
  /\ phase[r] = "body" /\ ~ask[r].stream
  /\ AnswerError(r)
  /\ RegUnchanged
  /\ UNCHANGED <<faults, keys, ask, cause, cands, route, tried, sealed, secret, usage,
                 gone, contacted>>

\* The event stream is opened with status 200, whatever the provider's was.
OpenStream(r) ==
  /\ phase[r] = "body" /\ ask[r].stream
  /\ heads' = [heads EXCEPT ![r] = @ + 1]
  /\ Goto(r, "stream")
  /\ RegUnchanged
  /\ UNCHANGED <<faults, keys, ask, cause, cands, route, tried, sealed, secret, usage,
                 gone, contacted>>

\* A gzip body whose header cannot be read: a second head is written, in vain.
GzipFails(r) ==
  /\ phase[r] = "stream"
  /\ AnswerError(r)
  /\ RegUnchanged
  /\ UNCHANGED <<faults, keys, ask, cause, cands, route, tried, sealed, secret, usage,
                 gone, contacted>>

\* The stream ends, well or not; its event is recorded under a context of its own.
EndStream(r) ==
  /\ phase[r] = "stream"
  /\ \/ UNCHANGED usage
     \/ usage' = [usage EXCEPT ![r] = [status |-> "success", provider |-> Answerer(r)]]
  /\ Goto(r, "done")
  /\ RegUnchanged
  /\ UNCHANGED <<faults, keys, ask, cause, cands, route, tried, sealed, secret, heads,
                 gone, contacted>>

-----------------------------------------------------------------------------
(***************************************************************************)
(* The surroundings.                                                       *)
(***************************************************************************)

ClientLeaves(r) ==
  /\ Active(r) /\ ~gone[r]
  /\ gone' = [gone EXCEPT ![r] = TRUE]
  /\ RegUnchanged
  /\ UNCHANGED <<faults, keys, ask, phase, cause, cands, route, tried, sealed, secret,
                 heads, usage, contacted>>

CreateAPIKey(k) ==
  /\ up /\ keys[k] = "unborn"
  /\ keys' = [keys EXCEPT ![k] = "live"]
  /\ RegUnchanged /\ UNCHANGED <<faults, reqVars>>

DeleteAPIKey(k) ==
  /\ up /\ keys[k] = "live"
  /\ keys' = [keys EXCEPT ![k] = "deleted"]
  /\ RegUnchanged /\ UNCHANGED <<faults, reqVars>>

RegistryMoves == RegStep /\ UNCHANGED <<keys, reqVars>>

\* The process dies and takes its requests with it.
ProcessDies ==
  /\ Die
  /\ phase' = [r \in Request |-> IF Active(r) THEN "dead" ELSE phase[r]]
  /\ UNCHANGED <<keys, ask, cause, cands, route, tried, sealed, secret, heads, usage,
                 gone, contacted>>

\* What the goroutine of a request does by itself, once it has arrived. The
\* upstream call ends: http.Client.Timeout bounds it, its body included.
Handle(r) ==
  \/ Authorize(r) \/ AuthorizeFails(r)
  \/ Query(r) \/ Pick(r) \/ QueryFails(r)
  \/ SkipSealed(r) \/ PreparePlain(r) \/ Seal(r) \/ SealFails(r)
  \/ PrepareFails(r) \/ Send(r)
  \/ NetworkError(r) \/ RetryableAnswer(r) \/ FinalAnswer(r)
  \/ RelayBody(r) \/ ReadFails(r) \/ OpenStream(r) \/ GzipFails(r) \/ EndStream(r)

RequestStep(r) == Malformed(r) \/ Arrive(r) \/ Handle(r) \/ ClientLeaves(r)

Next ==
  \/ \E r \in Request : RequestStep(r)
  \/ \E k \in Key : CreateAPIKey(k) \/ DeleteAPIKey(k)
  \/ RegistryMoves
  \/ ProcessDies

Spec == Init /\ [][Next]_vars

\* Go schedules every goroutine, and every upstream call ends.
FairSpec == Spec /\ \A r \in Request : WF_vars(Handle(r))

-----------------------------------------------------------------------------
(***************************************************************************)
(* Properties.                                                             *)
(***************************************************************************)

\* Whatever happens to keys, rows and verdicts during its failovers, a request
\* is sent only to providers the key it came with allows.
ContactsWithinKey ==
  \A r \in Request :
    contacted[r] # {} => \A p \in contacted[r] : \/ KeyProviders[ask[r].key] = {}
                                                 \/ p \in KeyProviders[ask[r].key]

\* The body of a streaming request never goes to a provider that takes only
\* encrypted bodies, and no body goes out in the name of a plaintext tier.
SentAsTheRouteDemands ==
  \A r \in Request :
    phase[r] \in {"send", "wait", "body", "stream"} =>
      /\ ask[r].stream => ~NeedsEHBP(route[r].row)
      /\ IsConfidentialTier(route[r].row.tier)
      /\ RoutePair(r) \in Eligible

\* A sealed body was sealed for the pair it is sent to, with the secret that
\* will open the answer.
SealedForItsRoute ==
  \A r \in Request :
    phase[r] \in {"send", "wait", "body"} /\ sealed[r] =>
      /\ secret[r] # NoSecret
      /\ secret[r].pair = RoutePair(r)
      /\ secret[r].client.key

\* The usage event of a success names the provider that answered, which the
\* request did contact; the event of a routing failure names none.
UsageNamesAnswerer ==
  \A r \in Request :
    usage[r] # NoUsage =>
      /\ phase[r] \in Over
      /\ usage[r].status = "success" => /\ usage[r].provider = {route[r].provider}
                                        /\ usage[r].provider \subseteq contacted[r]
      /\ usage[r].provider = {} => contacted[r] = {}

\* No provider is sent the same request twice, though the database is asked
\* again at every failover and may have changed each time.
NoProviderTwice ==
  [][\A r \in Request : phase[r] = "send" /\ phase'[r] = "wait"
                          => route[r].provider \notin contacted[r]]_vars

\* Once a head is written there is no failover: the client never gets the
\* answers of two providers.
NoFailoverAfterHead ==
  [][\A r \in Request : heads[r] > 0 => /\ route'[r] = route[r]
                                        /\ contacted'[r] = contacted[r]]_vars


\* Every request that arrives is over some time, for all the changes that can
\* be made under it: failover does not go on for ever.
EveryRequestEnds ==
  \A r \in Request : phase[r] # "idle" ~> phase[r] \in Over

-----------------------------------------------------------------------------
(***************************************************************************)
(* The handlers and the registry implement the gateway of VerifiedGateway. *)
(***************************************************************************)
G == INSTANCE VerifiedGateway WITH
  permitted <- [r \in Request |->
                  IF ask[r] = NoAsk THEN {}
                  ELSE {p \in Provider : Allowed(ask[r].key, p)}],
  trusted   <- {pr \in Pair : evidence[pr] # NoEvidence},
  shortlist <- [r \in Request |->
                  CASE phase[r] = "pick" -> cands[r]
                    [] phase[r] \in {"prepare", "send"} -> {RoutePair(r)}
                    [] OTHER -> {}],
  handed    <- contacted,
  over      <- [r \in Request |-> phase[r] \in Over]

\* A request is handed only to a pair whose verdict was live when it was last
\* selected, that its key permits, and that was not tried before.
ImplementsGateway == G!GatewaySpec

=============================================================================
