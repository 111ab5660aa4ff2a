---------------------------- MODULE ProxyProofs ----------------------------
(***************************************************************************)
(* Proofs about the chat completion handlers and the registry they run     *)
(* beside, for any number of requests, keys, providers, edits and faults.  *)
(***************************************************************************)
EXTENDS Proxy, TLAPS

-----------------------------------------------------------------------------
(***************************************************************************)
(* Type correctness of the registry.                                       *)
(***************************************************************************)

\* Accepted evidence has a deployment and at most one client.
LEMMA EvidenceType ==
  ASSUME NEW row \in Row, NEW e \in EvidenceOf(row)
  PROVE  e \in Evidence
<1>1. ClientsOf(row) \subseteq Client \cup {NoClient}
  BY DEF ClientsOf, Client, Row
<1>2. row.host \in Host
  BY DEF Row
<1> QED BY <1>1, <1>2 DEF EvidenceOf, Evidence

\* The rows a provider can have are rows.
LEMMA KnownRowsType ==
  ASSUME NEW p \in Provider
  PROVE  KnownRows(p) \subseteq Row
BY RowAssumption DEF KnownRows

LEMMA RegTypeInit == RegInit => RegTypeOK
<1> SUFFICES ASSUME RegInit PROVE RegTypeOK
  OBVIOUS
<1>1. providers \in [Provider -> Row \cup {NoRow}] /\ offers \subseteq Pair
  BY RowAssumption DEF RegInit
<1>2. evidence \in [Pair -> Evidence \cup {NoEvidence}]
  BY DEF RegInit
<1>3. clients \in [Pair -> Client \cup {NoClient}]
  BY DEF RegInit
<1>4. edits \in 0..MaxEdits /\ faults \in 0..MaxFaults
  BY BoundAssumption DEF RegInit
<1> QED BY <1>1, <1>2, <1>3, <1>4 DEF RegInit, RegTypeOK

LEMMA PastRowsType ==
  ASSUME RegTypeOK, NEW p \in Provider
  PROVE  PastRows(p) \subseteq Row
BY KnownRowsType DEF RegTypeOK, PastRows

LEMMA RegTypeStep == RegTypeOK /\ RegNext => RegTypeOK'
<1> SUFFICES ASSUME RegTypeOK, RegNext PROVE RegTypeOK'
  OBVIOUS
<1>1. ASSUME NEW pr \in Pair, Vouch(pr) PROVE RegTypeOK'
  <2>0. PICK row \in PastRows(pr[1]) : \E e \in EvidenceOf(row) :
          /\ \E seen \in {e, NoEvidence} : evidence' = [evidence EXCEPT ![pr] = seen]
          /\ pending' = IF e.client = NoClient THEN NoPending
                        ELSE [pair |-> pr, client |-> e.client]
    BY <1>1 DEF Vouch
  <2>1. PICK e \in EvidenceOf(row) :
          /\ \E seen \in {e, NoEvidence} : evidence' = [evidence EXCEPT ![pr] = seen]
          /\ pending' = IF e.client = NoClient THEN NoPending
                        ELSE [pair |-> pr, client |-> e.client]
    BY <2>0
  <2>2. row \in Row
    BY PastRowsType DEF Pair
  <2>3. e \in Evidence
    BY <2>2, EvidenceType
  <2>4. evidence' \in [Pair -> Evidence \cup {NoEvidence}]
    BY <2>1, <2>3 DEF RegTypeOK
  <2>5. pending' \in [pair : Pair, client : Client] \cup {NoPending}
    BY <2>1, <2>3 DEF Evidence
  <2> QED BY <1>1, <2>4, <2>5 DEF Vouch, RegTypeOK
<1>2. CASE Cache
  BY <1>2 DEF Cache, RegTypeOK
<1>3. ASSUME NEW lapsed, Lapse(lapsed) PROVE RegTypeOK'
  BY <1>3 DEF Lapse, RegTypeOK
<1>4. ASSUME NEW p \in Provider, NEW row \in AdminRow, EditProvider(p, row)
      PROVE  RegTypeOK'
  BY <1>4, RowAssumption, BoundAssumption DEF EditProvider, RegTypeOK
<1>5. ASSUME NEW p \in Provider, NEW m \in Model, Offer(p, m) PROVE RegTypeOK'
  BY <1>5 DEF Offer, RegTypeOK, Pair
<1>6. CASE Mishap
  BY <1>6, BoundAssumption DEF Mishap, RegTypeOK
<1>7. CASE Boot
  BY <1>7, RowAssumption DEF Boot, RegTypeOK
<1>8. CASE Die
  <2>1. clients' \in [Pair -> Client \cup {NoClient}]
    BY <1>8 DEF Die
  <2>2. faults' \in 0..MaxFaults
    BY <1>8, BoundAssumption DEF Die, RegTypeOK
  <2> QED BY <1>8, <2>1, <2>2 DEF Die, RegTypeOK
<1> QED BY <1>1, <1>2, <1>3, <1>4, <1>5, <1>6, <1>7, <1>8 DEF RegNext, RegStep

\* What a step of a handler leaves of the registry.
LEMMA RegTypeKept ==
  ASSUME RegTypeOK, RegUnchanged,
         faults' = faults \/ (faults < MaxFaults /\ faults' = faults + 1)
  PROVE  RegTypeOK'
BY BoundAssumption DEF RegTypeOK, RegUnchanged

-----------------------------------------------------------------------------
(***************************************************************************)
(* Type correctness of the handlers.                                       *)
(***************************************************************************)

\* The routes a selection can end with are routes, of pairs it was given.
LEMMA RoutesOfType ==
  ASSUME RegTypeOK, NEW pairs \in SUBSET Pair, NEW required,
         NEW rt \in BestRoutes(RoutesOf(pairs, providers, required))
  PROVE  /\ rt \in Route
         /\ <<rt.provider, rt.model>> \in pairs /\ <<rt.provider, rt.model>> \in Eligible
         /\ MeetsRequiredTier(rt.row.tier, required)
<1>1. rt \in RoutesOf(pairs, providers, required)
  BY DEF BestRoutes
<1>2. PICK pr \in pairs :
        /\ rt = [provider |-> pr[1], model |-> pr[2], row |-> providers[pr[1]]]
        /\ providers[pr[1]] # NoRow /\ pr \in Eligible
        /\ MeetsRequiredTier(providers[pr[1]].tier, required)
  BY <1>1 DEF RoutesOf
<1>3. pr[1] \in Provider /\ pr[2] \in Model /\ pr = <<pr[1], pr[2]>>
  BY DEF Pair
<1>4. providers[pr[1]] \in Row
  BY <1>2, <1>3 DEF RegTypeOK
<1> QED BY <1>2, <1>3, <1>4 DEF Route

\* One head is written when a stream is opened, and none before any other end.
HeadsOK(r) == phase[r] \notin Over => heads[r] = (IF phase[r] = "stream" THEN 1 ELSE 0)

\* Before the first selection there is no reason for another one.
CauseOK(r) == phase[r] \in {"idle", "auth"} => cause[r] = "first"

HandlersInv == TypeOK /\ \A r \in Request : HeadsOK(r) /\ CauseOK(r)

LEMMA HandlersInit == Init => HandlersInv
<1> SUFFICES ASSUME Init PROVE HandlersInv
  OBVIOUS
<1>1. keys \in [Key -> {"unborn", "live", "deleted"}]
  BY DEF Init
<1>2. RegTypeOK
  BY RegTypeInit DEF Init
<1> QED BY <1>1, <1>2 DEF Init, HandlersInv, HeadsOK, CauseOK, TypeOK, Phases, Over

\* A usage event is lost or is one.
LEMMA RecordType ==
  ASSUME TypeOK, NEW r \in Request, NEW status \in {"success", "error"},
         NEW ps \in SUBSET Provider, Record(r, status, ps)
  PROVE  usage' \in [Request -> Usage \cup {NoUsage}]
BY DEF TypeOK, Record, Usage

\* A failover puts the provider of the route among those attempted.
LEMMA FailOverType ==
  ASSUME TypeOK, NEW r \in Request, NEW why \in {"sealed", "neterr", "status"},
         route[r] \in Route, FailOver(r, why)
  PROVE  /\ tried' \in [Request -> SUBSET Provider]
         /\ cause' = [cause EXCEPT ![r] = why] /\ phase' = [phase EXCEPT ![r] = "query"]
BY DEF TypeOK, FailOver, MarkAttempted, Goto, Route

LEMMA HandlersStep == HandlersInv /\ [Next]_vars => HandlersInv'
<1> SUFFICES ASSUME HandlersInv, [Next]_vars PROVE HandlersInv'
  OBVIOUS
<1> USE DEF Phases, Over, Goto, AnswerError
<1>a. RegTypeOK
  BY DEF TypeOK, HandlersInv
<1>b. ASSUME NEW r \in Request, DbError(r)
      PROVE  faults' = faults \/ (faults < MaxFaults /\ faults' = faults + 1)
  BY <1>b DEF DbError
<1>1. ASSUME NEW r \in Request, Malformed(r) PROVE HandlersInv'
  BY <1>1, <1>a, RegTypeKept DEF Malformed, TypeOK, HandlersInv, HeadsOK, CauseOK
<1>2. ASSUME NEW r \in Request, Arrive(r) PROVE HandlersInv'
  BY <1>2, <1>a, RegTypeKept DEF Arrive, TypeOK, HandlersInv, HeadsOK, CauseOK
<1>3. ASSUME NEW r \in Request, Authorize(r) PROVE HandlersInv'
  <2>1. CASE Authorized(ask[r])
    BY <1>3, <2>1, <1>a, RegTypeKept DEF Authorize, TypeOK, HandlersInv, HeadsOK, CauseOK
  <2>2. CASE ~Authorized(ask[r])
    BY <1>3, <2>2, <1>a, RegTypeKept DEF Authorize, TypeOK, HandlersInv, HeadsOK, CauseOK
  <2> QED BY <2>1, <2>2
<1>4. ASSUME NEW r \in Request, AuthorizeFails(r) PROVE HandlersInv'
  BY <1>4, <1>a, <1>b, RegTypeKept DEF AuthorizeFails, TypeOK, HandlersInv, HeadsOK, CauseOK
<1>5. ASSUME NEW r \in Request, Query(r) PROVE HandlersInv'
  BY <1>5, <1>a, RegTypeKept DEF Query, TypeOK, HandlersInv, HeadsOK, CauseOK
<1>6. ASSUME NEW r \in Request, Pick(r) PROVE HandlersInv'
  <2>1. RegTypeOK' /\ phase[r] = "pick"
    BY <1>6, <1>a, <1>b, RegTypeKept DEF Pick
  <2>2. ASSUME NoRouteLeft(r)
        PROVE  /\ usage' \in [Request -> Usage \cup {NoUsage}]
               /\ \/ /\ phase' = [phase EXCEPT ![r] = "done"]
                     /\ heads' = [heads EXCEPT ![r] = @ + 1]
                  \/ /\ phase' = [phase EXCEPT ![r] = "body"] /\ heads' = heads
                     /\ cause[r] = "status"
    <3>1. CASE Record(r, "error", {}) /\ AnswerError(r)
      BY <3>1, RecordType DEF HandlersInv
    <3> QED BY <2>2, <3>1 DEF NoRouteLeft, HandlersInv, TypeOK
  <2>3. \/ \E rt \in Route : /\ route' = [route EXCEPT ![r] = rt]
                          /\ phase' = [phase EXCEPT ![r] = "prepare"]
                          /\ UNCHANGED <<heads, usage>>
        \/ NoRouteLeft(r) /\ route' = route
    BY <1>6, <1>a, RoutesOfType DEF Pick, HandlersInv, TypeOK
  <2>4. cands' \in [Request -> SUBSET Pair]
    BY <1>6 DEF Pick, HandlersInv, TypeOK
  <2>5. UNCHANGED <<keys, ask, cause, tried, sealed, secret, gone, contacted>>
    BY <1>6 DEF Pick
  <2>6. CASE \E rt \in Route : /\ route' = [route EXCEPT ![r] = rt]
                              /\ phase' = [phase EXCEPT ![r] = "prepare"]
                              /\ UNCHANGED <<heads, usage>>
    BY <2>1, <2>4, <2>5, <2>6 DEF TypeOK, HandlersInv, HeadsOK, CauseOK
  <2>7. CASE NoRouteLeft(r) /\ route' = route
    BY <2>1, <2>2, <2>4, <2>5, <2>7 DEF TypeOK, HandlersInv, HeadsOK, CauseOK
  <2> QED BY <2>3, <2>6, <2>7
<1>7. ASSUME NEW r \in Request, QueryFails(r) PROVE HandlersInv'
  <2>1. RegTypeOK' /\ phase[r] = "query"
    BY <1>7, <1>a, <1>b, RegTypeKept DEF QueryFails
  <2>2. ASSUME NoRouteLeft(r)
        PROVE  /\ usage' \in [Request -> Usage \cup {NoUsage}]
               /\ \/ /\ phase' = [phase EXCEPT ![r] = "done"]
                     /\ heads' = [heads EXCEPT ![r] = @ + 1]
                  \/ /\ phase' = [phase EXCEPT ![r] = "body"] /\ heads' = heads
                     /\ cause[r] = "status"
    <3>1. CASE Record(r, "error", {}) /\ AnswerError(r)
      BY <3>1, RecordType DEF HandlersInv
    <3> QED BY <2>2, <3>1 DEF NoRouteLeft, HandlersInv, TypeOK
  <2>3. UNCHANGED <<keys, ask, cause, cands, route, tried, sealed, secret, gone, contacted>>
    BY <1>7 DEF QueryFails
  <2> QED BY <1>7, <2>1, <2>2, <2>3 DEF QueryFails, TypeOK, HandlersInv, HeadsOK, CauseOK
<1>8. ASSUME NEW r \in Request, SkipSealed(r) PROVE HandlersInv'
  <2>1. route[r] \in Route /\ FailOver(r, "sealed")
    BY <1>8 DEF SkipSealed, HandlersInv, TypeOK
  <2>2. /\ tried' \in [Request -> SUBSET Provider]
        /\ cause' = [cause EXCEPT ![r] = "sealed"] /\ phase' = [phase EXCEPT ![r] = "query"]
    BY <2>1, FailOverType DEF HandlersInv
  <2> QED BY <1>8, <1>a, <2>1, <2>2, RegTypeKept DEF SkipSealed, TypeOK, HandlersInv, HeadsOK, CauseOK
<1>9. ASSUME NEW r \in Request, PreparePlain(r) PROVE HandlersInv'
  BY <1>9, <1>a, RegTypeKept DEF PreparePlain, TypeOK, HandlersInv, HeadsOK, CauseOK
<1>10. ASSUME NEW r \in Request, Seal(r) PROVE HandlersInv'
  <2>1. RegTypeOK' /\ route[r] \in Route
    BY <1>10, <1>a, RegTypeKept DEF Seal, HandlersInv, TypeOK
  <2>2. RoutePair(r) \in Pair /\ clients[RoutePair(r)] \in Client
    BY <1>10, <2>1 DEF Seal, HasVerifiedClient, RoutePair, Route, Pair, RegTypeOK,
                       HandlersInv, TypeOK
  <2>3. secret' \in [Request -> Secret \cup {NoSecret}]
    BY <1>10, <2>2 DEF Seal, ContextSecret, Secret, HandlersInv, TypeOK
  <2>4. sealed' \in [Request -> BOOLEAN]
    BY <1>10, <2>2 DEF Seal, Client, HandlersInv, TypeOK
  <2> QED BY <1>10, <2>1, <2>3, <2>4 DEF Seal, TypeOK, HandlersInv, HeadsOK, CauseOK
<1>11. ASSUME NEW r \in Request, SealFails(r) PROVE HandlersInv'
  <2>1. RegTypeOK' /\ route[r].provider \in Provider
    BY <1>11, <1>a, RegTypeKept DEF SealFails, HandlersInv, TypeOK, Route
  <2>2. usage' \in [Request -> Usage \cup {NoUsage}]
    BY <1>11, <2>1, RecordType DEF SealFails, HandlersInv
  <2>3. heads[r] = 0 /\ heads' = [heads EXCEPT ![r] = @ + 1]
        /\ phase' = [phase EXCEPT ![r] = "done"]
    BY <1>11 DEF SealFails, HandlersInv, HeadsOK, TypeOK
  <2>4. heads' \in [Request -> 0..2]
    BY <2>3 DEF HandlersInv, TypeOK
  <2>5. UNCHANGED <<keys, ask, cause, cands, route, tried, sealed, secret, gone, contacted>>
    BY <1>11 DEF SealFails
  <2> QED BY <2>1, <2>2, <2>3, <2>4, <2>5 DEF TypeOK, HandlersInv, HeadsOK, CauseOK
<1>12. ASSUME NEW r \in Request, Send(r) PROVE HandlersInv'
  <2>1. RegTypeOK' /\ route[r].provider \in Provider
    BY <1>12, <1>a, RegTypeKept DEF Send, HandlersInv, TypeOK, Route
  <2>2. CASE route[r].row.host \in Unparsable
    BY <1>12, <2>1, <2>2 DEF Send, TypeOK, HandlersInv, HeadsOK, CauseOK
  <2>3. CASE route[r].row.host \notin Unparsable
    BY <1>12, <2>1, <2>3 DEF Send, TypeOK, HandlersInv, HeadsOK, CauseOK
  <2> QED BY <2>2, <2>3
<1>13. ASSUME NEW r \in Request, NetworkError(r) PROVE HandlersInv'
  <2>1. RegTypeOK' /\ route[r] \in Route /\ route[r].provider \in Provider
    BY <1>13, <1>a, RegTypeKept DEF NetworkError, HandlersInv, TypeOK, Route
  <2>2. CASE ask[r].stream
    <3>1. /\ tried' \in [Request -> SUBSET Provider]
          /\ cause' = [cause EXCEPT ![r] = "neterr"] /\ phase' = [phase EXCEPT ![r] = "query"]
      BY <1>13, <2>1, <2>2, FailOverType DEF NetworkError, HandlersInv
    <3> QED BY <1>13, <2>1, <2>2, <3>1 DEF NetworkError, TypeOK, HandlersInv, HeadsOK, CauseOK
  <2>3. CASE ~ask[r].stream
    <3>1. usage' \in [Request -> Usage \cup {NoUsage}]
      BY <1>13, <2>1, <2>3, RecordType DEF NetworkError, HandlersInv
    <3> QED BY <1>13, <2>1, <2>3, <3>1 DEF NetworkError, TypeOK, HandlersInv, HeadsOK, CauseOK
  <2> QED BY <2>2, <2>3
<1>14. ASSUME NEW r \in Request, RetryableAnswer(r) PROVE HandlersInv'
  <2>1. route[r] \in Route /\ FailOver(r, "status")
    BY <1>14 DEF RetryableAnswer, HandlersInv, TypeOK
  <2>2. /\ tried' \in [Request -> SUBSET Provider]
        /\ cause' = [cause EXCEPT ![r] = "status"] /\ phase' = [phase EXCEPT ![r] = "query"]
    BY <2>1, FailOverType DEF HandlersInv
  <2> QED BY <1>14, <1>a, <2>1, <2>2, RegTypeKept DEF RetryableAnswer, TypeOK, HandlersInv, HeadsOK, CauseOK
<1>15. ASSUME NEW r \in Request, FinalAnswer(r) PROVE HandlersInv'
  BY <1>15, <1>a, RegTypeKept DEF FinalAnswer, TypeOK, HandlersInv, HeadsOK, CauseOK
<1>16. ASSUME NEW r \in Request, RelayBody(r) PROVE HandlersInv'
  <2>1. RegTypeOK' /\ Answerer(r) \in SUBSET Provider
    BY <1>16, <1>a, RegTypeKept DEF RelayBody, Answerer, HandlersInv, TypeOK, Route
  <2>2. usage' \in [Request -> Usage \cup {NoUsage}]
    BY <1>16, <2>1, RecordType DEF RelayBody, HandlersInv
  <2>3. heads[r] = 0 /\ heads' = [heads EXCEPT ![r] = @ + 1]
        /\ phase' = [phase EXCEPT ![r] = "done"]
    BY <1>16 DEF RelayBody, HandlersInv, HeadsOK, TypeOK
  <2>4. heads' \in [Request -> 0..2]
    BY <2>3 DEF HandlersInv, TypeOK
  <2>5. UNCHANGED <<keys, ask, cause, cands, route, tried, sealed, secret, gone, contacted>>
    BY <1>16 DEF RelayBody
  <2> QED BY <2>1, <2>2, <2>3, <2>4, <2>5 DEF TypeOK, HandlersInv, HeadsOK, CauseOK
<1>17. ASSUME NEW r \in Request, ReadFails(r) \/ PrepareFails(r) PROVE HandlersInv'
  <2>1. RegTypeOK'
    BY <1>17, <1>a, RegTypeKept DEF ReadFails, PrepareFails
  <2>2. phase[r] \in {"body", "prepare", "send"}
    <3>1. ReadFails(r) => phase[r] = "body"
      BY DEF ReadFails
    <3>2. PrepareFails(r) => phase[r] = "prepare" \/ phase[r] = "send"
      BY Zenon DEF PrepareFails
    <3> QED BY <1>17, <3>1, <3>2
  <2>3. heads' = [heads EXCEPT ![r] = @ + 1] /\ phase' = [phase EXCEPT ![r] = "done"]
    BY <1>17, <1>a DEF ReadFails, PrepareFails
  <2>4. heads[r] = 0
    BY <2>2 DEF HandlersInv, HeadsOK, Over
  <2>5. heads' \in [Request -> 0..2]
    BY <2>3, <2>4 DEF HandlersInv, TypeOK
  <2>6. UNCHANGED <<keys, ask, cause, cands, route, tried, sealed, secret, usage, gone,
                    contacted>>
    BY <1>17 DEF ReadFails, PrepareFails
  <2> QED BY <2>1, <2>3, <2>4, <2>5, <2>6 DEF TypeOK, HandlersInv, HeadsOK, CauseOK
<1>18. ASSUME NEW r \in Request, OpenStream(r) PROVE HandlersInv'
  BY <1>18, <1>a, RegTypeKept DEF OpenStream, TypeOK, HandlersInv, HeadsOK, CauseOK
<1>19. ASSUME NEW r \in Request, GzipFails(r) PROVE HandlersInv'
  BY <1>19, <1>a, RegTypeKept DEF GzipFails, TypeOK, HandlersInv, HeadsOK, CauseOK
<1>20. ASSUME NEW r \in Request, EndStream(r) PROVE HandlersInv'
  <2>1. RegTypeOK' /\ Answerer(r) \in SUBSET Provider
    BY <1>20, <1>a, RegTypeKept DEF EndStream, Answerer, HandlersInv, TypeOK, Route
  <2>2. usage' \in [Request -> Usage \cup {NoUsage}]
    BY <1>20, <2>1 DEF EndStream, Usage, HandlersInv, TypeOK
  <2> QED BY <1>20, <2>1, <2>2 DEF EndStream, TypeOK, HandlersInv, HeadsOK, CauseOK
<1>21. ASSUME NEW r \in Request, ClientLeaves(r) PROVE HandlersInv'
  BY <1>21, <1>a, RegTypeKept DEF ClientLeaves, TypeOK, HandlersInv, HeadsOK, CauseOK
<1>22. ASSUME NEW k \in Key, CreateAPIKey(k) \/ DeleteAPIKey(k) PROVE HandlersInv'
  BY <1>22, <1>a, RegTypeKept DEF CreateAPIKey, DeleteAPIKey, reqVars, TypeOK, HandlersInv, HeadsOK, CauseOK
<1>23. CASE RegistryMoves
  BY <1>23, <1>a, RegTypeStep DEF RegistryMoves, RegNext, reqVars, TypeOK, HandlersInv, HeadsOK, CauseOK
<1>24. CASE ProcessDies
  <2>1. RegTypeOK' /\ phase' = [q \in Request |-> IF Active(q) THEN "dead" ELSE phase[q]]
    BY <1>24, <1>a, RegTypeStep DEF ProcessDies, RegNext
  <2>2. UNCHANGED <<keys, ask, cause, cands, route, tried, sealed, secret, heads, usage,
                    gone, contacted>>
    BY <1>24 DEF ProcessDies
  <2> HIDE <1>24
  <2> QED BY <2>1, <2>2 DEF TypeOK, HandlersInv, HeadsOK, CauseOK, Active
<1>25. CASE UNCHANGED vars
  BY <1>25 DEF vars, TypeOK, RegTypeOK, HandlersInv, HeadsOK, CauseOK
<1> QED BY <1>1, <1>2, <1>3, <1>4, <1>5, <1>6, <1>7, <1>8, <1>9, <1>10, <1>11, <1>12,
           <1>13, <1>14, <1>15, <1>16, <1>17, <1>18, <1>19, <1>20, <1>21, <1>22, <1>23,
           <1>24, <1>25 DEF Next, RequestStep, Handle

\* Every reachable state of handlers and registry is well typed: a handler has
\* a route wherever it reads one, and never writes a third head.
THEOREM HandlersTypeCorrect == Spec => []TypeOK
<1>1. HandlersInv => TypeOK
  BY DEF HandlersInv
<1> QED BY <1>1, HandlersInit, HandlersStep, PTL DEF Spec

-----------------------------------------------------------------------------
(***************************************************************************)
(* A request moves by itself. What the others, the registry and the keys   *)
(* do changes nothing of it, except that the process takes it along.       *)
(***************************************************************************)

Untouched(q) ==
  /\ ask'[q] = ask[q] /\ cause'[q] = cause[q] /\ cands'[q] = cands[q]
  /\ route'[q] = route[q] /\ tried'[q] = tried[q] /\ sealed'[q] = sealed[q]
  /\ secret'[q] = secret[q] /\ heads'[q] = heads[q] /\ usage'[q] = usage[q]
  /\ contacted'[q] = contacted[q]

LEMMA OthersKeep ==
  ASSUME TypeOK, NEW q \in Request, NEW r0 \in Request, r0 # q, RequestStep(r0)
  PROVE  Untouched(q) /\ phase'[q] = phase[q]
<1> DEFINE Goal == Untouched(q) /\ phase'[q] = phase[q]
<1>1. ASSUME NEW r \in Request, r # q, Malformed(r) \/ Arrive(r) \/ ClientLeaves(r)
      PROVE  Goal
  BY <1>1 DEF Malformed, Arrive, ClientLeaves, AnswerError, Goto, Untouched, TypeOK
<1>2. ASSUME NEW r \in Request, r # q, Authorize(r) \/ AuthorizeFails(r) \/ Query(r)
      PROVE  Goal
  BY <1>2 DEF Authorize, AuthorizeFails, Query, AnswerError, Goto, Untouched, TypeOK
<1>3. ASSUME NEW r \in Request, r # q, NoRouteLeft(r)
      PROVE  phase'[q] = phase[q] /\ heads'[q] = heads[q] /\ usage'[q] = usage[q]
  BY <1>3 DEF NoRouteLeft, Record, AnswerError, Goto, TypeOK
<1>4. ASSUME NEW r \in Request, r # q, Pick(r)
      PROVE  Goal
  <2>1. \/ /\ \E rt : route' = [route EXCEPT ![r] = rt]
           /\ Goto(r, "prepare") /\ UNCHANGED <<heads, usage>>
        \/ NoRouteLeft(r) /\ UNCHANGED route
    BY <1>4 DEF Pick
  <2>2. route'[q] = route[q] /\ phase'[q] = phase[q] /\ heads'[q] = heads[q]
        /\ usage'[q] = usage[q]
    BY <1>3, <1>4, <2>1 DEF Goto, TypeOK
  <2> QED BY <1>4, <2>2 DEF Pick, Untouched, TypeOK
<1>5. ASSUME NEW r \in Request, r # q, QueryFails(r)
      PROVE  Goal
  BY <1>3, <1>5 DEF QueryFails, Untouched
<1>6. ASSUME NEW r \in Request, r # q, NEW why, FailOver(r, why)
      PROVE  tried'[q] = tried[q] /\ cause'[q] = cause[q] /\ phase'[q] = phase[q]
  BY <1>6 DEF FailOver, MarkAttempted, Goto, TypeOK
<1>7. ASSUME NEW r \in Request, r # q, SkipSealed(r) \/ RetryableAnswer(r)
      PROVE  Goal
  BY <1>6, <1>7 DEF SkipSealed, RetryableAnswer, Untouched
<1>8. ASSUME NEW r \in Request, r # q, PreparePlain(r) \/ Send(r) \/ FinalAnswer(r)
      PROVE  Goal
  BY <1>8 DEF PreparePlain, Send, FinalAnswer, Goto, Untouched, TypeOK
<1>9. ASSUME NEW r \in Request, r # q, Seal(r)
      PROVE  Goal
  BY <1>9 DEF Seal, ContextSecret, Goto, Untouched, TypeOK
<1>10. ASSUME NEW r \in Request, r # q, SealFails(r)
       PROVE  Goal
  BY <1>10 DEF SealFails, Record, AnswerError, Goto, Untouched, TypeOK
<1>11. ASSUME NEW r \in Request, r # q, NetworkError(r)
       PROVE  Goal
  BY <1>6, <1>11 DEF NetworkError, Record, AnswerError, Goto, Untouched, TypeOK
<1>12. ASSUME NEW r \in Request, r # q, RelayBody(r) \/ ReadFails(r) \/ PrepareFails(r)
       PROVE  Goal
  BY <1>12 DEF RelayBody, ReadFails, PrepareFails, Record, AnswerError, Goto, Untouched, TypeOK
<1>13. ASSUME NEW r \in Request, r # q, OpenStream(r) \/ GzipFails(r) \/ EndStream(r)
       PROVE  Goal
  BY <1>13 DEF OpenStream, GzipFails, EndStream, AnswerError, Goto, Untouched, TypeOK
<1> QED BY <1>1, <1>2, <1>4, <1>5, <1>7, <1>8, <1>9, <1>10, <1>11, <1>12, <1>13
        DEF RequestStep, Handle

LEMMA OneMoves ==
  ASSUME TypeOK, [Next]_vars, NEW q \in Request
  PROVE  \/ RequestStep(q)
         \/ Untouched(q) /\ (phase'[q] = phase[q] \/ phase'[q] = "dead")
<1> DEFINE Goal == Untouched(q) /\ (phase'[q] = phase[q] \/ phase'[q] = "dead")
<1>1. ASSUME NEW r \in Request, r # q, RequestStep(r)
      PROVE  Goal
  BY <1>1, OthersKeep
<1>2. ASSUME NEW k \in Key, CreateAPIKey(k) \/ DeleteAPIKey(k)
      PROVE  Goal
  BY <1>2 DEF CreateAPIKey, DeleteAPIKey, reqVars, Untouched
<1>3. CASE RegistryMoves \/ UNCHANGED vars
  BY <1>3 DEF RegistryMoves, reqVars, vars, Untouched
<1>4. CASE ProcessDies
  BY <1>4 DEF ProcessDies, Untouched
<1> QED BY <1>1, <1>2, <1>3, <1>4 DEF Next

-----------------------------------------------------------------------------
(***************************************************************************)
(* NoFailoverAfterHead. A head is only there once no attempt can follow.   *)
(***************************************************************************)

LEMMA HeadStep ==
  HandlersInv /\ [Next]_vars
    => \A r \in Request : heads[r] > 0 => route'[r] = route[r] /\ contacted'[r] = contacted[r]
<1> SUFFICES ASSUME HandlersInv, [Next]_vars, NEW q \in Request, heads[q] > 0
             PROVE  route'[q] = route[q] /\ contacted'[q] = contacted[q]
  OBVIOUS
<1>1. phase[q] \in Over \cup {"stream"}
  BY DEF HandlersInv, HeadsOK
<1>2. CASE Untouched(q)
  BY <1>2 DEF Untouched
<1>3. CASE RequestStep(q)
  BY <1>1, <1>3 DEF Over, RequestStep, Handle, Malformed, Arrive, ClientLeaves, Authorize,
     AuthorizeFails, Query, Pick, QueryFails, SkipSealed, PreparePlain, Seal, SealFails, Send,
     PrepareFails, NetworkError, RetryableAnswer, FinalAnswer, RelayBody, ReadFails,
     OpenStream, GzipFails, EndStream
<1> QED BY <1>2, <1>3, OneMoves DEF HandlersInv

\* Once anything was answered, neither the route of a request nor the set of
\* providers that got it changes: no client gets the answers of two providers.
THEOREM NoSecondAnswer == Spec => NoFailoverAfterHead
<1>1. HandlersInv /\ [Next]_vars
        => [\A r \in Request : heads[r] > 0 => /\ route'[r] = route[r]
                                               /\ contacted'[r] = contacted[r]]_vars
  BY HeadStep
<1> QED BY <1>1, HandlersInit, HandlersStep, PTL DEF Spec, NoFailoverAfterHead

-----------------------------------------------------------------------------
(***************************************************************************)
(* ContactsWithinKey and NoProviderTwice. The selection filters candidates *)
(* by the key and by the providers attempted, both of which only the       *)
(* request itself moves; the chosen route keeps what its pair had.         *)
(***************************************************************************)

\* A provider the request may be sent to next.
Fresh(r, p) == Allowed(ask[r].key, p) /\ p \notin tried[r]

\* The providers a handler is already past, with the one it is at.
Met(r) == tried[r] \cup (IF phase[r] \in {"wait", "body", "stream"} \cup Over
                         THEN {route[r].provider} ELSE {})

ContactInv(r) ==
  /\ phase[r] \in {"idle", "auth"} => contacted[r] = {}
  /\ phase[r] = "pick" => \A pr \in cands[r] : Fresh(r, pr[1])
  /\ phase[r] \in {"prepare", "send"} => Fresh(r, route[r].provider)
  /\ phase[r] = "wait" => Allowed(ask[r].key, route[r].provider)
  /\ \A p \in contacted[r] : Allowed(ask[r].key, p)
  /\ phase[r] \notin Over \cup {"body", "stream"} => contacted[r] \subseteq Met(r)

LEMMA ContactStep ==
  ASSUME TypeOK, [Next]_vars, NEW q \in Request, ContactInv(q)
  PROVE  ContactInv(q)'
<1> USE DEF Over, Goto, AnswerError, Allowed
<1>0. CASE Untouched(q) /\ (phase'[q] = phase[q] \/ phase'[q] = "dead")
  BY <1>0 DEF Untouched, ContactInv, Fresh, Met
<1>1. CASE Malformed(q) \/ Arrive(q)
  BY <1>1 DEF Malformed, Arrive, ContactInv, Fresh, Met, TypeOK
<1>2. CASE Authorize(q) \/ AuthorizeFails(q)
  BY <1>2 DEF Authorize, AuthorizeFails, ContactInv, Fresh, Met, TypeOK
<1>3. CASE Query(q)
  <2>1. cands'[q] = {pr \in Pair : Selectable(q, pr)} /\ phase[q] = "query"
        /\ phase'[q] = "pick" /\ UNCHANGED <<ask, tried, route, contacted>>
    BY <1>3 DEF Query, TypeOK
  <2>2. \A pr \in cands'[q] : Fresh(q, pr[1])
    BY <2>1 DEF Selectable, Fresh
  <2> QED BY <2>1, <2>2 DEF ContactInv, Fresh, Met
<1>4. CASE Pick(q)
  <2>1. phase[q] = "pick" /\ UNCHANGED <<ask, tried, contacted>>
    BY <1>4 DEF Pick
  <2>2. CASE \E read \in SUBSET cands[q] :
               \E rt \in BestRoutes(RoutesOf(read, providers, "confidential")) :
                 route' = [route EXCEPT ![q] = rt] /\ Goto(q, "prepare")
    <3>1. PICK read \in SUBSET cands[q] :
                 \E rt \in BestRoutes(RoutesOf(read, providers, "confidential")) :
                   route' = [route EXCEPT ![q] = rt] /\ Goto(q, "prepare")
      BY <2>2
    <3>2. PICK rt \in BestRoutes(RoutesOf(read, providers, "confidential")) :
                 route' = [route EXCEPT ![q] = rt] /\ Goto(q, "prepare")
      BY <3>1
    <3>3. read \in SUBSET Pair
      BY DEF TypeOK
    <3>4. <<rt.provider, rt.model>> \in cands[q]
      BY <3>3, RoutesOfType DEF TypeOK
    <3>5. Fresh(q, rt.provider)
      BY <2>1, <3>4 DEF ContactInv
    <3> QED BY <2>1, <3>2, <3>5 DEF ContactInv, Fresh, Met, TypeOK
  <2>3. CASE NoRouteLeft(q)
    BY <2>1, <2>3 DEF NoRouteLeft, ContactInv, TypeOK
  <2> QED BY <1>4, <2>2, <2>3 DEF Pick
<1>5. CASE QueryFails(q)
  BY <1>5 DEF QueryFails, NoRouteLeft, ContactInv, TypeOK
<1>6. CASE SkipSealed(q) \/ RetryableAnswer(q) \/ (NetworkError(q) /\ ask[q].stream)
  <2>1. \E why : FailOver(q, why)
    BY <1>6 DEF SkipSealed, RetryableAnswer, NetworkError
  <2>2. /\ phase'[q] = "query" /\ tried'[q] = tried[q] \cup {route[q].provider}
        /\ phase[q] \in {"prepare", "wait"}
        /\ UNCHANGED <<ask, contacted>>
    BY <1>6, <2>1 DEF SkipSealed, RetryableAnswer, NetworkError, FailOver, MarkAttempted, TypeOK
  <2> QED BY <2>2 DEF ContactInv, Met
<1>7. CASE NetworkError(q) /\ ~ask[q].stream
  BY <1>7 DEF NetworkError, ContactInv, TypeOK
<1>8. CASE PreparePlain(q) \/ Seal(q)
  BY <1>8 DEF PreparePlain, Seal, ContactInv, Fresh, Met, TypeOK
<1>9. CASE SealFails(q)
  BY <1>9 DEF SealFails, ContactInv, TypeOK
<1>10. CASE Send(q)
  <2>1. /\ phase[q] = "send" /\ UNCHANGED <<ask, tried, route>>
        /\ \/ phase'[q] = "aborted" /\ contacted' = contacted
           \/ phase'[q] = "wait" /\ contacted'[q] = contacted[q] \cup {route[q].provider}
    BY <1>10 DEF Send, TypeOK
  <2> QED BY <2>1 DEF ContactInv, Fresh, Met
<1>11. CASE FinalAnswer(q)
  BY <1>11 DEF FinalAnswer, ContactInv, TypeOK
<1>12. CASE \/ RelayBody(q) \/ ReadFails(q) \/ PrepareFails(q)
            \/ OpenStream(q) \/ GzipFails(q) \/ EndStream(q)
  BY <1>12 DEF RelayBody, ReadFails, PrepareFails, OpenStream, GzipFails, EndStream,
               ContactInv, TypeOK
<1>13. CASE ClientLeaves(q)
  BY <1>13 DEF ClientLeaves, ContactInv, Fresh, Met
<1> QED BY <1>0, <1>1, <1>2, <1>3, <1>4, <1>5, <1>6, <1>7, <1>8, <1>9, <1>10, <1>11,
           <1>12, <1>13, OneMoves DEF RequestStep, Handle

LEMMA ContactAlways == Spec => [](TypeOK /\ \A r \in Request : ContactInv(r))
<1>1. Init => \A r \in Request : ContactInv(r)
  BY DEF Init, ContactInv
<1>2. TypeOK /\ (\A r \in Request : ContactInv(r)) /\ [Next]_vars
        => (\A r \in Request : ContactInv(r))'
  BY ContactStep
<1> QED BY <1>1, <1>2, HandlersTypeCorrect, PTL DEF Spec

\* Whatever is done to keys, rows and verdicts while it fails over, a request
\* is only ever sent to providers its key allows.
THEOREM KeysAreKept == Spec => []ContactsWithinKey
<1>1. (\A r \in Request : ContactInv(r)) => ContactsWithinKey
  BY DEF ContactInv, Allowed, ContactsWithinKey
<1> QED BY <1>1, ContactAlways, PTL

\* However often the tables are asked again, no provider gets a request twice.
THEOREM NobodyIsAskedTwice == Spec => NoProviderTwice
<1>1. ASSUME TypeOK, \A r \in Request : ContactInv(r), [Next]_vars, NEW r \in Request,
             phase[r] = "send"
      PROVE  route[r].provider \notin contacted[r]
  BY <1>1 DEF ContactInv, Fresh, Met, Over
<1>2. TypeOK /\ (\A r \in Request : ContactInv(r)) /\ [Next]_vars
        => [\A r \in Request : phase[r] = "send" /\ phase'[r] = "wait"
                                 => route[r].provider \notin contacted[r]]_vars
  BY <1>1
<1> QED BY <1>2, ContactAlways, PTL DEF Spec, NoProviderTwice

-----------------------------------------------------------------------------
(***************************************************************************)
(* SealedForItsRoute, SentAsTheRouteDemands and UsageNamesAnswerer: the    *)
(* attempt a handler is on, or whose answer it may still relay because a   *)
(* retryable status leads to another selection, was prepared for its route *)
(* and sent there.                                                         *)
(***************************************************************************)

Selecting(r, why) == phase[r] \in {"query", "pick"} /\ cause[r] = why

\* The body of the attempt is as it is sent, or was.
Prepared(r) == phase[r] \in {"send", "wait", "body", "stream"} \/ Selecting(r, "status")

SealInv(r) ==
  Prepared(r) /\ sealed[r] => /\ secret[r] # NoSecret
                              /\ secret[r].pair = RoutePair(r)
                              /\ secret[r].client.key

DemandInv(r) ==
  /\ Prepared(r) \/ phase[r] = "prepare" => /\ IsConfidentialTier(route[r].row.tier)
                                            /\ RoutePair(r) \in Eligible
  /\ Prepared(r) /\ ask[r].stream => ~NeedsEHBP(route[r].row)

UsageInv(r) ==
  /\ phase[r] \notin Over => usage[r] = NoUsage
  /\ phase[r] \in {"wait", "body", "stream"} \/ Selecting(r, "status")
       => route[r].provider \in contacted[r]
  /\ phase[r] \in {"idle", "auth"} \/ Selecting(r, "first") => contacted[r] = {}
  /\ usage[r] # NoUsage =>
       /\ usage[r].status = "success" => /\ usage[r].provider = {route[r].provider}
                                         /\ usage[r].provider \subseteq contacted[r]
       /\ usage[r].provider = {} => contacted[r] = {}

AttemptInv(r) == SealInv(r) /\ DemandInv(r) /\ UsageInv(r)

LEMMA AttemptStep ==
  ASSUME HandlersInv, [Next]_vars, NEW q \in Request, AttemptInv(q)
  PROVE  AttemptInv(q)'
<1> USE DEF Over, Goto, AnswerError, AttemptInv, SealInv, DemandInv, UsageInv, Prepared,
            Selecting
<1>a. TypeOK
  BY DEF HandlersInv
<1>b. ASSUME NEW status \in {"success", "error"}, NEW ps, Record(q, status, ps)
      PROVE  usage'[q] = usage[q] \/ usage'[q] = [status |-> status, provider |-> ps]
  BY <1>a, <1>b DEF Record, TypeOK
<1>0. CASE Untouched(q) /\ (phase'[q] = phase[q] \/ phase'[q] = "dead")
  BY <1>0 DEF Untouched, RoutePair
<1>1. CASE Malformed(q) \/ Arrive(q)
  BY <1>a, <1>1 DEF Malformed, Arrive, TypeOK
<1>2. CASE Authorize(q)
  <2>1. /\ phase[q] = "auth" /\ phase'[q] \in {"query", "done"} /\ cause[q] = "first"
        /\ UNCHANGED <<cause, usage, contacted>>
    BY <1>a, <1>2 DEF Authorize, TypeOK, HandlersInv, CauseOK
  <2> QED BY <2>1
<1>3. CASE AuthorizeFails(q)
  BY <1>a, <1>3 DEF AuthorizeFails, TypeOK
<1>4. CASE Query(q)
  BY <1>a, <1>4 DEF Query, TypeOK, RoutePair
<1>5. ASSUME NoRouteLeft(q), phase[q] \in {"query", "pick"},
             UNCHANGED <<ask, cause, route, sealed, secret, contacted>>
      PROVE  AttemptInv(q)'
  <2>1. CASE cause[q] = "first" /\ Record(q, "error", {}) /\ phase'[q] = "done"
    <3>1. usage[q] = NoUsage /\ contacted[q] = {}
      BY <1>5, <2>1
    <3>2. usage'[q] = NoUsage \/ usage'[q] = [status |-> "error", provider |-> {}]
      BY <1>b, <2>1, <3>1
    <3> QED BY <1>5, <2>1, <3>1, <3>2
  <2>2. CASE phase'[q] = "done" /\ usage' = usage
    BY <1>5, <2>2
  <2>3. CASE cause[q] = "status" /\ phase'[q] = "body" /\ usage' = usage
    BY <1>5, <2>3 DEF RoutePair
  <2> QED BY <1>a, <1>5, <2>1, <2>2, <2>3 DEF NoRouteLeft, TypeOK
<1>6. CASE Pick(q)
  <2>1. /\ phase[q] = "pick" /\ UNCHANGED <<ask, cause, sealed, secret, contacted>>
    BY <1>6 DEF Pick
  <2>2. CASE NoRouteLeft(q) /\ UNCHANGED route
    BY <1>5, <2>1, <2>2
  <2>3. ASSUME NEW read \in SUBSET cands[q],
               NEW rt \in BestRoutes(RoutesOf(read, providers, "confidential")),
               route' = [route EXCEPT ![q] = rt], Goto(q, "prepare"),
               UNCHANGED <<heads, usage>>
        PROVE  AttemptInv(q)'
    <3>1. read \in SUBSET Pair /\ RegTypeOK
      BY <1>a DEF TypeOK
    <3>2. /\ <<rt.provider, rt.model>> \in Eligible
          /\ MeetsRequiredTier(rt.row.tier, "confidential")
      BY <3>1, RoutesOfType
    <3>3. IsConfidentialTier(rt.row.tier)
      BY <3>2 DEF MeetsRequiredTier
    <3>4. route'[q] = rt /\ phase'[q] = "prepare" /\ usage'[q] = NoUsage
      BY <1>a, <2>1, <2>3 DEF TypeOK
    <3> QED BY <2>1, <3>2, <3>3, <3>4 DEF RoutePair
  <2> QED BY <1>6, <2>2, <2>3 DEF Pick
<1>7. CASE QueryFails(q)
  BY <1>5, <1>7 DEF QueryFails
<1>8. CASE SkipSealed(q) \/ RetryableAnswer(q) \/ (NetworkError(q) /\ ask[q].stream)
  <2>1. \/ FailOver(q, "sealed")
        \/ FailOver(q, "neterr")
        \/ FailOver(q, "status") /\ phase[q] = "wait"
    BY <1>8 DEF SkipSealed, RetryableAnswer, NetworkError
  <2>2. /\ phase'[q] = "query"
        /\ cause'[q] = "status" => phase[q] = "wait"
        /\ cause'[q] # "first"
    BY <1>a, <2>1 DEF FailOver, TypeOK
  <2>3. phase[q] \in {"prepare", "wait"}
        /\ UNCHANGED <<ask, route, sealed, secret, usage, contacted>>
    BY <1>8 DEF SkipSealed, RetryableAnswer, NetworkError
  <2> QED BY <2>2, <2>3 DEF RoutePair
<1>9. CASE (NetworkError(q) /\ ~ask[q].stream) \/ SealFails(q)
  <2>1. /\ phase'[q] = "done" /\ phase[q] \in {"wait", "prepare"}
        /\ Record(q, "error", {route[q].provider})
        /\ UNCHANGED <<route, contacted>>
    BY <1>a, <1>9 DEF NetworkError, SealFails, TypeOK
  <2>2. usage'[q] = NoUsage \/ usage'[q] = [status |-> "error", provider |-> {route[q].provider}]
    BY <1>b, <2>1
  <2> QED BY <2>1, <2>2
<1>10. CASE PreparePlain(q)
  BY <1>a, <1>10 DEF PreparePlain, GoesPlain, RoutePair, TypeOK
<1>11. CASE Seal(q)
  <2>1. /\ phase[q] = "prepare" /\ phase'[q] = "send" /\ ~ask[q].stream
        /\ UNCHANGED <<ask, route, usage, contacted>>
    BY <1>a, <1>11 DEF Seal, TypeOK
  <2>2. RoutePair(q) \in Pair /\ clients[RoutePair(q)] \in Client
    BY <1>a, <1>11 DEF Seal, HasVerifiedClient, RoutePair, Route, Pair, RegTypeOK, TypeOK
  <2>3. sealed'[q] = clients[RoutePair(q)].key
    BY <1>a, <1>11 DEF Seal, TypeOK
  <2>4. sealed'[q] => secret'[q] = [pair |-> RoutePair(q), client |-> clients[RoutePair(q)]]
    BY <1>a, <1>11, <2>3 DEF Seal, ContextSecret, TypeOK
  <2>5. sealed'[q] => secret'[q] # NoSecret
    BY <2>2, <2>4, AbsentAssumption DEF Secret
  <2> QED BY <2>1, <2>3, <2>4, <2>5 DEF RoutePair
<1>12. CASE Send(q)
  BY <1>a, <1>12 DEF Send, RoutePair, TypeOK
<1>13. CASE FinalAnswer(q) \/ OpenStream(q)
  BY <1>a, <1>13 DEF FinalAnswer, OpenStream, RoutePair, TypeOK
<1>14. CASE RelayBody(q)
  <2>1. /\ phase'[q] = "done" /\ phase[q] = "body" /\ Record(q, "success", {route[q].provider})
        /\ UNCHANGED <<route, contacted>>
    BY <1>a, <1>14 DEF RelayBody, Answerer, TypeOK
  <2>2. usage'[q] = NoUsage \/ usage'[q] = [status |-> "success", provider |-> {route[q].provider}]
    BY <1>b, <2>1
  <2> QED BY <2>1, <2>2
<1>15. CASE ReadFails(q) \/ PrepareFails(q) \/ GzipFails(q)
  BY <1>a, <1>15 DEF ReadFails, PrepareFails, GzipFails, TypeOK
<1>16. CASE EndStream(q)
  <2>1. /\ phase'[q] = "done" /\ phase[q] = "stream" /\ UNCHANGED <<route, contacted>>
        /\ \/ usage'[q] = NoUsage
           \/ usage'[q] = [status |-> "success", provider |-> {route[q].provider}]
    BY <1>a, <1>16 DEF EndStream, Answerer, TypeOK
  <2> QED BY <2>1
<1>17. CASE ClientLeaves(q)
  BY <1>17 DEF ClientLeaves, RoutePair
<1> QED BY <1>a, <1>0, <1>1, <1>2, <1>3, <1>4, <1>6, <1>7, <1>8, <1>9, <1>10, <1>11,
           <1>12, <1>13, <1>14, <1>15, <1>16, <1>17, OneMoves DEF RequestStep, Handle

LEMMA AttemptAlways == Spec => []\A r \in Request : AttemptInv(r)
<1>1. Init => \A r \in Request : AttemptInv(r)
  BY DEF Init, AttemptInv, SealInv, DemandInv, UsageInv, Prepared, Selecting, Over
<1>2. HandlersInv /\ (\A r \in Request : AttemptInv(r)) /\ [Next]_vars
        => (\A r \in Request : AttemptInv(r))'
  BY AttemptStep
<1> QED BY <1>1, <1>2, HandlersInit, HandlersStep, PTL DEF Spec

\* A body sealed for one provider is never sent, or its answer opened, with
\* the secret of another, though the context carries secrets over failovers.
THEOREM SealsFit == Spec => []SealedForItsRoute
<1>1. (\A r \in Request : AttemptInv(r)) => SealedForItsRoute
  BY DEF AttemptInv, SealInv, Prepared, SealedForItsRoute
<1> QED BY <1>1, AttemptAlways, PTL

\* No stream goes in the clear to a provider that takes sealed bodies, and no
\* request goes to a plaintext or ineligible one.
THEOREM DemandsAreMet == Spec => []SentAsTheRouteDemands
<1>1. (\A r \in Request : AttemptInv(r)) => SentAsTheRouteDemands
  BY DEF AttemptInv, DemandInv, Prepared, SentAsTheRouteDemands
<1> QED BY <1>1, AttemptAlways, PTL

\* Success is booked on the provider that answered and that was contacted, and
\* an event without a provider means that none was.
THEOREM UsageIsHonest == Spec => []UsageNamesAnswerer
<1>1. (\A r \in Request : AttemptInv(r)) => UsageNamesAnswerer
  BY DEF AttemptInv, UsageInv, UsageNamesAnswerer
<1> QED BY <1>1, AttemptAlways, PTL

-----------------------------------------------------------------------------
(***************************************************************************)
(* The handlers beside the registry implement VerifiedGateway: a request is*)
(* handed only to pairs that were trusted and permitted when they were     *)
(* shortlisted for it, one at a time, and to nobody twice.                 *)
(***************************************************************************)

-----------------------------------------------------------------------------
(***************************************************************************)
(* The refinement mapping, request by request.                             *)
(***************************************************************************)

Permitted(r) == IF ask[r] = NoAsk THEN {} ELSE {p \in Provider : Allowed(ask[r].key, p)}

Shortlisted(r) == CASE phase[r] = "pick" -> cands[r]
                    [] phase[r] \in {"prepare", "send"} -> {RoutePair(r)}
                    [] OTHER -> {}

Ended(r) == phase[r] \in Over

Trusted == {pr \in Pair : evidence[pr] # NoEvidence}

SeenPermitted == [r \in Request |-> Permitted(r)]
SeenShortlist == [r \in Request |-> Shortlisted(r)]
SeenOver == [r \in Request |-> Ended(r)]

\* The gateway sees nothing of a request.
Unmoved(r) ==
  /\ Permitted(r)' = Permitted(r) /\ Shortlisted(r)' = Shortlisted(r)
  /\ Ended(r)' = Ended(r) /\ contacted'[r] = contacted[r]

OnlyMoves(q) == \A r \in Request : r # q => Unmoved(r)

\* A request that has not begun has no key yet.
BlankInv == \A r \in Request : phase[r] = "idle" => ask[r] = NoAsk

LEMMA BlankAlways == Spec => []BlankInv
<1>1. Init => BlankInv
  BY DEF Init, BlankInv
<1>2. TypeOK /\ BlankInv /\ [Next]_vars => BlankInv'
  <2> SUFFICES ASSUME TypeOK, BlankInv, [Next]_vars, NEW q \in Request, phase'[q] = "idle"
               PROVE  ask'[q] = NoAsk
    BY DEF BlankInv
  <2>1. CASE Untouched(q) /\ phase'[q] = phase[q]
    BY <2>1 DEF Untouched, BlankInv
  <2>2. CASE Malformed(q) \/ Arrive(q)
    BY <2>2 DEF Malformed, Arrive, AnswerError, Goto, TypeOK
  <2>3. CASE ClientLeaves(q)
    BY <2>3 DEF ClientLeaves, BlankInv
  <2>4. CASE NoRouteLeft(q)
    BY <2>4 DEF NoRouteLeft, AnswerError, Goto, TypeOK
  <2>5. CASE Handle(q) /\ ~NoRouteLeft(q)
    BY <2>5 DEF Handle, Authorize, AuthorizeFails, Query, Pick, QueryFails, SkipSealed,
       PreparePlain, Seal, SealFails, Send, NetworkError, RetryableAnswer, FinalAnswer,
       PrepareFails, RelayBody, ReadFails, OpenStream, GzipFails, EndStream, FailOver,
       AnswerError, Goto, TypeOK
  <2> QED BY <2>1, <2>2, <2>3, <2>4, <2>5, OneMoves DEF RequestStep
<1> QED BY <1>1, <1>2, HandlersTypeCorrect, PTL DEF Spec

\* Other requests do not move, and no step of a handler touches verdicts.
LEMMA HandlerFrame ==
  ASSUME TypeOK, NEW q \in Request, RequestStep(q)
  PROVE  OnlyMoves(q) /\ Trusted' = Trusted
<1>1. ASSUME NEW r \in Request, r # q
      PROVE  Unmoved(r)
  <2>1. Untouched(r) /\ phase'[r] = phase[r]
    BY <1>1, OthersKeep
  <2> QED BY <2>1 DEF Untouched, Unmoved, Permitted, Shortlisted, Ended, RoutePair
<1>2. evidence' = evidence
  BY DEF RequestStep, Handle, Malformed, Arrive, ClientLeaves, Authorize, AuthorizeFails,
     Query, Pick, QueryFails, SkipSealed, PreparePlain, Seal, SealFails, Send, NetworkError,
     PrepareFails, RetryableAnswer, FinalAnswer, RelayBody, ReadFails, OpenStream, GzipFails,
     EndStream, RegUnchanged
<1> QED BY <1>1, <1>2 DEF OnlyMoves, Trusted

\* What a step of one request does to the mapped variables.
LEMMA MappedStep ==
  ASSUME TypeOK, TypeOK', NEW q \in Request, OnlyMoves(q)
  PROVE  /\ contacted'[q] = contacted[q] => contacted' = contacted
         /\ Permitted(q)' = Permitted(q) => SeenPermitted' = SeenPermitted
         /\ Ended(q)' = Ended(q) => SeenOver' = SeenOver
         /\ Ended(q)' => SeenOver' = [SeenOver EXCEPT ![q] = TRUE]
         /\ SeenShortlist' = [SeenShortlist EXCEPT ![q] = Shortlisted(q)']
         /\ Shortlisted(q)' = Shortlisted(q) => SeenShortlist' = SeenShortlist
<1>1. contacted \in [Request -> SUBSET Provider] /\ contacted' \in [Request -> SUBSET Provider]
  BY DEF TypeOK
<1>2. contacted'[q] = contacted[q] => contacted' = contacted
  BY <1>1 DEF OnlyMoves, Unmoved
<1>3. Permitted(q)' = Permitted(q) => SeenPermitted' = SeenPermitted
  BY DEF OnlyMoves, Unmoved, SeenPermitted
<1>4. Ended(q)' = Ended(q) => SeenOver' = SeenOver
  BY DEF OnlyMoves, Unmoved, SeenOver
<1>5. Ended(q)' => SeenOver' = [SeenOver EXCEPT ![q] = TRUE]
  BY DEF OnlyMoves, Unmoved, SeenOver, Ended
<1>6. SeenShortlist' = [SeenShortlist EXCEPT ![q] = Shortlisted(q)']
  BY DEF OnlyMoves, Unmoved, SeenShortlist
<1>7. Shortlisted(q)' = Shortlisted(q) => SeenShortlist' = SeenShortlist
  BY DEF OnlyMoves, Unmoved, SeenShortlist
<1> QED BY <1>2, <1>3, <1>4, <1>5, <1>6, <1>7

LEMMA UnmovedIsUnseen ==
  ASSUME TypeOK, TypeOK', NEW q \in Request, OnlyMoves(q), Trusted' = Trusted, Unmoved(q)
  PROVE  UNCHANGED G!gatewayVars
BY MappedStep DEF Unmoved, G!gatewayVars, SeenShortlist, SeenOver, SeenPermitted, Trusted,
                  Shortlisted, Permitted, Ended

LEMMA EndIsFinish ==
  ASSUME TypeOK, TypeOK', NEW q \in Request, OnlyMoves(q), Trusted' = Trusted,
         Permitted(q)' = Permitted(q), contacted'[q] = contacted[q],
         Shortlisted(q)' = {}, Ended(q)'
  PROVE  G!Finish(q)
BY MappedStep DEF G!Finish, SeenShortlist, SeenOver, SeenPermitted, Trusted, Shortlisted,
                  Permitted, Ended

LEMMA NarrowingIsSettle ==
  ASSUME TypeOK, TypeOK', NEW q \in Request, OnlyMoves(q), Trusted' = Trusted,
         Permitted(q)' = Permitted(q), contacted'[q] = contacted[q],
         Shortlisted(q)' \subseteq Shortlisted(q), Ended(q)' = Ended(q)
  PROVE  G!Settle(q)
<1>1. SeenShortlist[q] = Shortlisted(q)
  BY DEF SeenShortlist
<1>2. \E pairs \in SUBSET SeenShortlist[q] :
        SeenShortlist' = [SeenShortlist EXCEPT ![q] = pairs]
  BY <1>1, MappedStep
<1> QED BY <1>2, MappedStep
        DEF G!Settle, SeenShortlist, SeenOver, SeenPermitted, Trusted, Shortlisted,
            Permitted, Ended

-----------------------------------------------------------------------------
(***************************************************************************)
(* The steps of a handler.                                                 *)
(***************************************************************************)

LEMMA ArriveIsEnrol ==
  ASSUME TypeOK, TypeOK', BlankInv, NEW q \in Request, ContactInv(q), OnlyMoves(q),
         Trusted' = Trusted, Arrive(q)
  PROVE  G!Enrol(q)
<1>1. phase[q] = "idle" /\ phase'[q] = "auth" /\ contacted' = contacted
      /\ ask[q] = NoAsk
  BY DEF Arrive, Goto, BlankInv, TypeOK
<1>2. Permitted(q) = {} /\ Shortlisted(q) = {} /\ ~Ended(q) /\ contacted[q] = {}
  BY <1>1 DEF Permitted, Shortlisted, Ended, Over, ContactInv
<1>3. Shortlisted(q)' = Shortlisted(q) /\ Ended(q)' = Ended(q)
  BY <1>1 DEF Shortlisted, Ended, Over
<1>4. Permitted(q)' \in SUBSET Provider
  BY DEF Permitted
<1>5. SeenPermitted' = [SeenPermitted EXCEPT ![q] = Permitted(q)']
  BY DEF SeenPermitted, OnlyMoves, Unmoved
<1>6. SeenShortlist' = SeenShortlist /\ SeenOver' = SeenOver
  BY <1>3, MappedStep
<1>7. SeenPermitted[q] = {} /\ SeenShortlist[q] = {} /\ ~SeenOver[q]
  BY <1>2 DEF SeenPermitted, SeenShortlist, SeenOver
<1>8. \E ps \in SUBSET Provider : SeenPermitted' = [SeenPermitted EXCEPT ![q] = ps]
  BY <1>4, <1>5
<1> QED BY <1>1, <1>2, <1>6, <1>7, <1>8
        DEF G!Enrol, SeenShortlist, SeenOver, SeenPermitted, Trusted, Shortlisted,
            Permitted, Ended

LEMMA QueryIsShortlist ==
  ASSUME TypeOK, TypeOK', NEW q \in Request, ContactInv(q), OnlyMoves(q),
         Trusted' = Trusted, Query(q)
  PROVE  G!Shortlist(q)
<1>1. /\ phase[q] = "query" /\ phase'[q] = "pick"
      /\ cands'[q] = {pr \in Pair : Selectable(q, pr)}
      /\ UNCHANGED <<ask, contacted, route>>
      /\ ask[q] \in Ask
  BY DEF Query, Goto, TypeOK, Over
<1>2. Shortlisted(q) = {} /\ Shortlisted(q)' = cands'[q] /\ ~Ended(q) /\ Ended(q)' = Ended(q)
      /\ Permitted(q)' = Permitted(q)
  BY <1>1 DEF Shortlisted, Ended, Over, Permitted
<1>3. Permitted(q) = {p \in Provider : Allowed(ask[q].key, p)}
  BY <1>1, AbsentAssumption DEF Permitted
<1>4. contacted[q] \subseteq tried[q]
  BY <1>1 DEF ContactInv, Met, Over
<1>5. cands'[q] \subseteq {pr \in Trusted : pr[1] \notin contacted[q] /\ pr[1] \in Permitted(q)}
  BY <1>1, <1>3, <1>4 DEF Selectable, Trusted, Pair
<1>6. SeenPermitted' = SeenPermitted /\ SeenOver' = SeenOver
      /\ SeenShortlist' = [SeenShortlist EXCEPT ![q] = cands'[q]]
  BY <1>2, MappedStep
<1>7. SeenPermitted[q] = Permitted(q) /\ SeenShortlist[q] = {} /\ ~SeenOver[q]
  BY <1>2 DEF SeenPermitted, SeenShortlist, SeenOver
<1>8. \E pairs \in SUBSET {pr \in Trusted : pr[1] \notin contacted[q]
                                            /\ pr[1] \in SeenPermitted[q]} :
        SeenShortlist' = [SeenShortlist EXCEPT ![q] = pairs]
  BY <1>5, <1>6, <1>7
<1> QED BY <1>1, <1>6, <1>7, <1>8
        DEF G!Shortlist, SeenShortlist, SeenOver, SeenPermitted, Trusted, Shortlisted,
            Permitted, Ended

LEMMA SendIsHand ==
  ASSUME TypeOK, TypeOK', NEW q \in Request, OnlyMoves(q), Trusted' = Trusted,
         Send(q), route[q].row.host \notin Unparsable
  PROVE  G!Hand(q)
<1>1. /\ phase[q] = "send" /\ phase'[q] = "wait" /\ UNCHANGED <<ask, route>>
      /\ contacted' = [contacted EXCEPT ![q] = @ \cup {route[q].provider}]
  BY DEF Send, Goto, TypeOK
<1>2. Shortlisted(q) = {RoutePair(q)} /\ Shortlisted(q)' = {} /\ ~Ended(q)
      /\ Ended(q)' = Ended(q)
      /\ Permitted(q)' = Permitted(q)
  BY <1>1 DEF Shortlisted, Ended, Over, Permitted
<1>3. RoutePair(q)[1] = route[q].provider
  BY DEF RoutePair
<1>4. SeenPermitted' = SeenPermitted /\ SeenOver' = SeenOver
      /\ SeenShortlist' = [SeenShortlist EXCEPT ![q] = {}]
  BY <1>2, MappedStep
<1>5. SeenShortlist[q] = {RoutePair(q)} /\ ~SeenOver[q]
  BY <1>2 DEF SeenShortlist, SeenOver
<1>6. \E pr \in SeenShortlist[q] : contacted' = [contacted EXCEPT ![q] = @ \cup {pr[1]}]
  BY <1>1, <1>3, <1>5
<1> QED BY <1>4, <1>5, <1>6
        DEF G!Hand, SeenShortlist, SeenOver, SeenPermitted, Trusted, Shortlisted,
            Permitted, Ended

\* The selection narrows the shortlist to one pair, or gives up.
LEMMA PickIsSettle ==
  ASSUME TypeOK, TypeOK', NEW q \in Request, OnlyMoves(q), Trusted' = Trusted, Pick(q)
  PROVE  G!Settle(q) \/ G!Finish(q)
<1>1. phase[q] = "pick" /\ UNCHANGED <<ask, contacted>> /\ Permitted(q)' = Permitted(q)
  BY DEF Pick, Permitted
<1>2. Shortlisted(q) = cands[q] /\ ~Ended(q)
  BY <1>1 DEF Shortlisted, Ended, Over
<1>3. ASSUME NoRouteLeft(q)
      PROVE  G!Settle(q) \/ G!Finish(q)
  <2>1. phase'[q] \in {"body", "done"}
    BY <1>3 DEF NoRouteLeft, AnswerError, Goto, TypeOK
  <2>2. Shortlisted(q)' = {}
    BY <2>1 DEF Shortlisted
  <2>3. CASE phase'[q] = "done"
    BY <1>1, <2>2, <2>3, EndIsFinish DEF Ended, Over
  <2>4. CASE phase'[q] = "body"
    BY <1>1, <1>2, <2>2, <2>4, NarrowingIsSettle DEF Ended, Over
  <2> QED BY <2>1, <2>3, <2>4
<1>4. ASSUME NEW read \in SUBSET cands[q],
             NEW rt \in BestRoutes(RoutesOf(read, providers, "confidential")),
             route' = [route EXCEPT ![q] = rt], Goto(q, "prepare")
      PROVE  G!Settle(q)
  <2>1. read \in SUBSET Pair /\ RegTypeOK
    BY DEF TypeOK
  <2>2. <<rt.provider, rt.model>> \in cands[q]
    BY <2>1, RoutesOfType
  <2>3. phase'[q] = "prepare" /\ route'[q] = rt
    BY <1>4 DEF Goto, TypeOK
  <2>4. Shortlisted(q)' \subseteq Shortlisted(q)
    BY <1>2, <2>2, <2>3 DEF Shortlisted, RoutePair
  <2>5. Ended(q)' = Ended(q)
    BY <1>1, <2>3 DEF Ended, Over
  <2> QED BY <1>1, <2>4, <2>5, NarrowingIsSettle
<1> QED BY <1>3, <1>4 DEF Pick

LEMMA HandlerRefines ==
  ASSUME TypeOK, TypeOK', BlankInv, NEW q \in Request, ContactInv(q), RequestStep(q)
  PROVE  G!GatewayNext \/ UNCHANGED G!gatewayVars
<1>a. OnlyMoves(q) /\ Trusted' = Trusted
  BY HandlerFrame
<1> DEFINE Goal == G!GatewayNext \/ UNCHANGED G!gatewayVars
<1>1. CASE Arrive(q)
  BY <1>1, <1>a, ArriveIsEnrol DEF G!GatewayNext
<1>2. CASE Query(q)
  BY <1>2, <1>a, QueryIsShortlist DEF G!GatewayNext
<1>3. CASE Pick(q)
  BY <1>3, <1>a, PickIsSettle DEF G!GatewayNext
<1>4. CASE Send(q) /\ route[q].row.host \notin Unparsable
  BY <1>4, <1>a, SendIsHand DEF G!GatewayNext
<1>5. CASE \/ Malformed(q) \/ AuthorizeFails(q) \/ SealFails(q) \/ ReadFails(q)
           \/ PrepareFails(q) \/ RelayBody(q) \/ GzipFails(q) \/ EndStream(q)
           \/ (Authorize(q) /\ phase'[q] = "done")
           \/ (Send(q) /\ route[q].row.host \in Unparsable)
           \/ (QueryFails(q) /\ phase'[q] = "done")
           \/ (NetworkError(q) /\ ~ask[q].stream)
  <2>1. phase'[q] \in {"done", "aborted"} /\ ask' = ask /\ contacted' = contacted
    BY <1>5 DEF Malformed, AuthorizeFails, SealFails, ReadFails, PrepareFails, RelayBody,
                GzipFails, EndStream, Authorize, Send, QueryFails, NetworkError, AnswerError, Goto, TypeOK
  <2>2. Shortlisted(q)' = {} /\ Ended(q)' /\ Permitted(q)' = Permitted(q)
    BY <2>1 DEF Shortlisted, Ended, Over, Permitted
  <2>3. G!Finish(q)
    BY <1>a, <2>1, <2>2, EndIsFinish
  <2> QED BY <2>3 DEF G!GatewayNext
<1>6. CASE \/ (Authorize(q) /\ phase'[q] # "done")
           \/ (QueryFails(q) /\ phase'[q] # "done")
           \/ RetryableAnswer(q) \/ FinalAnswer(q) \/ OpenStream(q)
           \/ (NetworkError(q) /\ ask[q].stream)
  <2>1. /\ phase[q] \in {"auth", "query", "wait", "body"}
        /\ phase'[q] \in {"query", "body", "stream"} /\ ask' = ask /\ contacted' = contacted
    BY <1>6 DEF RetryableAnswer, FinalAnswer, OpenStream, Authorize, QueryFails, NoRouteLeft,
                NetworkError, FailOver, AnswerError, Goto, TypeOK
  <2>2. Unmoved(q)
    BY <2>1 DEF Unmoved, Shortlisted, Ended, Over, Permitted
  <2> QED BY <1>a, <2>2, UnmovedIsUnseen
<1>7. CASE PreparePlain(q) \/ Seal(q) \/ ClientLeaves(q)
  <2>1. /\ phase'[q] = phase[q] \/ (phase[q] = "prepare" /\ phase'[q] = "send")
        /\ UNCHANGED <<ask, cands, route, contacted>>
    BY <1>7 DEF PreparePlain, Seal, ClientLeaves, Goto, TypeOK
  <2>2. Unmoved(q)
    BY <2>1 DEF Unmoved, Shortlisted, Ended, Over, Permitted, RoutePair
  <2> QED BY <1>a, <2>2, UnmovedIsUnseen
<1>8. CASE SkipSealed(q)
  <2>1. phase[q] = "prepare" /\ phase'[q] = "query" /\ ask' = ask /\ contacted' = contacted
    BY <1>8 DEF SkipSealed, FailOver, Goto, TypeOK
  <2>2. Shortlisted(q)' = {} /\ Ended(q)' = Ended(q) /\ Permitted(q)' = Permitted(q)
    BY <2>1 DEF Shortlisted, Ended, Over, Permitted
  <2>3. G!Settle(q)
    BY <1>a, <2>1, <2>2, NarrowingIsSettle
  <2> QED BY <2>3 DEF G!GatewayNext
<1> QED BY <1>1, <1>2, <1>3, <1>4, <1>5, <1>6, <1>7, <1>8 DEF RequestStep, Handle

-----------------------------------------------------------------------------
(***************************************************************************)
(* The rest, and the theorem.                                              *)
(***************************************************************************)

LEMMA GatewayInitMapped == Init => G!GatewayInit
<1> SUFFICES ASSUME Init PROVE G!GatewayInit
  OBVIOUS
<1>1. \A r \in Request : Permitted(r) = {} /\ Shortlisted(r) = {} /\ ~Ended(r)
  BY DEF Init, Permitted, Shortlisted, Ended, Over
<1>2. Trusted = {}
  BY DEF Init, RegInit, Trusted
<1>3. contacted = [r \in Request |-> {}]
  BY DEF Init
<1>4. SeenPermitted = [r \in Request |-> {}] /\ SeenShortlist = [r \in Request |-> {}]
  BY <1>1 DEF SeenPermitted, SeenShortlist
<1>5. SeenOver = [r \in Request |-> FALSE]
  <2>1. ASSUME NEW r \in Request
        PROVE  Ended(r) = FALSE
    BY <1>1
  <2> QED BY <2>1, Zenon DEF SeenOver
<1> QED BY <1>2, <1>3, <1>4, <1>5
        DEF G!GatewayInit, SeenShortlist, SeenOver, SeenPermitted, Trusted, Shortlisted,
            Permitted, Ended

\* The registry moves: verdicts come and go, and no request is touched.
LEMMA RegistryIsReview ==
  ASSUME TypeOK, RegistryMoves
  PROVE  G!Review
<1>1. Trusted' \in SUBSET (Provider \X Model)
  BY DEF Trusted, Pair
<1>2. SeenPermitted' = SeenPermitted /\ SeenShortlist' = SeenShortlist
      /\ SeenOver' = SeenOver /\ contacted' = contacted
  BY DEF RegistryMoves, reqVars, SeenPermitted, SeenShortlist, SeenOver, Permitted,
         Shortlisted, Ended, RoutePair
<1> QED BY <1>1, <1>2
        DEF G!Review, SeenShortlist, SeenOver, SeenPermitted, Trusted, Shortlisted,
            Permitted, Ended

LEMMA DeathIsFall ==
  ASSUME TypeOK, ProcessDies
  PROVE  \E some \in SUBSET Request : G!Fall(some)
<1> DEFINE some == {r \in Request : Active(r)}
<1>1. UNCHANGED <<ask, cands, route, contacted, evidence>>
      /\ phase' = [r \in Request |-> IF Active(r) THEN "dead" ELSE phase[r]]
  BY DEF ProcessDies, Die
<1>2. ASSUME NEW r \in Request
      PROVE  /\ Permitted(r)' = Permitted(r)
             /\ Ended(r)' = (Ended(r) \/ r \in some)
             /\ Shortlisted(r)' = IF r \in some THEN {} ELSE Shortlisted(r)
  <2>1. Permitted(r)' = Permitted(r)
    BY <1>1 DEF Permitted
  <2>2. CASE Active(r)
    <3>1. phase'[r] = "dead"
      BY <1>1, <2>2
    <3> QED BY <2>1, <2>2, <3>1 DEF Ended, Shortlisted, Over
  <2>3. CASE ~Active(r)
    <3>1. phase'[r] = phase[r] /\ phase[r] \in Over \cup {"idle"}
      BY <1>1, <2>3 DEF Active
    <3> QED BY <1>1, <2>1, <2>3, <3>1 DEF Ended, Shortlisted, Over
  <2> QED BY <2>2, <2>3
<1>3. SeenPermitted' = SeenPermitted
  BY <1>2 DEF SeenPermitted
<1>4. SeenOver' = [r \in Request |-> SeenOver[r] \/ r \in some]
  BY <1>2 DEF SeenOver
<1>5. SeenShortlist' = [r \in Request |-> IF r \in some THEN {} ELSE SeenShortlist[r]]
  BY <1>2 DEF SeenShortlist
<1>6. Trusted' = Trusted
  BY <1>1 DEF Trusted
<1>7. ASSUME NEW struck \in SUBSET Request, struck = some
      PROVE  G!Fall(struck)
  BY <1>1, <1>3, <1>4, <1>5, <1>6, <1>7
     DEF G!Fall, SeenShortlist, SeenOver, SeenPermitted, Trusted, Shortlisted,
         Permitted, Ended
<1>8. \E struck \in SUBSET Request : struck = some
  OBVIOUS
<1> HIDE DEF some
<1> QED BY <1>7, <1>8

LEMMA GatewayRefStep ==
  TypeOK /\ TypeOK' /\ BlankInv /\ (\A r \in Request : ContactInv(r)) /\ [Next]_vars
    => [G!GatewayNext]_(G!gatewayVars)
<1> SUFFICES ASSUME TypeOK, TypeOK', BlankInv, \A r \in Request : ContactInv(r), [Next]_vars
             PROVE  G!GatewayNext \/ UNCHANGED G!gatewayVars
  OBVIOUS
<1>1. ASSUME NEW r \in Request, RequestStep(r)
      PROVE  G!GatewayNext \/ UNCHANGED G!gatewayVars
  BY <1>1, HandlerRefines
<1>2. ASSUME NEW k \in Key, CreateAPIKey(k) \/ DeleteAPIKey(k)
      PROVE  UNCHANGED G!gatewayVars
  BY <1>2 DEF CreateAPIKey, DeleteAPIKey, RegUnchanged, reqVars, G!gatewayVars, RoutePair
<1>3. CASE RegistryMoves
  BY <1>3, RegistryIsReview DEF G!GatewayNext
<1>4. CASE ProcessDies
  BY <1>4, DeathIsFall DEF G!GatewayNext
<1>5. CASE UNCHANGED vars
  BY <1>5 DEF vars, G!gatewayVars, RoutePair
<1> QED BY <1>1, <1>2, <1>3, <1>4, <1>5 DEF Next

\* encproxy hands a request only to pairs that were trusted when they were
\* shortlisted for it, within what its key permits, and to nobody twice: the
\* handlers, the registry and the process they share do what VerifiedGateway says.
THEOREM HandlersImplementGateway == Spec => ImplementsGateway
BY GatewayInitMapped, GatewayRefStep, HandlersTypeCorrect, BlankAlways, ContactAlways, PTL
   DEF Spec, ImplementsGateway, G!GatewaySpec

=============================================================================
