--------------------------- MODULE VerifiedGateway ---------------------------
(***************************************************************************)
(* What encproxy promises, with nothing of how it keeps it: "an            *)
(* OpenAI-compatible proxy for routing chat completion requests to         *)
(* verified confidential inference providers" (README.md).                 *)
(*                                                                         *)
(* A request is handed only to pairs that were trusted, and allowed to it, *)
(* when they were shortlisted for it; to one at a time; and never to the   *)
(* same provider again. Proxy implements this specification.               *)
(***************************************************************************)
CONSTANTS Provider, Model, Request

VARIABLES
  permitted,   \* providers a request may be handed to at all
  trusted,     \* pairs with a live verdict
  shortlist,   \* pairs a request may be handed to next
  handed,      \* providers it was handed to
  over         \* the request is over

gatewayVars == <<permitted, trusted, shortlist, handed, over>>

GatewayInit ==
  /\ permitted = [r \in Request |-> {}]
  /\ trusted = {}
  /\ shortlist = [r \in Request |-> {}]
  /\ handed = [r \in Request |-> {}]
  /\ over = [r \in Request |-> FALSE]

\* A request arrives: whom it may be handed to is settled once.
Enrol(r) ==
  /\ ~over[r] /\ permitted[r] = {} /\ shortlist[r] = {} /\ handed[r] = {}
  /\ \E ps \in SUBSET Provider : permitted' = [permitted EXCEPT ![r] = ps]
  /\ UNCHANGED <<trusted, shortlist, handed, over>>

\* Verdicts come and go.
Review ==
  /\ trusted' \in SUBSET (Provider \X Model)
  /\ UNCHANGED <<permitted, shortlist, handed, over>>

Shortlist(r) ==
  /\ ~over[r] /\ shortlist[r] = {}
  /\ \E pairs \in SUBSET {pr \in trusted : /\ pr[1] \notin handed[r]
                                           /\ pr[1] \in permitted[r]} :
       shortlist' = [shortlist EXCEPT ![r] = pairs]
  /\ UNCHANGED <<permitted, trusted, handed, over>>

Settle(r) ==
  /\ \E pairs \in SUBSET shortlist[r] : shortlist' = [shortlist EXCEPT ![r] = pairs]
  /\ UNCHANGED <<permitted, trusted, handed, over>>

Hand(r) ==
  /\ ~over[r]
  /\ \E pr \in shortlist[r] : handed' = [handed EXCEPT ![r] = @ \cup {pr[1]}]
  /\ shortlist' = [shortlist EXCEPT ![r] = {}]
  /\ UNCHANGED <<permitted, trusted, over>>

Finish(r) ==
  /\ over' = [over EXCEPT ![r] = TRUE]
  /\ shortlist' = [shortlist EXCEPT ![r] = {}]
  /\ UNCHANGED <<permitted, trusted, handed>>

\* The process dies: every request that had begun is over.
Fall(some) ==
  /\ over' = [r \in Request |-> over[r] \/ r \in some]
  /\ shortlist' = [r \in Request |-> IF r \in some THEN {} ELSE shortlist[r]]
  /\ UNCHANGED <<permitted, trusted, handed>>

GatewayNext ==
  \/ Review
  \/ \E r \in Request : Enrol(r) \/ Shortlist(r) \/ Settle(r) \/ Hand(r) \/ Finish(r)
  \/ \E some \in SUBSET Request : Fall(some)

GatewaySpec == GatewayInit /\ [][GatewayNext]_gatewayVars

=============================================================================
