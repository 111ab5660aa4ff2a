-------------------------------- MODULE Cost --------------------------------
(***************************************************************************)
(* What an answer is booked with: the price of the route's provider        *)
(* (handleNonStreamingRequest, streamResponse and recordUsage in           *)
(* internal/proxy/proxy.go, CalculateCost in internal/routing/routing.go). *)
(*                                                                         *)
(* All names here are spellings of one model: the one of each provider,    *)
(* and the canonical one.  Amounts are in micro-USD.                       *)
(***************************************************************************)
EXTENDS Naturals, Sequences, FiniteSets

CONSTANTS
  Providers,
  Spellings,   \* the names of the model
  ModelOf,     \* the spelling each provider knows the model by
  Prices,      \* prices per Million tokens
  Tokens,      \* how many tokens a prompt or a completion may have
  Million,     \* bound: stands for 10^6, in the code's two divisions
  MaxAnswers,  \* bound: answers booked
  MaxEdits     \* bound: edits of a provider's row

None == [provider |-> "none"]

VARIABLES
  pricing,  \* the pricing column of each provider's row
  route,    \* the provider and the pricing of the route that answers, or None
  edits,
  events,   \* the usage events, as far as tokens and cost go
  answers   \* history: what was asked for, and what was really used, at what tariff

vars == <<pricing, route, edits, events, answers>>

Init ==
  /\ \E price \in Prices : pricing = [p \in Providers |-> [m \in {ModelOf[p]} |-> price]]
  /\ route = None /\ edits = 0 /\ events = <<>> /\ answers = <<>>

\* Half up, as math.Round does for what is not negative.
Round(a, b) == (2 * a + b) \div (2 * b)

\* The price is divided by 10^6 in the call, and the product once more in the
\* function.
CalculateCost(tokens, price) == Round(tokens * price, Million * Million)

\* The name looked up is the one the client has asked with.
PriceOf(tariff, name) == IF name \in DOMAIN tariff THEN tariff[name] ELSE 0

SelectProvider ==
  /\ route = None /\ Len(events) < MaxAnswers
  /\ \E p \in Providers : route' = [provider |-> p, tariff |-> pricing[p]]
  /\ UNCHANGED <<pricing, edits, events, answers>>

Book(name, prompt, completion, cost, used) ==
  /\ events' = Append(events, [provider |-> route.provider, model |-> name,
                               prompt |-> prompt, completion |-> completion, cost |-> cost])
  /\ answers' = Append(answers, [tariff |-> route.tariff, used |-> used])
  /\ route' = None
  /\ UNCHANGED <<pricing, edits>>

\* An answer that is read as a whole says what it used.
BookAnswer ==
  /\ route # None
  /\ \E name \in Spellings, prompt, completion \in Tokens :
       Book(name, prompt, completion,
            CalculateCost(prompt + completion, PriceOf(route.tariff, name)), prompt + completion)

\* One that is no JSON, or says nothing of its usage, is booked with nothing.
BookUnparsed ==
  /\ route # None
  /\ \E name \in Spellings, used \in Tokens : Book(name, 0, 0, 0, used)

\* Of a stream the reads are counted, whatever they contain.
BookStream ==
  /\ route # None
  /\ \E name \in Spellings, reads, used \in Tokens : Book(name, 0, reads, 0, used)

\* createProvider replaces the row, its pricing included; a request that leaves
\* the pricing out takes the prices away.
EditPricing ==
  /\ edits < MaxEdits /\ edits' = edits + 1
  /\ \E p \in Providers : \E priced \in SUBSET {ModelOf[p]} : \E tariff \in [priced -> Prices] :
       pricing' = [pricing EXCEPT ![p] = tariff]
  /\ UNCHANGED <<route, events, answers>>

Next == SelectProvider \/ BookAnswer \/ BookUnparsed \/ BookStream \/ EditPricing

Spec == Init /\ [][Next]_vars

-----------------------------------------------------------------------------
(***************************************************************************)
(* Properties.                                                             *)
(***************************************************************************)

\* What the tokens of the i-th answer cost at the price its provider has for the
\* model, under whatever name.
Due(i) == Round(answers[i].used * PriceOf(answers[i].tariff, ModelOf[events[i].provider]), Million)

\* What the comment in CalculateCost says, Cost = tokens * price / 1M, of an
\* answer that was asked for by the name its provider prices.
BookedAtThePrice ==
  \A i \in DOMAIN events :
    events[i].prompt > 0 /\ events[i].model = ModelOf[events[i].provider] => events[i].cost = Due(i)

=============================================================================
