----------------------------- MODULE ModelRouting -----------------------------
(***************************************************************************)
(* How the buyer agent chooses the model it buys: routedBuyFor of          *)
(* packages/agent/src/server.ts and the pure functions of route-model.ts.  *)
(* The market is the exchange's GET /providers, an array whose order       *)
(* matters only between equal prices; a price that is not a number arrives *)
(* as null (NoPrice).  Of the prompt, the heuristics tell apart whether it *)
(* looks hard (code, reasoning, more than 600 characters) and whether it   *)
(* is a short question.                                                    *)
(***************************************************************************)
EXTENDS Integers, Sequences, SequencesExt

CONSTANTS
  Models,      \* model names
  Asks,        \* asks, as integers
  Fallback,    \* AGENT_MODEL
  MarketSize,  \* providers on the market, at most
  Unreachable  \* stands for a market that did not answer

ASSUME AsksAssumption == Asks \subseteq Nat
ASSUME MarketSizeAssumption == MarketSize \in Nat

VARIABLES
  market,  \* what GET /providers answers; Unreachable when it does not
  query,   \* the goal being routed: hard, short
  pick,    \* the model the client asked for, if any
  route    \* the route of the last run: model and tier

routeVars == <<market, query, pick, route>>

NoPrice == -1
NoPick == "no pick"
MarketRow == [model : Models, price : Asks \cup {NoPrice}, status : {"live", "down"}]

\* `p.price ?? p.priceHbar ?? 0`: the router takes a missing price for 0.
RouterPrice(p) == IF p.price = NoPrice THEN 0 ELSE p.price

\* Mutant: the first ask seen for a model stays, not the cheapest.
CheapestFirst_FirstAsk(asks) ==
  LET first(m) == CHOOSE i \in DOMAIN asks :
                    asks[i].model = m /\ \A j \in DOMAIN asks : asks[j].model = m => i <= j
      before(a, b) == \/ a.price < b.price
                      \/ a.price = b.price /\ first(a.model) < first(b.model)
      models == {asks[first(asks[i].model)] : i \in DOMAIN asks} IN
  CHOOSE s \in SetToSeqs(models) : \A i, j \in DOMAIN s : i < j => before(s[i], s[j])

\* Distinct models of `asks` (a model and a price per place in the market), each
\* with its cheapest ask, cheapest first; models at the same ask in the order
\* the market lists them.
CheapestFirst(asks) ==
  LET offers(m) == {i \in DOMAIN asks : asks[i].model = m}
      ask(m) == CHOOSE x \in {asks[i].price : i \in offers(m)} : \A i \in offers(m) : x <= asks[i].price
      first(m) == CHOOSE i \in offers(m) : \A j \in offers(m) : i <= j
      before(a, b) == \/ a.price < b.price
                      \/ a.price = b.price /\ first(a.model) < first(b.model)
      models == {[model |-> asks[i].model, price |-> ask(asks[i].model)] : i \in DOMAIN asks} IN
  CHOOSE s \in SetToSeqs(models) : \A i, j \in DOMAIN s : i < j => before(s[i], s[j])

liveModels(providers) ==
  LET live == {i \in DOMAIN providers : providers[i].status = "live"} IN
  CheapestFirst([i \in live |-> [model |-> providers[i].model, price |-> RouterPrice(providers[i])]])

routeModel(q, providers) ==
  LET models == liveModels(providers)
      n == Len(models) IN
  IF n = 0 THEN [model |-> Fallback, tier |-> "medium"]
  ELSE IF q.hard THEN [model |-> models[n].model, tier |-> "premium"]
  ELSE IF q.short THEN [model |-> models[1].model, tier |-> "simple"]
  ELSE [model |-> models[(n - 1) \div 2 + 1].model, tier |-> "medium"]

\* An explicit pick skips the router; an unreachable market falls back.
routedBuyFor(q, p, m) ==
  IF p # NoPick THEN [model |-> p, tier |-> "medium"]
  ELSE IF m = Unreachable THEN [model |-> Fallback, tier |-> "medium"]
  ELSE routeModel(q, m)

NoRoute == [model |-> NoPick, tier |-> "none"]

RouteInit ==
  /\ market \in {Unreachable} \cup BoundedSeq(MarketRow, MarketSize)
  /\ query \in [hard : BOOLEAN, short : BOOLEAN]
  /\ pick \in Models \cup {NoPick}
  /\ route = NoRoute

Route ==
  /\ route = NoRoute
  /\ route' = routedBuyFor(query, pick, market)
  /\ UNCHANGED <<market, query, pick>>

RouteNext == Route
RouteSpec == RouteInit /\ [][RouteNext]_routeVars

--------------------------------------------------------------------------------
Reachable == market # Unreachable
LiveOffers == IF Reachable THEN {p \in ToSet(market) : p.status = "live"} ELSE {}

\* route-model.ts:3-4, 36-38: a simple prompt is sent to a model no live ask
\* undercuts, a hard one to a model no other live model's ask exceeds, and a
\* general one to a price in between.
TiersFollowPrices ==
  LET ask(m) == CHOOSE x \in {RouterPrice(p) : p \in {o \in LiveOffers : o.model = m}} :
                  \A p \in {o \in LiveOffers : o.model = m} : x <= RouterPrice(p)
      dearer == {m \in Models : (\E p \in LiveOffers : p.model = m) /\ ask(m) > ask(route.model)} IN
  route # NoRoute /\ pick = NoPick /\ LiveOffers # {} =>
    /\ route.tier = "simple" => \A p \in LiveOffers : ask(route.model) <= RouterPrice(p)
    /\ route.tier = "premium" => dearer = {}
    /\ route.tier = "medium" =>
         \A q \in {[hard |-> FALSE, short |-> TRUE], [hard |-> TRUE, short |-> FALSE]} :
           LET other == ask(routeModel(q, market).model) IN
           IF q.hard THEN ask(route.model) <= other ELSE other <= ask(route.model)
================================================================================
