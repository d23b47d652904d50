----------------------------- MODULE Settlement -----------------------------
(***************************************************************************)
(* A paid request through the exchange in real mode: 402 with a quote,     *)
(* paid retry, verification by the facilitator, the router's own paid call *)
(* to the provider, and the settlement of the buyer's payment AFTER the    *)
(* response, with the hook that accrues revenue and publishes the trade.   *)
(*                                                                         *)
(* The x402 middleware and the facilitator are external.  They are modelled*)
(* from the hooks the exchange registers (index.ts:275-337): a request is  *)
(* verified against the price recomputed for it, the handler runs, a 2xx   *)
(* answer is settled and anything else cancelled.  Between any two of these*)
(* the code awaits, so the requests of several buyers interleave.          *)
(***************************************************************************)
EXTENDS QuoteBook

CONSTANTS
  Buyers,        \* requests, each sent until it is paid or given up
  NoBuyer,
  BodyOf,        \* the body that a request carries
  LogLimit       \* REQUEST_LOG_LIMIT

ASSUME SettlementAssumption ==
  /\ BodyOf \in [Buyers -> Bodies] /\ NoBuyer \notin Buyers
  /\ LogLimit \in Nat \ {0}

VARIABLES
  phase,
  signed,          \* the quote a buyer's signature was made for
  paid,            \* the quote in the requirements its payment verified for
  handled,         \* the quote that the handler serves and bills
  pendingSettles,  \* Map quoteId -> log entry, which is named by its buyer
  requestLog,      \* buyers whose entry is in the log, oldest first
  revenue,         \* the revenue counters
  trades,          \* trade messages published on HCS
  income,          \* units that the facilitator moved to the exchange
  outlay           \* outlay[b]: units that the exchange paid a provider for b

saleVars    == <<phase, signed, paid, handled>>
accountVars == <<pendingSettles, requestLog, revenue, trades, income, outlay>>
vars == <<quoteVars, saleVars, accountVars>>

Phases == {"new", "quoted", "unquoted", "verifying", "rejected", "serving",
           "settling", "cancelled", "charged", "unpaid"}

Init ==
  /\ QuotesInit
  /\ phase = [b \in Buyers |-> "new"]
  /\ signed = [b \in Buyers |-> NoQuote]
  /\ paid = [b \in Buyers |-> NoQuote]
  /\ handled = [b \in Buyers |-> NoQuote]
  /\ pendingSettles = [id \in QuoteIds |-> NoBuyer]
  /\ requestLog = <<>>
  /\ revenue = [requests |-> 0, volume |-> 0, fee |-> 0]
  /\ trades = <<>>
  /\ income = 0
  /\ outlay = [b \in Buyers |-> 0]

Goto(b, p) == phase' = [phase EXCEPT ![b] = p]

-----------------------------------------------------------------------------
(* The payment gate.                                                       *)

\* A 402 offers quote id, or a price of 0 without one, which ends the attempt.
Offer(b, id) ==
  /\ signed' = [signed EXCEPT ![b] = id]
  /\ Goto(b, IF id = NoQuote THEN "unquoted" ELSE "quoted")

\* The unpaid request.
Ask(b) ==
  /\ phase[b] = "new"
  /\ \E id \in 0..MaxQuotes : QuoteFor(BodyOf[b], id) /\ Offer(b, id)
  /\ UNCHANGED <<expired, listing, paid, handled, accountVars>>

\* The paid retry: its signature fits the recomputed price, or a fresh 402.
Pay(b) ==
  /\ phase[b] = "quoted"
  /\ \E id \in 0..MaxQuotes :
       LET fits == /\ id # NoQuote
                   /\ totalForPrice(book'[id].price) = totalForPrice(book[signed[b]].price)
       IN
       /\ QuoteFor(BodyOf[b], id)
       /\ \/ /\ fits
             /\ paid' = [paid EXCEPT ![b] = id]
             /\ Goto(b, "verifying") /\ UNCHANGED signed
          \/ /\ ~fits
             /\ Offer(b, id) /\ UNCHANGED paid
  /\ UNCHANGED <<expired, listing, handled, accountVars>>

\* The facilitator refuses the payment.
VerifyFails(b) ==
  /\ phase[b] = "verifying"
  /\ Goto(b, "rejected")
  /\ UNCHANGED <<quoteVars, signed, paid, handled, accountVars>>

-----------------------------------------------------------------------------
(* The router.                                                             *)

\* The payment is verified and the handler takes its quote; without one it
\* answers 503, which cancels the payment.
Handle(b) ==
  /\ phase[b] = "verifying"
  /\ \E id \in 0..MaxQuotes :
       /\ QuoteFor(BodyOf[b], id)
       /\ handled' = [handled EXCEPT ![b] = id]
       /\ Goto(b, IF id = NoQuote THEN "cancelled" ELSE "serving")
  /\ UNCHANGED <<expired, listing, signed, paid, accountVars>>

\* pushRequest keeps the last LogLimit entries.
PushRequest(b) ==
  requestLog' = IF Len(requestLog) < LogLimit THEN Append(requestLog, b)
                                              ELSE Append(Tail(requestLog), b)

\* paidPost lets the provider's own 402 set the amount.
PayProvider(b, amount) == outlay' = [outlay EXCEPT ![b] = amount]
AskOf(b) == listing[book[handled[b]].provider].price

\* The provider answers 2xx; the entry waits for the settlement of its quote.
ProviderServes(b) ==
  /\ phase[b] = "serving"
  /\ PayProvider(b, AskOf(b))
  /\ pendingSettles' = [pendingSettles EXCEPT ![handled[b]] = b]
  /\ PushRequest(b)
  /\ Goto(b, "settling")
  /\ UNCHANGED <<quoteVars, signed, paid, handled, revenue, trades, income>>

\* Mutant: the middleware settles a failed request too.
ProviderFails_StillSettles(b) ==
  /\ phase[b] = "serving"
  /\ ConsumeQuote(handled[b])
  /\ PushRequest(b)
  /\ Goto(b, "charged")
  /\ income' = income + totalForPrice(book[paid[b]].price)
  /\ UNCHANGED <<expired, listing, signed, paid, handled, pendingSettles, revenue,
                 trades, outlay>>

\* The paid call fails, before or after the provider was paid: 502, which
\* cancels the buyer's payment.
ProviderFails(b) ==
  /\ phase[b] = "serving"
  /\ \E cost \in {0, AskOf(b)} : PayProvider(b, cost)
  /\ ConsumeQuote(handled[b])
  /\ PushRequest(b)
  /\ Goto(b, "cancelled")
  /\ UNCHANGED <<expired, listing, signed, paid, handled, pendingSettles, revenue,
                 trades, income>>

-----------------------------------------------------------------------------
(* Settlement, after the response.                                         *)

Bill(id) == [price |-> book[id].price, fee |-> feeForPrice(book[id].price)]
NoBill   == [price |-> 0, fee |-> 0]

\* What onAfterSettle accrues for quote id: the amounts of the entry, else of
\* the quote, else nothing.
Accrual(entry, id) ==
  IF entry # NoBuyer THEN Bill(handled[entry])
  ELSE IF QuoteById(id) THEN Bill(id) ELSE NoBill

\* Mutant: the entry that was published goes on waiting.
Settled_KeepsWaiting(b, entry, accrual) ==
  /\ UNCHANGED pendingSettles
  /\ revenue' = [requests |-> revenue.requests + 1,
                 volume |-> revenue.volume + accrual.price,
                 fee |-> revenue.fee + accrual.fee]
  /\ trades' = IF entry = NoBuyer THEN trades
               ELSE Append(trades, [entry |-> entry, payer |-> b])
  /\ income' = income + totalForPrice(book[paid[b]].price)
  /\ Goto(b, "charged")
  /\ UNCHANGED <<expired, listing, signed, paid, handled, requestLog, outlay>>

\* The hook for b's payment: the counters, the trade message, the money.
Settled(b, entry, accrual) ==
  LET id == paid[b] IN
  /\ pendingSettles' = [pendingSettles EXCEPT ![id] = NoBuyer]
  /\ revenue' = [requests |-> revenue.requests + 1,
                 volume |-> revenue.volume + accrual.price,
                 fee |-> revenue.fee + accrual.fee]
  /\ trades' = IF entry = NoBuyer THEN trades
               ELSE Append(trades, [entry |-> entry, payer |-> b])
  /\ income' = income + totalForPrice(book[id].price)
  /\ Goto(b, "charged")
  /\ UNCHANGED <<expired, listing, signed, paid, handled, requestLog, outlay>>

InLog(e) == \E i \in DOMAIN requestLog : requestLog[i] = e

\* Mutant: the hook takes the newest entry of the log.
WaitingEntry_Newest(id) ==
  IF pendingSettles[id] # NoBuyer THEN requestLog[Len(requestLog)] ELSE NoBuyer

\* The entry that waits for quote id, if the log still has it.
WaitingEntry(id) ==
  IF InLog(pendingSettles[id]) THEN pendingSettles[id] ELSE NoBuyer

\* Mutant: the hook bills the quote that the handler served.
SettleOk_BillsHandled(b) ==
  /\ phase[b] = "settling"
  /\ Settled(b, WaitingEntry(paid[b]), Bill(handled[b]))
  /\ IF QuoteById(paid[b]) THEN ConsumeQuote(paid[b]) ELSE UNCHANGED mapVars

\* Mutant: the entry is not looked up, the quote alone says what to accrue.
SettleOk_NoEntry(b) ==
  /\ phase[b] = "settling"
  /\ Settled(b, NoBuyer, Accrual(NoBuyer, paid[b]))
  /\ IF QuoteById(paid[b]) THEN ConsumeQuote(paid[b]) ELSE UNCHANGED mapVars

\* onAfterSettle
SettleOk(b) ==
  LET id == paid[b]
      entry == WaitingEntry(id)
  IN
  /\ phase[b] = "settling"
  /\ Settled(b, entry, Accrual(entry, id))
  /\ IF QuoteById(id) THEN ConsumeQuote(id) ELSE UNCHANGED mapVars

\* onSettleFailure: served, but the exchange is not paid.
SettleFails(b) ==
  /\ phase[b] = "settling"
  /\ Goto(b, "unpaid")
  /\ UNCHANGED <<quoteVars, signed, paid, handled, accountVars>>

-----------------------------------------------------------------------------
Sale(b) == \/ Ask(b) \/ Pay(b) \/ VerifyFails(b) \/ Handle(b)
           \/ ProviderServes(b) \/ ProviderFails(b)
           \/ SettleOk(b) \/ SettleFails(b)

Environment == /\ Expire \/ \E p \in Providers : Relist(p)
               /\ UNCHANGED <<saleVars, accountVars>>

Next == (\E b \in Buyers : Sale(b)) \/ Environment

Spec == Init /\ [][Next]_vars

-----------------------------------------------------------------------------
(* Properties.                                                             *)

TypeOK ==
  /\ QuotesTypeOK
  /\ phase \in [Buyers -> Phases]
  /\ signed \in [Buyers -> 0..Len(book)]
  /\ paid \in [Buyers -> 0..Len(book)]
  /\ handled \in [Buyers -> 0..Len(book)]
  /\ pendingSettles \in [QuoteIds -> Buyers \cup {NoBuyer}]
  /\ requestLog \in Seq(Buyers)
  /\ revenue \in [requests : Nat, volume : Nat, fee : Nat]
  /\ trades \in Seq([entry : Buyers, payer : Buyers])
  /\ income \in Nat
  /\ outlay \in [Buyers -> Nat]

\* Reported revenue is backed by money received, whatever is shared, expires
\* or is consumed between the payment and the hook (index.ts:281-293).
RevenueBacked == revenue.volume + revenue.fee <= income

\* A published trade names an inference that was billed at the very quote of
\* the payment that it names, for the same body: buyers whose bodies differ
\* never appear in one message (index.ts:279-307).
TradesNameTheirPayer ==
  \A i \in DOMAIN trades :
    LET t == trades[i] IN /\ handled[t.entry] = paid[t.payer]
                          /\ BodyOf[t.entry] = BodyOf[t.payer]

\* No provider call is published as two trades, although buyers may share a
\* quote and with it the entry that waits for its settlement (index.ts:279-281).
EntriesPublishedOnce ==
  \A i, j \in DOMAIN trades : trades[i].entry = trades[j].entry => i = j

\* So far no two buyers have been served and verified on one quote.
NoQuoteShared ==
  \A b, c \in Buyers : b # c /\ handled[b] # NoQuote => handled[b] \notin {handled[c], paid[c]}

\* So far no entry of a call that a provider answered has been cut from the log.
NothingCut ==
  \A b \in Buyers : phase[b] \in {"settling", "charged", "unpaid"} => InLog(b)

\* While no quote has expired or been shared, every settled payment is accrued
\* in full, even if its entry was cut from the log (index.ts:285-293), and
\* while none was cut each one is published as one trade (index.ts:296).
BooksAreExact ==
  expired = 0 /\ NoQuoteShared =>
    /\ revenue.volume + revenue.fee = income
    /\ NothingCut => Len(trades) = revenue.requests

\* What the router says of its quote: it is the one from the 402, whatever the
\* prices do meanwhile.  The handler looks it up anew, after the verification.
HandlerServesThePaidQuote ==
  \A b \in Buyers : handled[b] # NoQuote => book[handled[b]].price = book[paid[b]].price

-----------------------------------------------------------------------------
(* The detailed specification implements PaidInference.                    *)

Stage == [p \in Phases |->
  CASE p \in {"new", "quoted", "unquoted"}   -> "open"
    [] p \in {"verifying", "serving"}        -> "held"
    [] p = "settling"                        -> "served"
    [] p = "charged"                         -> "charged"
    [] p = "unpaid"                          -> "absorbed"
    [] p \in {"rejected", "cancelled"}       -> "released"]

\* The amount that the buyer signed, once it is held.
Bid(b) == IF paid[b] = NoQuote THEN 0 ELSE totalForPrice(book[signed[b]].price)

Payments == INSTANCE PaidInference
              WITH stage <- [b \in Buyers |-> Stage[phase[b]]],
                   bid   <- [b \in Buyers |-> Bid(b)],
                   received <- income

\* The exchange keeps the promise of PaidInference to each buyer.
PaymentsSpec == Payments!Spec
=============================================================================
