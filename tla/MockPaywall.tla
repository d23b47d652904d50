----------------------------- MODULE MockPaywall -----------------------------
(***************************************************************************)
(* A paid request through the exchange with MOCK_MODE=true: the gate       *)
(* charges an in-memory ledger before the handler runs, in the same        *)
(* synchronous step, so a failed request has to be refunded.  The only     *)
(* await is the paid call to the provider.                                 *)
(***************************************************************************)
EXTENDS QuoteBook, FiniteSetsExt

CONSTANTS
  Buyers,           \* requests, each sent until it is answered
  BodyOf,           \* the body that a request carries
  Credentials       \* whether HEDERA_EXCHANGE_ID and _KEY are set

ASSUME MockPaywallAssumption ==
  IsFiniteSet(Buyers) /\ BodyOf \in [Buyers -> Bodies] /\ Credentials \in BOOLEAN

VARIABLES
  refundOnFailure,  \* REFUND_ON_FAILURE, read at start
  phase,
  header,   \* the quote whose total a buyer sends in the payment header
  handled,  \* the quote that the gate charges and the handler serves
  ledger,   \* mockLedger: the exchange, the agents and all the providers
  revenue,  \* the revenue counters
  up        \* the exchange runs

saleVars  == <<refundOnFailure, phase, header, handled>>
vars      == <<quoteVars, saleVars, ledger, revenue, up>>

Phases == {"new", "quoted", "refused", "serving", "served", "refunded", "kept"}

Init ==
  /\ QuotesInit
  /\ refundOnFailure \in BOOLEAN
  /\ phase = [b \in Buyers |-> "new"]
  /\ header = [b \in Buyers |-> NoQuote]
  /\ handled = [b \in Buyers |-> NoQuote]
  /\ ledger = [exchange |-> 0, agents |-> 0, providers |-> 0]
  /\ revenue = [requests |-> 0, volume |-> 0, fee |-> 0, refunds |-> 0]
  /\ up = TRUE

Goto(b, p) == phase' = [phase EXCEPT ![b] = p]
TotalOf(id) == totalForPrice(book[id].price)

\* A 402 with quote id; without a live provider the handler answers 503.
Offer(b, id) ==
  /\ header' = [header EXCEPT ![b] = id]
  /\ Goto(b, IF id = NoQuote THEN "refused" ELSE "quoted")

\* The unpaid request.
Ask(b) ==
  /\ up /\ phase[b] = "new"
  /\ \E id \in 0..MaxQuotes : QuoteFor(BodyOf[b], id) /\ Offer(b, id)
  /\ UNCHANGED <<expired, listing, refundOnFailure, handled, ledger, revenue, up>>

\* The paid retry: a header that covers the quote is charged the quoted total
\* and the handler starts with that quote; any other gets a fresh 402 or 503.
Pay(b) ==
  /\ up /\ phase[b] = "quoted"
  /\ \E id \in 0..MaxQuotes :
       LET total  == totalForPrice(book'[id].price)
           covers == id # NoQuote /\ TotalOf(header[b]) >= total
       IN
       /\ QuoteFor(BodyOf[b], id)
       /\ \/ /\ covers
             /\ ledger' = [ledger EXCEPT !.exchange = @ + total]
             /\ handled' = [handled EXCEPT ![b] = id]
             /\ Goto(b, "serving") /\ UNCHANGED header
          \/ /\ ~covers
             /\ Offer(b, id) /\ UNCHANGED <<handled, ledger>>
  /\ UNCHANGED <<expired, listing, refundOnFailure, revenue, up>>

\* The provider answers 2xx: it is credited the quoted price, and the quote's
\* amounts are accrued.
ProviderServes(b) ==
  LET quote == book[handled[b]] IN
  /\ up /\ phase[b] = "serving"
  /\ ledger' = [ledger EXCEPT !.providers = @ + quote.price]
  /\ revenue' = [revenue EXCEPT !.requests = @ + 1, !.volume = @ + quote.price,
                                !.fee = @ + feeForPrice(quote.price)]
  /\ ConsumeQuote(handled[b])
  /\ Goto(b, "served")
  /\ UNCHANGED <<expired, listing, refundOnFailure, header, handled, up>>

\* The call fails, before or after paidPost credited the provider.
CreditOnFailure(b) == {0, book[handled[b]].price}

\* Mutant: the refund credits the agent only.
Refund_AgentOnly(b, credit) ==
  /\ ledger' = [ledger EXCEPT !.agents = @ + TotalOf(handled[b]),
                              !.providers = @ + credit]
  /\ revenue' = [revenue EXCEPT !.refunds = @ + 1]
  /\ Goto(b, "refunded")

\* The exchange gives the total back: its row down, the agents' row up.
Refund(b, credit) ==
  /\ ledger' = [exchange  |-> ledger.exchange - TotalOf(handled[b]),
                agents    |-> ledger.agents + TotalOf(handled[b]),
                providers |-> ledger.providers + credit]
  /\ revenue' = [revenue EXCEPT !.refunds = @ + 1]
  /\ Goto(b, "refunded")

\* The catch block.  hederaAccount("EXCHANGE"), an argument of the refund's HCS
\* message, exits the process when there are no credentials: the quote is not
\* consumed and the 502 is not sent.
ProviderFails(b) ==
  /\ up /\ phase[b] = "serving"
  /\ \E credit \in CreditOnFailure(b) :
       \/ /\ refundOnFailure
          /\ Refund(b, credit)
          /\ up' = Credentials
          /\ IF Credentials THEN ConsumeQuote(handled[b]) ELSE UNCHANGED mapVars
       \/ /\ ~refundOnFailure
          /\ ledger' = [ledger EXCEPT !.providers = @ + credit]
          /\ ConsumeQuote(handled[b])
          /\ Goto(b, "kept")
          /\ UNCHANGED <<revenue, up>>
  /\ UNCHANGED <<expired, listing, refundOnFailure, header, handled>>

Sale(b) == Ask(b) \/ Pay(b) \/ ProviderServes(b) \/ ProviderFails(b)

Environment == /\ Expire \/ \E p \in Providers : Relist(p)
               /\ UNCHANGED <<saleVars, ledger, revenue, up>>

Next == (\E b \in Buyers : Sale(b)) \/ Environment

Spec == Init /\ [][Next]_vars

-----------------------------------------------------------------------------
(* Properties.                                                             *)

TotalOfPhase(p) ==
  MapThenSumSet(LAMBDA b : TotalOf(handled[b]), {b \in Buyers : phase[b] = p})

\* The exchange's ledger row is exactly what it may keep: the charges in
\* flight, the revenue it reports and, without refunds, the failed ones
\* (index.ts:245, 447-449, 484; refund.ts:42); and the agents got back
\* exactly what was refunded.
LedgerBalances ==
  /\ ledger.exchange = revenue.volume + revenue.fee
                         + TotalOfPhase("serving") + TotalOfPhase("kept")
  /\ ledger.agents = TotalOfPhase("refunded")
=============================================================================
