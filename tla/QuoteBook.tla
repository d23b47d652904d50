----------------------------- MODULE QuoteBook -----------------------------
(***************************************************************************)
(* The exchange's quotes (quotes.ts): one per request body, pinned for     *)
(* QUOTE_TTL_MS, created at the first unpaid request and looked up again   *)
(* by the paid retry, by the handler and by the settlement hook.           *)
(*                                                                         *)
(* Quote n is the n-th one created.  All live equally long, so they expire *)
(* in the order of creation: `expired` is the last one that has.  The two  *)
(* maps of the code are `quotes` (body -> quote) and `byId`.  Amounts are  *)
(* integers in base units; the conversions to decimals and back at the     *)
(* display edge are exact and left out.                                    *)
(***************************************************************************)
EXTENDS Integers, Sequences

CONSTANTS
  Bodies,     \* request bodies {model, messages}, up to their hash
  Providers,  \* provider endpoints; their order is the code's localeCompare
  Prices,     \* prices that providers ask, in base units
  FeeBps,     \* EXCHANGE_FEE_BPS
  MaxQuotes,  \* bound: quotes that are ever created
  Expiring,   \* whether quotes expire while requests are in flight
  Relisting   \* whether providers change price or go away meanwhile

NoQuote == 0

ASSUME QuoteBookAssumption ==
  /\ Providers \subseteq Nat \ {0}
  /\ Prices \subseteq Nat \ {0} /\ FeeBps \in Nat /\ MaxQuotes \in Nat \ {0}
  /\ Expiring \in BOOLEAN /\ Relisting \in BOOLEAN

Quote   == [body : Bodies, provider : Providers, price : Prices]
Listing == [price : Prices, live : BOOLEAN]
QuoteIds == 1..MaxQuotes

VARIABLES
  book,     \* the quote objects created so far
  quotes,   \* Map bodyKey -> quote
  byId,     \* keys of the Map quoteId -> quote
  expired,  \* the last quote whose TTL has passed
  listing   \* price and liveness of each provider, as discovery last saw it

mapVars   == <<book, quotes, byId>>
quoteVars == <<book, quotes, byId, expired, listing>>

QuotesInit ==
  /\ book = <<>>
  /\ quotes = [k \in Bodies |-> NoQuote]
  /\ byId = {}
  /\ expired = 0
  /\ listing \in [Providers -> Listing]

-----------------------------------------------------------------------------
\* feeForPrice: the taker fee, rounded up to a base unit.
feeForPrice(price) == (price * FeeBps + 9999) \div 10000

totalForPrice(price) == price + feeForPrice(price)

\* pickProvider: the cheapest live provider, ties by url.
Routed(p) ==
  /\ listing[p].live
  /\ \A o \in Providers : listing[o].live =>
       \/ listing[p].price < listing[o].price
       \/ listing[p].price = listing[o].price /\ p <= o

Fresh(id) == id # NoQuote /\ id > expired

\* quoteFor(body k, pickProvider(...)) returns quote id: the pinned one while
\* it is fresh, else a new one for the provider that routing names now, else
\* null.  It is also pinnedQuote(body) ?? routeQuote(body).
QuoteFor(k, id) ==
  \/ /\ Fresh(quotes[k]) /\ id = quotes[k]
     /\ UNCHANGED mapVars
  \/ /\ ~Fresh(quotes[k]) /\ Len(book) < MaxQuotes
     /\ \E p \in Providers :
          /\ Routed(p)
          /\ id = Len(book) + 1
          /\ book' = Append(book, [body |-> k, provider |-> p,
                                   price |-> listing[p].price])
          /\ quotes' = [quotes EXCEPT ![k] = id]
          /\ byId' = (byId \ {quotes[k]}) \cup {id}
  \/ /\ ~Fresh(quotes[k]) /\ \A p \in Providers : ~listing[p].live
     /\ id = NoQuote
     /\ quotes' = [quotes EXCEPT ![k] = NoQuote]
     /\ byId' = byId \ {quotes[k]}
     /\ UNCHANGED book

\* quoteById
QuoteById(id) == id \in byId /\ Fresh(id)

\* Mutant: only one of the two maps is cleaned.
ConsumeQuote_ByIdOnly(id) ==
  /\ byId' = byId \ {id}
  /\ UNCHANGED <<book, quotes>>

\* consumeQuote deletes by body and by id; the body's entry may by then be
\* another, newer quote.
ConsumeQuote(id) ==
  /\ quotes' = [quotes EXCEPT ![book[id].body] = NoQuote]
  /\ byId' = byId \ {id}
  /\ UNCHANGED book

-----------------------------------------------------------------------------
\* Time passes: the TTL of one or more quotes is over.
Expire ==
  /\ Expiring
  /\ \E n \in (expired + 1)..Len(book) : expired' = n
  /\ UNCHANGED <<mapVars, listing>>

\* Discovery sees another price or another liveness of a provider.
Relist(p) ==
  /\ Relisting
  /\ \E l \in Listing : l # listing[p] /\ listing' = [listing EXCEPT ![p] = l]
  /\ UNCHANGED <<mapVars, expired>>

-----------------------------------------------------------------------------
QuotesTypeOK ==
  /\ book \in Seq(Quote) /\ Len(book) <= MaxQuotes
  /\ quotes \in [Bodies -> 0..Len(book)]
  /\ byId \subseteq 1..Len(book)
  /\ expired \in 0..Len(book)
  /\ listing \in [Providers -> Listing]

\* A quote that the book offers for a body is that body's and is known by its
\* id, so that the settlement hook can find it (quotes.ts:43-46, 78-81): the
\* two maps never disagree about what is on offer, although consumeQuote may
\* be called with a quote that is no longer the body's.
QuoteBookConsistent ==
  \A k \in Bodies : quotes[k] # NoQuote =>
    quotes[k] \in byId /\ book[quotes[k]].body = k
=============================================================================
