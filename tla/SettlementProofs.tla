-------------------------- MODULE SettlementProofs --------------------------
(***************************************************************************)
(* Theorems about the settlement of paid requests, for any number of       *)
(* buyers, bodies and providers, any prices and any fee.                   *)
(***************************************************************************)
EXTENDS Settlement, TLAPS

-----------------------------------------------------------------------------
(* The fee.                                                                *)

\* The fee is the exact percentage rounded up: the exchange never underquotes
\* its take, and never takes a whole base unit too much (hedera.ts:175-177).
THEOREM FeeIsTheCeiling ==
  ASSUME NEW price \in Nat
  PROVE  /\ feeForPrice(price) \in Nat
         /\ feeForPrice(price) * 10000 >= price * FeeBps
         /\ feeForPrice(price) * 10000 < price * FeeBps + 10000
<1> DEFINE n == price * FeeBps
<1>1. n \in Nat
  BY QuoteBookAssumption
<1> HIDE DEF n
<1>2. /\ (n + 9999) \div 10000 \in Nat
      /\ ((n + 9999) \div 10000) * 10000 >= n
      /\ ((n + 9999) \div 10000) * 10000 < n + 10000
  BY <1>1
<1>3. QED
  BY <1>2 DEF n, feeForPrice

\* A cheaper provider is never the dearer one for the buyer: the order of the
\* listed prices, by which pickProvider routes, is the order of the totals.
THEOREM TotalsFollowPrices ==
  ASSUME NEW p \in Nat, NEW q \in Nat, p <= q
  PROVE  totalForPrice(p) <= totalForPrice(q)
<1> DEFINE m == p * FeeBps
           n == q * FeeBps
<1>1. m \in Nat /\ n \in Nat /\ m <= n
  <2>1. FeeBps \in Nat /\ q - p \in Nat
    BY QuoteBookAssumption
  <2>2. (q - p) * FeeBps \in Nat
    BY <2>1
  <2>3. q * FeeBps = p * FeeBps + (q - p) * FeeBps
    BY <2>1
  <2>4. p * FeeBps \in Nat
    BY <2>1
  <2>5. QED
    BY <2>2, <2>3, <2>4
<1> HIDE DEF m, n
<1>2. (m + 9999) \div 10000 <= (n + 9999) \div 10000
  BY <1>1
<1>3. (m + 9999) \div 10000 \in Int /\ (n + 9999) \div 10000 \in Int
  BY <1>1
<1>4. QED
  BY <1>2, <1>3 DEF m, n, totalForPrice, feeForPrice

LEMMA TotalIsNat ==
  ASSUME NEW price \in Prices
  PROVE  price \in Nat /\ feeForPrice(price) \in Nat
         /\ totalForPrice(price) \in Nat
<1>1. price \in Nat
  BY QuoteBookAssumption
<1>2. feeForPrice(price) \in Nat
  BY <1>1, FeeIsTheCeiling
<1>3. QED
  BY <1>1, <1>2 DEF totalForPrice

-----------------------------------------------------------------------------
(* The quote book.                                                         *)

BookInv == QuotesTypeOK /\ QuoteBookConsistent

LEMMA QuoteForKeeps ==
  ASSUME BookInv, NEW k \in Bodies, NEW id, QuoteFor(k, id),
         UNCHANGED <<expired, listing>>
  PROVE  /\ BookInv'
         /\ id \in 0..Len(book')
         /\ id # NoQuote => book'[id].body = k
         /\ Len(book) <= Len(book')
         /\ \A i \in 1..Len(book) : book'[i] = book[i]
<1>1. book \in Seq(Quote) /\ Len(book) \in Nat /\ Len(book) <= MaxQuotes /\ MaxQuotes \in Nat
      /\ quotes \in [Bodies -> 0..Len(book)] /\ byId \subseteq 1..Len(book)
      /\ expired \in 0..Len(book) /\ listing \in [Providers -> Listing]
  BY QuoteBookAssumption DEF BookInv, QuotesTypeOK
<1>2. CASE Fresh(quotes[k]) /\ id = quotes[k] /\ UNCHANGED mapVars
  BY <1>1, <1>2 DEF BookInv, QuotesTypeOK, QuoteBookConsistent, mapVars, Fresh
<1>3. ASSUME ~Fresh(quotes[k]), Len(book) < MaxQuotes, NEW p \in Providers,
             id = Len(book) + 1,
             book' = Append(book, [body |-> k, provider |-> p, price |-> listing[p].price]),
             quotes' = [quotes EXCEPT ![k] = id],
             byId' = (byId \ {quotes[k]}) \cup {id}
      PROVE  /\ BookInv'
             /\ id \in 0..Len(book')
             /\ id # NoQuote => book'[id].body = k
             /\ Len(book) <= Len(book')
             /\ \A i \in 1..Len(book) : book'[i] = book[i]
  <2> DEFINE q == [body |-> k, provider |-> p, price |-> listing[p].price]
  <2>1. q \in Quote /\ q.body = k
    BY <1>1 DEF Quote, Listing
  <2> HIDE DEF q
  <2>2. book' = Append(book, q)
    BY <1>3 DEF q
  <2>3. /\ book' \in Seq(Quote) /\ Len(book') = Len(book) + 1
        /\ book'[id] = q /\ \A i \in 1..Len(book) : book'[i] = book[i]
    BY <1>1, <1>3, <2>1, <2>2
  <2>4. QuotesTypeOK'
    <3>1. /\ \A i \in 0..Len(book) : i \in 0..Len(book')
          /\ id \in 0..Len(book') /\ id \in 1..Len(book')
          /\ \A i \in 1..Len(book) : i \in 1..Len(book')
          /\ Len(book') <= MaxQuotes
      BY <1>1, <1>3, <2>3
    <3>2. quotes' \in [Bodies -> 0..Len(book')]
      BY <1>1, <1>3, <3>1
    <3>3. byId' \subseteq 1..Len(book') /\ expired' \in 0..Len(book')
          /\ listing' \in [Providers -> Listing]
      BY <1>1, <1>3, <3>1
    <3>4. QED
      BY <2>3, <3>1, <3>2, <3>3 DEF QuotesTypeOK
  <2>5. QuoteBookConsistent'
    BY <1>1, <1>3, <2>1, <2>3 DEF BookInv, QuoteBookConsistent, NoQuote
  <2>6. QED
    BY <1>1, <1>3, <2>1, <2>3, <2>4, <2>5 DEF BookInv
<1>4. CASE /\ id = NoQuote /\ quotes' = [quotes EXCEPT ![k] = NoQuote]
           /\ byId' = byId \ {quotes[k]} /\ UNCHANGED book
  <2>1. QuotesTypeOK'
    <3>1. NoQuote \in 0..Len(book)
      BY <1>1 DEF NoQuote
    <3>2. quotes' \in [Bodies -> 0..Len(book)] /\ byId' \subseteq 1..Len(book)
      BY <1>1, <1>4, <3>1
    <3>3. QED
      BY <1>1, <1>4, <3>2 DEF QuotesTypeOK
  <2>2. QuoteBookConsistent'
    BY <1>1, <1>4 DEF BookInv, QuoteBookConsistent, NoQuote
  <2>3. QED
    BY <1>1, <1>4, <2>1, <2>2 DEF BookInv, NoQuote
<1>5. QED
  BY <1>2, <1>3, <1>4 DEF QuoteFor

LEMMA ConsumeKeeps ==
  ASSUME BookInv, NEW id \in 1..Len(book), ConsumeQuote(id),
         UNCHANGED <<expired, listing>>
  PROVE  BookInv' /\ book' = book
<1>1. book \in Seq(Quote) /\ Len(book) \in Nat
  BY DEF BookInv, QuotesTypeOK
<1>2. book[id] \in Quote
  BY <1>1
<1>3. book[id].body \in Bodies
  BY <1>2 DEF Quote
<1>4. QuotesTypeOK'
  <2>1. NoQuote \in 0..Len(book)
    BY <1>1 DEF NoQuote
  <2>2. QED
    BY <1>1, <1>3, <2>1 DEF BookInv, QuotesTypeOK, ConsumeQuote
<1>5. QuoteBookConsistent'
  BY <1>1, <1>3 DEF BookInv, QuotesTypeOK, QuoteBookConsistent, ConsumeQuote, NoQuote
<1>6. QED
  BY <1>4, <1>5 DEF BookInv, ConsumeQuote

-----------------------------------------------------------------------------
(* The inductive invariant.                                                *)

VarsTyped ==
  /\ phase \in [Buyers -> Phases]
  /\ signed \in [Buyers -> 0..Len(book)]
  /\ paid \in [Buyers -> 0..Len(book)]
  /\ handled \in [Buyers -> 0..Len(book)]
  /\ pendingSettles \in [QuoteIds -> Buyers \cup {NoBuyer}]
  /\ requestLog \in Seq(Buyers)
  /\ revenue \in [requests : Nat, volume : Nat, fee : Nat]
  /\ trades \in Seq([entry : Buyers, payer : Buyers])
  /\ income \in Nat
  /\ outlay \in [Buyers -> Nat]

\* What the phase of buyer b says of its quotes.
BuyerInv(b) ==
  /\ phase[b] = "quoted" => signed[b] # NoQuote
  /\ paid[b] # NoQuote <=> phase[b] \notin {"new", "quoted", "unquoted"}
  /\ paid[b] # NoQuote =>
       /\ signed[b] # NoQuote /\ book[paid[b]].body = BodyOf[b]
       /\ totalForPrice(book[paid[b]].price) = totalForPrice(book[signed[b]].price)
  /\ phase[b] \in {"serving", "settling"} => handled[b] # NoQuote
  /\ handled[b] # NoQuote => book[handled[b]].body = BodyOf[b]
  /\ phase[b] \in {"new", "quoted", "verifying"} => handled[b] = NoQuote

\* An entry waits under the quote it was billed at, once it has been served.
PendingInv ==
  \A id \in QuoteIds : pendingSettles[id] # NoBuyer =>
    /\ handled[pendingSettles[id]] = id
    /\ phase[pendingSettles[id]] \in {"settling", "charged", "unpaid"}

SaleInv == /\ BookInv /\ VarsTyped
           /\ \A b \in Buyers : BuyerInv(b)
           /\ PendingInv /\ RevenueBacked

LEMMA SaleInvInit == Init => SaleInv
<1> SUFFICES ASSUME Init PROVE SaleInv
  OBVIOUS
<1>1. BookInv
  BY QuoteBookAssumption DEF Init, QuotesInit, BookInv, QuotesTypeOK, QuoteBookConsistent, NoQuote
<1>2. VarsTyped
  BY DEF Init, QuotesInit, VarsTyped, Phases, NoQuote
<1>3. \A b \in Buyers : BuyerInv(b)
  BY DEF Init, BuyerInv, NoQuote
<1>4. PendingInv /\ RevenueBacked
  BY DEF Init, PendingInv, RevenueBacked
<1>5. QED
  BY <1>1, <1>2, <1>3, <1>4 DEF SaleInv

\* The book has at most grown: what was said of its quotes is still true.
BookGrows ==
  /\ BookInv'
  /\ Len(book) \in Nat /\ Len(book') \in Nat /\ Len(book) <= Len(book')
  /\ \A i \in 1..Len(book) : book'[i] = book[i]

LEMMA BookSteps ==
  ASSUME BookInv
  PROVE  /\ \A k \in Bodies : \A id : QuoteFor(k, id) /\ UNCHANGED <<expired, listing>>
              => BookGrows /\ id \in 0..Len(book') /\ (id # NoQuote => book'[id].body = k)
         /\ \A id \in 1..Len(book) : ConsumeQuote(id) /\ UNCHANGED <<expired, listing>>
              => BookGrows
         /\ UNCHANGED quoteVars => BookGrows
         /\ UNCHANGED mapVars /\ UNCHANGED <<expired, listing>> => BookGrows
<1>1. book \in Seq(Quote) /\ Len(book) \in Nat
  BY DEF BookInv, QuotesTypeOK
<1>2. ASSUME NEW k \in Bodies, NEW id, QuoteFor(k, id), UNCHANGED <<expired, listing>>
      PROVE  BookGrows /\ id \in 0..Len(book') /\ (id # NoQuote => book'[id].body = k)
  <2>1. BookInv' /\ id \in 0..Len(book') /\ (id # NoQuote => book'[id].body = k)
        /\ Len(book) <= Len(book') /\ \A i \in 1..Len(book) : book'[i] = book[i]
    BY <1>2, QuoteForKeeps
  <2>2. Len(book') \in Nat
    BY <2>1 DEF BookInv, QuotesTypeOK
  <2>3. QED
    BY <1>1, <2>1, <2>2 DEF BookGrows
<1>3. ASSUME NEW id \in 1..Len(book), ConsumeQuote(id), UNCHANGED <<expired, listing>>
      PROVE  BookGrows
  <2>1. BookInv' /\ book' = book
    BY <1>3, ConsumeKeeps
  <2>2. QED
    BY <1>1, <2>1 DEF BookGrows
<1>4. ASSUME UNCHANGED mapVars, UNCHANGED <<expired, listing>> PROVE BookGrows
  <2>1. BookInv' /\ book' = book
    BY <1>4 DEF mapVars, BookInv, QuotesTypeOK, QuoteBookConsistent
  <2>2. QED
    BY <1>1, <2>1 DEF BookGrows
<1>5. UNCHANGED quoteVars => UNCHANGED mapVars /\ UNCHANGED <<expired, listing>>
  BY DEF quoteVars, mapVars
<1>6. QED
  BY <1>2, <1>3, <1>4, <1>5

\* A buyer that a step leaves alone keeps its invariant as the book grows.
LEMMA OthersKeep ==
  ASSUME SaleInv, BookGrows, NEW c \in Buyers,
         phase'[c] = phase[c], signed'[c] = signed[c],
         paid'[c] = paid[c], handled'[c] = handled[c]
  PROVE  BuyerInv(c)'
<1>1. /\ signed[c] \in 0..Len(book) /\ paid[c] \in 0..Len(book)
      /\ handled[c] \in 0..Len(book) /\ BuyerInv(c)
  BY DEF SaleInv, VarsTyped
<1>2. /\ signed[c] # NoQuote => book'[signed[c]] = book[signed[c]]
      /\ paid[c] # NoQuote => book'[paid[c]] = book[paid[c]]
      /\ handled[c] # NoQuote => book'[handled[c]] = book[handled[c]]
  BY <1>1 DEF BookGrows, NoQuote
<1>3. QED
  BY <1>1, <1>2 DEF BuyerInv

LEMMA BookTypes ==
  ASSUME BookInv, NEW id \in 1..Len(book)
  PROVE  /\ book[id].price \in Prices /\ book[id].body \in Bodies
         /\ book[id].provider \in Providers /\ id \in QuoteIds
         /\ book[id].price \in Nat /\ feeForPrice(book[id].price) \in Nat
         /\ totalForPrice(book[id].price)
              = book[id].price + feeForPrice(book[id].price)
         /\ totalForPrice(book[id].price) \in Nat
<1>1. book \in Seq(Quote) /\ Len(book) <= MaxQuotes /\ Len(book) \in Nat
      /\ MaxQuotes \in Nat
  BY QuoteBookAssumption DEF BookInv, QuotesTypeOK
<1>2. book[id] \in Quote /\ id \in QuoteIds
  BY <1>1 DEF QuoteIds
<1>3. book[id].price \in Prices /\ book[id].body \in Bodies /\ book[id].provider \in Providers
  BY <1>2 DEF Quote
<1>4. QED
  BY <1>2, <1>3, TotalIsNat DEF totalForPrice

LEMMA LogTypes ==
  ASSUME SaleInv, NEW b \in Buyers, PushRequest(b)
  PROVE  requestLog' \in Seq(Buyers)
<1>1. requestLog \in Seq(Buyers) /\ Len(requestLog) \in Nat /\ LogLimit \in Nat \ {0}
  BY SettlementAssumption DEF SaleInv, VarsTyped
<1>2. CASE Len(requestLog) < LogLimit
  BY <1>1, <1>2 DEF PushRequest
<1>3. CASE ~(Len(requestLog) < LogLimit)
  <2>1. requestLog # <<>>
    BY <1>1, <1>3
  <2>2. Tail(requestLog) \in Seq(Buyers)
    BY <1>1, <2>1
  <2>3. QED
    BY <1>3, <2>2 DEF PushRequest
<1>4. QED
  BY <1>2, <1>3

-----------------------------------------------------------------------------
(* One lemma per group of actions.                                         *)

\* The steps before the provider answers leave the accounts alone and do not
\* touch a request whose entry waits.
LEMMA SaleStep ==
  ASSUME SaleInv, BookGrows, VarsTyped', NEW b \in Buyers, BuyerInv(b)',
         UNCHANGED accountVars,
         \A c \in Buyers : c # b => /\ phase'[c] = phase[c] /\ signed'[c] = signed[c]
                                   /\ paid'[c] = paid[c] /\ handled'[c] = handled[c],
         phase[b] \in {"settling", "charged", "unpaid"} =>
           /\ phase'[b] \in {"settling", "charged", "unpaid"}
           /\ handled'[b] = handled[b]
  PROVE  SaleInv'
<1>1. \A c \in Buyers : BuyerInv(c)'
  BY OthersKeep
<1>2. PendingInv'
  BY DEF SaleInv, PendingInv, accountVars, VarsTyped
<1>3. RevenueBacked'
  BY DEF SaleInv, RevenueBacked, accountVars
<1>4. QED
  BY <1>1, <1>2, <1>3 DEF SaleInv, BookGrows

LEMMA AskInv ==
  ASSUME SaleInv, NEW b \in Buyers, Ask(b)
  PROVE  SaleInv'
<1>1. PICK id \in 0..MaxQuotes : QuoteFor(BodyOf[b], id) /\ Offer(b, id)
  BY DEF Ask
<1>2. BodyOf[b] \in Bodies /\ UNCHANGED <<expired, listing, paid, handled, accountVars>>
      /\ phase[b] = "new"
  BY SettlementAssumption DEF Ask
<1>3. BookGrows /\ id \in 0..Len(book')
  BY <1>1, <1>2, BookSteps DEF SaleInv
<1>4. /\ signed' = [signed EXCEPT ![b] = id]
      /\ phase' = [phase EXCEPT ![b] = IF id = NoQuote THEN "unquoted" ELSE "quoted"]
  BY <1>1 DEF Offer, Goto
<1>5. \A i \in 0..Len(book) : i \in 0..Len(book')
  BY <1>3 DEF BookGrows
<1>6. VarsTyped'
  BY <1>2, <1>3, <1>4, <1>5 DEF SaleInv, VarsTyped, Phases, accountVars
<1>7. BuyerInv(b)'
  <2>1. BuyerInv(b) /\ paid[b] = NoQuote
    BY <1>2 DEF SaleInv, BuyerInv
  <2>2. /\ phase'[b] = (IF id = NoQuote THEN "unquoted" ELSE "quoted")
        /\ signed'[b] = id /\ paid'[b] = paid[b] /\ handled'[b] = handled[b]
    BY <1>2, <1>4 DEF SaleInv, VarsTyped
  <2>3. handled[b] # NoQuote => book'[handled[b]] = book[handled[b]]
    BY <1>3 DEF SaleInv, VarsTyped, BookGrows, NoQuote
  <2>4. phase[b] = "new"
    BY <1>2
  <2>5. QED
    BY <2>1, <2>2, <2>3, <2>4 DEF BuyerInv
<1>8. QED
  BY <1>2, <1>3, <1>4, <1>6, <1>7, SaleStep DEF SaleInv, VarsTyped

LEMMA PayInv ==
  ASSUME SaleInv, NEW b \in Buyers, Pay(b)
  PROVE  SaleInv'
<1>1. PICK id \in 0..MaxQuotes :
        /\ QuoteFor(BodyOf[b], id)
        /\ \/ /\ id # NoQuote
              /\ totalForPrice(book'[id].price) = totalForPrice(book[signed[b]].price)
              /\ paid' = [paid EXCEPT ![b] = id]
              /\ Goto(b, "verifying") /\ UNCHANGED signed
           \/ Offer(b, id) /\ UNCHANGED paid
  BY DEF Pay
<1>2. BodyOf[b] \in Bodies /\ UNCHANGED <<expired, listing, handled, accountVars>>
      /\ phase[b] = "quoted"
  BY SettlementAssumption DEF Pay
<1>3. BookGrows /\ id \in 0..Len(book') /\ (id # NoQuote => book'[id].body = BodyOf[b])
  BY <1>1, <1>2, BookSteps DEF SaleInv
<1>4. signed[b] \in 1..Len(book) /\ book'[signed[b]] = book[signed[b]]
  BY <1>2, <1>3 DEF SaleInv, VarsTyped, BuyerInv, BookGrows, NoQuote
<1>5. \A i \in 0..Len(book) : i \in 0..Len(book')
  BY <1>3 DEF BookGrows
<1>6. CASE /\ id # NoQuote
           /\ totalForPrice(book'[id].price) = totalForPrice(book[signed[b]].price)
           /\ paid' = [paid EXCEPT ![b] = id]
           /\ Goto(b, "verifying") /\ UNCHANGED signed
  <2>1. VarsTyped'
    BY <1>2, <1>3, <1>5, <1>6 DEF SaleInv, VarsTyped, Phases, accountVars, Goto
  <2>2. BuyerInv(b)
    BY DEF SaleInv
  <2>3. /\ phase'[b] = "verifying" /\ paid'[b] = id /\ signed'[b] = signed[b]
        /\ handled'[b] = handled[b]
    BY <1>2, <1>6 DEF SaleInv, VarsTyped, Goto
  <2>4. handled[b] # NoQuote => book'[handled[b]] = book[handled[b]]
    BY <1>3 DEF SaleInv, VarsTyped, BookGrows, NoQuote
  <2>5. signed[b] # NoQuote
    BY <1>4 DEF NoQuote
  <2>6. BuyerInv(b)'
    BY <1>2, <1>3, <1>4, <1>6, <2>2, <2>3, <2>4, <2>5 DEF BuyerInv
  <2>7. QED
    BY <1>2, <1>3, <1>6, <2>1, <2>6, SaleStep DEF SaleInv, VarsTyped, Goto
<1>7. CASE Offer(b, id) /\ UNCHANGED paid
  <2>1. VarsTyped'
    BY <1>2, <1>3, <1>5, <1>7 DEF SaleInv, VarsTyped, Phases, accountVars, Offer, Goto
  <2>2. BuyerInv(b)
    BY DEF SaleInv
  <2>3. /\ phase'[b] = (IF id = NoQuote THEN "unquoted" ELSE "quoted")
        /\ signed'[b] = id /\ paid'[b] = paid[b] /\ handled'[b] = handled[b]
    BY <1>2, <1>7 DEF SaleInv, VarsTyped, Offer, Goto
  <2>4. handled[b] # NoQuote => book'[handled[b]] = book[handled[b]]
    BY <1>3 DEF SaleInv, VarsTyped, BookGrows, NoQuote
  <2>5. BuyerInv(b)'
    BY <1>2, <2>2, <2>3, <2>4 DEF BuyerInv
  <2>6. QED
    BY <1>2, <1>3, <1>7, <2>1, <2>5, SaleStep DEF SaleInv, VarsTyped, Offer, Goto
<1>8. QED
  BY <1>1, <1>6, <1>7

LEMMA HandleInv ==
  ASSUME SaleInv, NEW b \in Buyers, Handle(b)
  PROVE  SaleInv'
<1>1. PICK id \in 0..MaxQuotes :
        /\ QuoteFor(BodyOf[b], id)
        /\ handled' = [handled EXCEPT ![b] = id]
        /\ Goto(b, IF id = NoQuote THEN "cancelled" ELSE "serving")
  BY DEF Handle
<1>2. BodyOf[b] \in Bodies /\ UNCHANGED <<expired, listing, signed, paid, accountVars>>
      /\ phase[b] = "verifying"
  BY SettlementAssumption DEF Handle
<1>3. BookGrows /\ id \in 0..Len(book') /\ (id # NoQuote => book'[id].body = BodyOf[b])
  BY <1>1, <1>2, BookSteps DEF SaleInv
<1>4. \A i \in 0..Len(book) : i \in 0..Len(book')
  BY <1>3 DEF BookGrows
<1>5. VarsTyped'
  BY <1>1, <1>2, <1>3, <1>4 DEF SaleInv, VarsTyped, Phases, accountVars, Goto
<1>6. BuyerInv(b) /\ signed[b] \in 0..Len(book) /\ paid[b] \in 0..Len(book)
  BY DEF SaleInv, VarsTyped
<1>7. /\ phase'[b] = (IF id = NoQuote THEN "cancelled" ELSE "serving")
      /\ signed'[b] = signed[b] /\ paid'[b] = paid[b] /\ handled'[b] = id
  BY <1>1, <1>2 DEF SaleInv, VarsTyped, Goto
<1>8. /\ signed[b] # NoQuote => book'[signed[b]] = book[signed[b]]
      /\ paid[b] # NoQuote => book'[paid[b]] = book[paid[b]]
  BY <1>3, <1>6 DEF BookGrows, NoQuote
<1>9. BuyerInv(b)'
  BY <1>2, <1>3, <1>6, <1>7, <1>8 DEF BuyerInv
<1>10. QED
  BY <1>1, <1>2, <1>3, <1>5, <1>9, SaleStep DEF SaleInv, VarsTyped, Goto

LEMMA VerifyFailsInv ==
  ASSUME SaleInv, NEW b \in Buyers, VerifyFails(b)
  PROVE  SaleInv'
<1>1. /\ phase[b] = "verifying" /\ phase' = [phase EXCEPT ![b] = "rejected"]
      /\ UNCHANGED quoteVars /\ UNCHANGED <<signed, paid, handled>> /\ UNCHANGED accountVars
  BY DEF VerifyFails, Goto
<1>2. BookGrows /\ book' = book
  BY <1>1, BookSteps DEF SaleInv, quoteVars
<1>3. VarsTyped'
  BY <1>1, <1>2 DEF SaleInv, VarsTyped, Phases, accountVars
<1>4. BuyerInv(b)'
  BY <1>1, <1>2 DEF SaleInv, VarsTyped, BuyerInv
<1>5. QED
  BY <1>1, <1>2, <1>3, <1>4, SaleStep DEF SaleInv, VarsTyped

LEMMA ServingFacts ==
  ASSUME SaleInv, NEW b \in Buyers, phase[b] = "serving"
  PROVE  /\ handled[b] \in 1..Len(book) /\ handled[b] \in QuoteIds
         /\ AskOf(b) \in Nat
<1>1. handled[b] \in 1..Len(book)
  BY DEF SaleInv, VarsTyped, BuyerInv, NoQuote, BookInv, QuotesTypeOK
<1>2. book[handled[b]].provider \in Providers /\ handled[b] \in QuoteIds
  BY <1>1, BookTypes DEF SaleInv
<1>3. listing[book[handled[b]].provider] \in Listing
  BY <1>2 DEF SaleInv, BookInv, QuotesTypeOK
<1>4. AskOf(b) \in Prices
  BY <1>3 DEF AskOf, Listing
<1>5. QED
  BY <1>1, <1>2, <1>4, TotalIsNat

LEMMA ProviderServesInv ==
  ASSUME SaleInv, NEW b \in Buyers, ProviderServes(b)
  PROVE  SaleInv'
<1>1. /\ phase[b] = "serving" /\ phase' = [phase EXCEPT ![b] = "settling"]
      /\ outlay' = [outlay EXCEPT ![b] = AskOf(b)]
      /\ pendingSettles' = [pendingSettles EXCEPT ![handled[b]] = b]
      /\ PushRequest(b)
      /\ UNCHANGED quoteVars /\ UNCHANGED <<signed, paid, handled, revenue, trades, income>>
  BY DEF ProviderServes, PayProvider, Goto
<1>2. BookGrows /\ book' = book
  BY <1>1, BookSteps DEF SaleInv, quoteVars
<1>3. handled[b] \in QuoteIds /\ handled[b] # NoQuote /\ AskOf(b) \in Nat
  BY <1>1, ServingFacts DEF NoQuote
<1>4. requestLog' \in Seq(Buyers)
  BY <1>1, LogTypes
<1>5. VarsTyped'
  BY <1>1, <1>2, <1>3, <1>4 DEF SaleInv, VarsTyped, Phases
<1>6. BuyerInv(b)'
  BY <1>1, <1>2 DEF SaleInv, VarsTyped, BuyerInv
<1>7. \A c \in Buyers : BuyerInv(c)'
  BY <1>1, <1>2, <1>6, OthersKeep DEF SaleInv, VarsTyped
<1>8. PendingInv'
  <2> SUFFICES ASSUME NEW id \in QuoteIds, pendingSettles'[id] # NoBuyer
               PROVE  /\ handled'[pendingSettles'[id]] = id
                      /\ phase'[pendingSettles'[id]] \in {"settling", "charged", "unpaid"}
    BY DEF PendingInv
  <2>1. CASE id = handled[b]
    BY <2>1, <1>1, <1>3 DEF SaleInv, VarsTyped
  <2>2. CASE id # handled[b]
    <3>1. pendingSettles'[id] = pendingSettles[id] /\ pendingSettles[id] \in Buyers
      BY <2>2, <1>1 DEF SaleInv, VarsTyped
    <3>2. /\ handled[pendingSettles[id]] = id
          /\ phase[pendingSettles[id]] \in {"settling", "charged", "unpaid"}
      BY <3>1 DEF SaleInv, PendingInv
    <3>3. QED
      BY <1>1, <3>1, <3>2 DEF SaleInv, VarsTyped
  <2>3. QED
    BY <2>1, <2>2
<1>9. RevenueBacked'
  BY <1>1 DEF SaleInv, RevenueBacked
<1>10. QED
  BY <1>2, <1>5, <1>7, <1>8, <1>9 DEF SaleInv, BookGrows

LEMMA ProviderFailsInv ==
  ASSUME SaleInv, NEW b \in Buyers, ProviderFails(b)
  PROVE  SaleInv'
<1>1. PICK cost \in {0, AskOf(b)} : outlay' = [outlay EXCEPT ![b] = cost]
  BY DEF ProviderFails, PayProvider
<1>2. /\ phase[b] = "serving" /\ phase' = [phase EXCEPT ![b] = "cancelled"]
      /\ ConsumeQuote(handled[b]) /\ PushRequest(b)
      /\ UNCHANGED <<expired, listing, signed, paid, handled, pendingSettles, revenue,
                     trades, income>>
  BY DEF ProviderFails, Goto
<1>3. handled[b] \in 1..Len(book) /\ cost \in Nat
  BY <1>2, ServingFacts
<1>4. BookGrows /\ book' = book
  BY <1>2, <1>3, BookSteps DEF SaleInv, ConsumeQuote
<1>5. requestLog' \in Seq(Buyers)
  BY <1>2, LogTypes
<1>6. VarsTyped'
  BY <1>1, <1>2, <1>3, <1>4, <1>5 DEF SaleInv, VarsTyped, Phases
<1>7. BuyerInv(b)'
  BY <1>2, <1>4 DEF SaleInv, VarsTyped, BuyerInv
<1>8. \A c \in Buyers : BuyerInv(c)'
  BY <1>2, <1>4, <1>7, OthersKeep DEF SaleInv, VarsTyped
<1>9. PendingInv'
  BY <1>2 DEF SaleInv, VarsTyped, PendingInv
<1>10. RevenueBacked'
  BY <1>2 DEF SaleInv, RevenueBacked
<1>11. QED
  BY <1>4, <1>6, <1>8, <1>9, <1>10 DEF SaleInv, BookGrows

LEMMA SettleFailsInv ==
  ASSUME SaleInv, NEW b \in Buyers, SettleFails(b)
  PROVE  SaleInv'
<1>1. /\ phase[b] = "settling" /\ phase' = [phase EXCEPT ![b] = "unpaid"]
      /\ UNCHANGED quoteVars /\ UNCHANGED <<signed, paid, handled>> /\ UNCHANGED accountVars
  BY DEF SettleFails, Goto
<1>2. BookGrows /\ book' = book
  BY <1>1, BookSteps DEF SaleInv, quoteVars
<1>3. VarsTyped'
  BY <1>1, <1>2 DEF SaleInv, VarsTyped, Phases, accountVars
<1>4. BuyerInv(b)'
  BY <1>1, <1>2 DEF SaleInv, VarsTyped, BuyerInv
<1>5. QED
  BY <1>1, <1>2, <1>3, <1>4, SaleStep DEF SaleInv, VarsTyped

LEMMA SettleOkInv ==
  ASSUME SaleInv, NEW b \in Buyers, SettleOk(b)
  PROVE  SaleInv'
<1> DEFINE id == paid[b]
           entry == WaitingEntry(id)
           accrual == Accrual(entry, id)
<1>1. /\ phase[b] = "settling" /\ phase' = [phase EXCEPT ![b] = "charged"]
      /\ pendingSettles' = [pendingSettles EXCEPT ![id] = NoBuyer]
      /\ revenue' = [requests |-> revenue.requests + 1,
                     volume |-> revenue.volume + accrual.price,
                     fee |-> revenue.fee + accrual.fee]
      /\ trades' = (IF entry = NoBuyer THEN trades
                    ELSE Append(trades, [entry |-> entry, payer |-> b]))
      /\ income' = income + totalForPrice(book[id].price)
      /\ UNCHANGED <<expired, listing, signed, paid, handled, requestLog, outlay>>
  BY DEF SettleOk, Settled, Goto
<1>2. IF QuoteById(id) THEN ConsumeQuote(id) ELSE UNCHANGED mapVars
  BY DEF SettleOk
<1>3. id \in 1..Len(book) /\ id \in QuoteIds
  <2>1. id # NoQuote /\ id \in 0..Len(book) /\ Len(book) \in Nat
    <3>1. BuyerInv(b) /\ paid[b] \in 0..Len(book) /\ book \in Seq(Quote)
      BY DEF SaleInv, VarsTyped, BookInv, QuotesTypeOK
    <3>2. QED
      BY <1>1, <3>1 DEF BuyerInv
  <2> HIDE DEF id
  <2>2. id \in 1..Len(book)
    BY <2>1 DEF NoQuote
  <2>3. QED
    BY <2>2, BookTypes DEF SaleInv
<1>4. BookGrows /\ book' = book
  <2>1. CASE QuoteById(id)
    BY <2>1, <1>1, <1>2, <1>3, BookSteps DEF SaleInv, ConsumeQuote
  <2>2. CASE ~QuoteById(id)
    BY <2>2, <1>1, <1>2, BookSteps DEF SaleInv, mapVars
  <2>3. QED
    BY <2>1, <2>2
<1>5. pendingSettles[id] \in Buyers \cup {NoBuyer}
  BY <1>3 DEF SaleInv, VarsTyped
<1>6. entry # NoBuyer => entry \in Buyers /\ handled[entry] = id
  BY <1>3, <1>5 DEF SaleInv, PendingInv, WaitingEntry
<1>7. /\ accrual.price \in Nat /\ accrual.fee \in Nat
      /\ accrual.price + accrual.fee <= totalForPrice(book[id].price)
      /\ totalForPrice(book[id].price) \in Nat
  <2>1. /\ book[id].price \in Nat /\ feeForPrice(book[id].price) \in Nat
        /\ totalForPrice(book[id].price) = book[id].price + feeForPrice(book[id].price)
        /\ totalForPrice(book[id].price) \in Nat
    BY <1>3, BookTypes DEF SaleInv
  <2>2. accrual \in {Bill(id), NoBill}
    BY <1>6 DEF Accrual
  <2> HIDE DEF accrual, entry, id
  <2>3. QED
    BY <2>1, <2>2 DEF Bill, NoBill
<1> HIDE DEF accrual, entry
<1>8. /\ revenue.requests \in Nat /\ revenue.volume \in Nat /\ revenue.fee \in Nat
      /\ revenue.volume + revenue.fee <= income /\ income \in Nat
  BY DEF SaleInv, VarsTyped, RevenueBacked
<1>9. revenue' \in [requests : Nat, volume : Nat, fee : Nat] /\ income' \in Nat
      /\ RevenueBacked'
  <2> DEFINE n == revenue.requests + 1
             v == revenue.volume + accrual.price
             f == revenue.fee + accrual.fee
  <2>1. n \in Nat /\ v \in Nat /\ f \in Nat
    BY <1>7, <1>8
  <2>2. v + f <= income + totalForPrice(book[id].price)
    BY <1>7, <1>8
  <2>3. revenue' = [requests |-> n, volume |-> v, fee |-> f]
    BY <1>1
  <2> HIDE DEF n, v, f
  <2>4. revenue' \in [requests : Nat, volume : Nat, fee : Nat]
    BY <2>1, <2>3
  <2>5. revenue'.volume = v /\ revenue'.fee = f
    BY <2>3
  <2>6. income' = income + totalForPrice(book[id].price)
    BY <1>1
  <2>7. QED
    BY <1>7, <1>8, <2>2, <2>4, <2>5, <2>6 DEF RevenueBacked
<1>10. trades' \in Seq([entry : Buyers, payer : Buyers])
  <2>1. trades \in Seq([entry : Buyers, payer : Buyers])
    BY DEF SaleInv, VarsTyped
  <2>2. CASE entry = NoBuyer
    BY <1>1, <2>1, <2>2
  <2>3. CASE entry # NoBuyer
    <3> DEFINE t == [entry |-> entry, payer |-> b]
    <3>1. t \in [entry : Buyers, payer : Buyers]
      BY <1>6, <2>3
    <3>2. trades' = Append(trades, t)
      BY <1>1, <2>3
    <3> HIDE DEF t
    <3>3. QED
      BY <2>1, <3>1, <3>2
  <2>4. QED
    BY <2>2, <2>3
<1>11. VarsTyped'
  BY <1>1, <1>3, <1>4, <1>9, <1>10 DEF SaleInv, VarsTyped, Phases
<1>12. BuyerInv(b)'
  BY <1>1, <1>4 DEF SaleInv, VarsTyped, BuyerInv
<1>13. \A c \in Buyers : BuyerInv(c)'
  BY <1>1, <1>4, <1>12, OthersKeep DEF SaleInv, VarsTyped
<1>14. PendingInv'
  <2> SUFFICES ASSUME NEW i \in QuoteIds, pendingSettles'[i] # NoBuyer
               PROVE  /\ handled'[pendingSettles'[i]] = i
                      /\ phase'[pendingSettles'[i]] \in {"settling", "charged", "unpaid"}
    BY DEF PendingInv
  <2>1. i # id /\ pendingSettles'[i] = pendingSettles[i]
    BY <1>1, <1>3 DEF SaleInv, VarsTyped
  <2>2. /\ handled[pendingSettles[i]] = i
        /\ phase[pendingSettles[i]] \in {"settling", "charged", "unpaid"}
        /\ pendingSettles[i] \in Buyers
    BY <2>1 DEF SaleInv, VarsTyped, PendingInv
  <2>3. QED
    BY <1>1, <2>1, <2>2 DEF SaleInv, VarsTyped
<1>15. QED
  BY <1>4, <1>9, <1>11, <1>13, <1>14 DEF SaleInv, BookGrows

LEMMA EnvironmentInv ==
  ASSUME SaleInv, Environment
  PROVE  SaleInv'
<1>1. UNCHANGED mapVars /\ UNCHANGED saleVars /\ UNCHANGED accountVars
  BY DEF Environment, Expire, Relist
<1>2. expired' \in 0..Len(book) /\ listing' \in [Providers -> Listing]
  <2>1. CASE Expire
    BY <2>1 DEF Expire, SaleInv, BookInv, QuotesTypeOK
  <2>2. CASE \E p \in Providers : Relist(p)
    BY <2>2 DEF Relist, SaleInv, BookInv, QuotesTypeOK
  <2>3. QED
    BY <2>1, <2>2 DEF Environment
<1>3. BookInv'
  BY <1>1, <1>2 DEF SaleInv, BookInv, QuotesTypeOK, QuoteBookConsistent, mapVars
<1>4. VarsTyped'
  BY <1>1 DEF SaleInv, VarsTyped, mapVars, saleVars, accountVars
<1>5. (\A b \in Buyers : BuyerInv(b))' /\ PendingInv' /\ RevenueBacked'
  BY <1>1 DEF SaleInv, BuyerInv, PendingInv, RevenueBacked, mapVars, saleVars, accountVars
<1>6. QED
  BY <1>3, <1>4, <1>5 DEF SaleInv

LEMMA StutterInv ==
  ASSUME SaleInv, UNCHANGED vars
  PROVE  SaleInv'
BY DEF vars, quoteVars, saleVars, accountVars, SaleInv, BookInv, QuotesTypeOK,
       QuoteBookConsistent, VarsTyped, BuyerInv, PendingInv, RevenueBacked

LEMMA SaleInvStep == SaleInv /\ [Next]_vars => SaleInv'
<1> SUFFICES ASSUME SaleInv, [Next]_vars PROVE SaleInv'
  OBVIOUS
<1>1. ASSUME NEW b \in Buyers, Sale(b) PROVE SaleInv'
  BY <1>1, AskInv, PayInv, VerifyFailsInv, HandleInv, ProviderServesInv,
     ProviderFailsInv, SettleOkInv, SettleFailsInv DEF Sale
<1>2. QED
  BY <1>1, EnvironmentInv, StutterInv DEF Next

-----------------------------------------------------------------------------
(* The theorems.                                                           *)

LEMMA SaleInvAlways == Spec => []SaleInv
<1>1. QED
  BY SaleInvInit, SaleInvStep, PTL DEF Spec

\* Type correctness: the settlement hook never stores an entry that is not
\* there, and no quote that is named anywhere is missing from the book.
THEOREM TypeCorrect == Spec => []TypeOK
<1>1. SaleInv => TypeOK
  BY DEF SaleInv, BookInv, VarsTyped, TypeOK
<1>2. QED
  BY <1>1, SaleInvAlways, PTL

\* The two maps of quotes.ts agree on what is on offer, however many buyers
\* share a body and whatever expires or is consumed in between.
THEOREM QuoteMapsAgree == Spec => []QuoteBookConsistent
<1>1. SaleInv => QuoteBookConsistent
  BY DEF SaleInv, BookInv
<1>2. QED
  BY <1>1, SaleInvAlways, PTL

\* The revenue that the exchange reports was really received (index.ts:281-293).
THEOREM ReportedRevenueWasReceived == Spec => []RevenueBacked
<1>1. SaleInv => RevenueBacked
  BY DEF SaleInv
<1>2. QED
  BY <1>1, SaleInvAlways, PTL

-----------------------------------------------------------------------------
(* One buyer, one trade.                                                   *)

LEMMA SettlingFacts ==
  ASSUME SaleInv, NEW b \in Buyers, phase[b] = "settling"
  PROVE  paid[b] \in 1..Len(book) /\ paid[b] \in QuoteIds /\ paid[b] # NoQuote
<1>1. BuyerInv(b) /\ paid[b] \in 0..Len(book) /\ Len(book) \in Nat
  BY DEF SaleInv, VarsTyped, BookInv, QuotesTypeOK
<1>2. paid[b] # NoQuote
  BY <1>1 DEF BuyerInv
<1>3. paid[b] \in 1..Len(book)
  BY <1>1, <1>2 DEF NoQuote
<1>4. QED
  BY <1>2, <1>3, BookTypes DEF SaleInv

\* A provider's answer is on its way to being paid for.
Served == {"settling", "charged", "unpaid"}

\* What a step of buyer b leaves alone, and what it never undoes.
LEMMA SaleFrame ==
  ASSUME SaleInv, NEW b \in Buyers, Sale(b)
  PROVE  /\ expired' = expired
         /\ \A c \in Buyers : c # b => /\ phase'[c] = phase[c] /\ paid'[c] = paid[c]
                                      /\ handled'[c] = handled[c]
         /\ paid[b] # NoQuote => paid'[b] = paid[b]
         /\ handled[b] # NoQuote => handled'[b] = handled[b]
         /\ phase[b] \in Served => phase'[b] \in Served /\ phase[b] # "charged"
<1>1. /\ phase \in [Buyers -> Phases] /\ paid \in [Buyers -> 0..Len(book)]
      /\ handled \in [Buyers -> 0..Len(book)] /\ BuyerInv(b)
  BY DEF SaleInv, VarsTyped
<1>2. expired' = expired
  BY DEF Sale, Ask, Pay, VerifyFails, Handle, ProviderServes, ProviderFails,
         SettleOk, Settled, SettleFails, quoteVars
<1>3. \A c \in Buyers : c # b => /\ phase'[c] = phase[c] /\ paid'[c] = paid[c]
                                 /\ handled'[c] = handled[c]
  BY <1>1 DEF Sale, Ask, Pay, Offer, Goto, VerifyFails, Handle, ProviderServes,
              ProviderFails, SettleOk, Settled, SettleFails
<1>4. paid[b] # NoQuote => paid'[b] = paid[b]
  BY <1>1 DEF Sale, Ask, Pay, VerifyFails, Handle, ProviderServes,
              ProviderFails, SettleOk, Settled, SettleFails, BuyerInv
<1>5. handled[b] # NoQuote => handled'[b] = handled[b]
  BY <1>1 DEF Sale, Ask, Pay, VerifyFails, Handle, ProviderServes,
              ProviderFails, SettleOk, Settled, SettleFails, BuyerInv
<1>6. phase[b] \in Served => phase'[b] \in Served /\ phase[b] # "charged"
  BY <1>1 DEF Sale, Ask, Pay, VerifyFails, Handle, ProviderServes, Goto,
              ProviderFails, SettleOk, Settled, SettleFails, Served
<1>7. QED
  BY <1>2, <1>3, <1>4, <1>5, <1>6

\* What is true of a published trade for good: its entry has left the waiting
\* room, and nothing puts it back.
PublishedInv(t) ==
  /\ handled[t.entry] = paid[t.payer] /\ paid[t.payer] \in QuoteIds
  /\ BodyOf[t.entry] = BodyOf[t.payer]
  /\ phase[t.entry] \in Served /\ phase[t.payer] = "charged"
  /\ pendingSettles[handled[t.entry]] # t.entry

Trade == [entry : Buyers, payer : Buyers]

Published(t) == \E i \in DOMAIN trades : trades[i] = t

TradesInv == /\ \A t \in Trade : Published(t) => PublishedInv(t)
             /\ EntriesPublishedOnce

LEMMA PublishedKeeps ==
  ASSUME SaleInv, NEW b \in Buyers, Sale(b), NEW t \in Trade, PublishedInv(t)
  PROVE  PublishedInv(t)'
<1>1. /\ t.entry \in Buyers /\ t.payer \in Buyers /\ NoBuyer \notin Buyers
      /\ pendingSettles \in [QuoteIds -> Buyers \cup {NoBuyer}]
  BY SettlementAssumption DEF Trade, SaleInv, VarsTyped
<1>2. /\ handled[t.entry] # NoQuote /\ paid[t.payer] # NoQuote
      /\ handled[t.entry] \in QuoteIds
  BY QuoteBookAssumption DEF PublishedInv, QuoteIds, NoQuote
<1>3. /\ handled'[t.entry] = handled[t.entry] /\ paid'[t.payer] = paid[t.payer]
      /\ phase'[t.entry] \in Served /\ phase'[t.payer] = "charged"
  BY <1>1, <1>2, SaleFrame DEF PublishedInv, Served
<1>4. pendingSettles'[handled[t.entry]] # t.entry
  <2>1. CASE ProviderServes(b)
    <3>1. /\ pendingSettles' = [pendingSettles EXCEPT ![handled[b]] = b]
          /\ phase[b] = "serving"
      BY <2>1 DEF ProviderServes
    <3>2. t.entry # b
      BY <3>1 DEF PublishedInv, Served
    <3>3. QED
      BY <1>1, <1>2, <3>1, <3>2 DEF PublishedInv
  <2>2. CASE SettleOk(b)
    <3>1. pendingSettles' = [pendingSettles EXCEPT ![paid[b]] = NoBuyer]
      BY <2>2 DEF SettleOk, Settled
    <3>2. QED
      BY <1>1, <1>2, <3>1 DEF PublishedInv
  <2>3. CASE ~ProviderServes(b) /\ ~SettleOk(b)
    <3>1. UNCHANGED pendingSettles
      BY <2>3 DEF Sale, Ask, Pay, VerifyFails, Handle, ProviderFails, SettleFails,
                  accountVars
    <3>2. QED
      BY <3>1 DEF PublishedInv
  <2>4. QED
    BY <2>1, <2>2, <2>3
<1>5. QED
  BY <1>3, <1>4 DEF PublishedInv

\* The hook publishes an entry that it takes out of the waiting room.
LEMMA SettlePublishes ==
  ASSUME SaleInv, TradesInv, NEW b \in Buyers, SettleOk(b)
  PROVE  TradesInv'
<1>1. PICK e : e = WaitingEntry(paid[b])
  OBVIOUS
<1> DEFINE t == [entry |-> e, payer |-> b]
           n == Len(trades)
<1>2. /\ phase[b] = "settling" /\ phase' = [phase EXCEPT ![b] = "charged"]
      /\ trades' = IF e = NoBuyer THEN trades ELSE Append(trades, t)
      /\ pendingSettles' = [pendingSettles EXCEPT ![paid[b]] = NoBuyer]
      /\ UNCHANGED <<paid, handled>>
  BY <1>1 DEF SettleOk, Settled, Goto
<1>3. /\ paid[b] \in QuoteIds /\ paid[b] # NoQuote /\ NoBuyer \notin Buyers
      /\ trades \in Seq(Trade) /\ n \in Nat
      /\ pendingSettles \in [QuoteIds -> Buyers \cup {NoBuyer}]
      /\ phase \in [Buyers -> Phases]
  BY <1>2, SettlingFacts, SettlementAssumption DEF SaleInv, VarsTyped, Trade
<1>4. ASSUME NEW u \in Trade, Published(u) PROVE PublishedInv(u)'
  BY <1>4, PublishedKeeps DEF TradesInv, Sale
<1>5. CASE e = NoBuyer
  BY <1>2, <1>4, <1>5 DEF TradesInv, EntriesPublishedOnce, Published
<1>6. CASE e # NoBuyer
  <2>1. e = pendingSettles[paid[b]] /\ e \in Buyers
    BY <1>1, <1>3, <1>6 DEF WaitingEntry
  <2>2. handled[e] = paid[b] /\ phase[e] \in Served
    BY <1>3, <2>1 DEF SaleInv, PendingInv, Served
  <2>3. BodyOf[e] = BodyOf[b]
    BY <1>2, <1>3, <2>1, <2>2 DEF SaleInv, BuyerInv
  <2>4. t \in Trade /\ t.entry = e /\ t.payer = b
    BY <2>1 DEF Trade
  <2> HIDE DEF t
  <2>5. PublishedInv(t)'
    <3>1. phase'[e] \in Served /\ phase'[b] = "charged"
      BY <1>2, <1>3, <2>1, <2>2 DEF Served
    <3>2. pendingSettles'[handled'[e]] # e
      BY <1>2, <1>3, <2>1, <2>2
    <3>3. QED
      BY <1>2, <1>3, <2>2, <2>3, <2>4, <3>1, <3>2 DEF PublishedInv
  <2>6. /\ DOMAIN trades = 1..n /\ DOMAIN trades' = 1..(n + 1)
        /\ \A i \in 1..n : trades'[i] = trades[i]
        /\ trades'[n + 1] = t
    BY <1>2, <1>3, <1>6, <2>4
  <2> HIDE DEF n
  <2>7. \A i \in DOMAIN trades' : i \in DOMAIN trades \/ i = n + 1
    BY <1>3, <2>6
  <2>8. ASSUME NEW u \in Trade, Published(u)' PROVE PublishedInv(u)'
    <3>1. Published(u) \/ u = t
      BY <2>6, <2>7, <2>8 DEF Published
    <3>2. QED
      BY <1>4, <2>5, <3>1
  <2>9. \A i \in DOMAIN trades : trades[i].entry # e
    <3>1. \A i \in DOMAIN trades : trades[i] \in Trade /\ Published(trades[i])
      BY <1>3 DEF Published
    <3>2. QED
      BY <2>1, <2>2, <3>1 DEF TradesInv, PublishedInv
  <2>10. EntriesPublishedOnce'
    <3> SUFFICES ASSUME NEW i \in DOMAIN trades', NEW j \in DOMAIN trades',
                        trades'[i].entry = trades'[j].entry
                 PROVE  i = j
      BY DEF EntriesPublishedOnce
    <3>1. \A k \in DOMAIN trades : trades'[k].entry = trades[k].entry
                                   /\ trades'[k].entry # trades'[n + 1].entry
      BY <2>4, <2>6, <2>9
    <3>2. QED
      BY <2>7, <3>1 DEF TradesInv, EntriesPublishedOnce
  <2>11. QED
    BY <2>8, <2>10 DEF TradesInv
<1>7. QED
  BY <1>5, <1>6

LEMMA TradesStep ==
  ASSUME SaleInv, TradesInv, [Next]_vars
  PROVE  TradesInv'
<1>1. ASSUME NEW b \in Buyers, Sale(b), ~SettleOk(b) PROVE TradesInv'
  <2>1. UNCHANGED trades
    BY <1>1 DEF Sale, Ask, Pay, VerifyFails, Handle, ProviderServes, ProviderFails,
                SettleFails, accountVars
  <2>2. ASSUME NEW t \in Trade, Published(t) PROVE PublishedInv(t)'
    BY <1>1, <2>2, PublishedKeeps DEF TradesInv
  <2>3. QED
    BY <2>1, <2>2 DEF TradesInv, EntriesPublishedOnce, Published
<1>2. ASSUME Environment \/ UNCHANGED vars PROVE TradesInv'
  BY <1>2 DEF Environment, vars, saleVars, accountVars, TradesInv, PublishedInv,
              EntriesPublishedOnce, Published
<1>3. QED
  BY <1>1, <1>2, SettlePublishes DEF Next

LEMMA TradesInvAlways == Spec => []TradesInv
<1>1. Init => TradesInv
  BY DEF Init, TradesInv, EntriesPublishedOnce, Published
<1>2. SaleInv /\ TradesInv /\ [Next]_vars => TradesInv'
  BY TradesStep
<1>3. QED
  BY <1>1, <1>2, SaleInvAlways, PTL DEF Spec

\* A published trade never mixes one buyer's payment with an inference that was
\* billed at another quote or asked for another body (index.ts:279-307).
THEOREM TradesAreTheirBuyers == Spec => []TradesNameTheirPayer
<1>1. SaleInv /\ TradesInv => TradesNameTheirPayer
  <2> SUFFICES ASSUME SaleInv, TradesInv, NEW i \in DOMAIN trades
               PROVE  /\ handled[trades[i].entry] = paid[trades[i].payer]
                      /\ BodyOf[trades[i].entry] = BodyOf[trades[i].payer]
    BY DEF TradesNameTheirPayer
  <2> DEFINE t == trades[i]
  <2>1. t \in Trade
    <3>1. trades \in Seq(Trade)
      BY DEF SaleInv, VarsTyped, Trade
    <3>2. QED
      BY <3>1
  <2>2. Published(t)
    BY DEF Published
  <2>3. PublishedInv(t)
    BY <2>1, <2>2 DEF TradesInv
  <2>4. QED
    BY <2>3 DEF PublishedInv
<1>2. QED
  BY <1>1, SaleInvAlways, TradesInvAlways, PTL

\* One provider call is one trade at most, however many buyers share the quote
\* under which its entry waits (index.ts:279-281).
THEOREM CallsArePublishedOnce == Spec => []EntriesPublishedOnce
<1>1. TradesInv => EntriesPublishedOnce
  BY DEF TradesInv
<1>2. QED
  BY <1>1, TradesInvAlways, PTL

-----------------------------------------------------------------------------
(* The books are exact while nothing expires or is shared.                 *)

\* A buyer's quote stays pinned: what it paid is what the handler bills, and
\* its own entry is the one that waits for its settlement.
PinnedInv(b) ==
  /\ phase[b] \in {"verifying", "serving", "settling"} => quotes[BodyOf[b]] = paid[b]
  /\ phase[b] \in {"serving", "settling"} => handled[b] = paid[b]
  /\ phase[b] = "settling" => pendingSettles[paid[b]] = b

ExactInv == /\ BooksAreExact
            /\ expired = 0 /\ NoQuoteShared => \A b \in Buyers : PinnedInv(b)

\* A quote that was shared stays shared.
LEMMA SharingStays ==
  ASSUME SaleInv, [Next]_vars, NoQuoteShared'
  PROVE  NoQuoteShared
<1>1. \A c \in Buyers : /\ handled[c] # NoQuote => handled'[c] = handled[c]
                        /\ paid[c] # NoQuote => paid'[c] = paid[c]
  <2>1. ASSUME NEW b \in Buyers, Sale(b), NEW c \in Buyers
        PROVE  /\ handled[c] # NoQuote => handled'[c] = handled[c]
               /\ paid[c] # NoQuote => paid'[c] = paid[c]
    BY <2>1, SaleFrame
  <2>2. Environment \/ UNCHANGED vars => UNCHANGED <<handled, paid>>
    BY DEF Environment, vars, saleVars
  <2>3. QED
    BY <2>1, <2>2 DEF Next
<1>2. QED
  BY <1>1 DEF NoQuoteShared

\* The log only loses entries, apart from the one that is pushed.
LEMMA PushAddsOne ==
  ASSUME SaleInv, NEW b \in Buyers, PushRequest(b), NEW c, InLog(c)'
  PROVE  InLog(c) \/ c = b
<1>1. requestLog \in Seq(Buyers) /\ Len(requestLog) \in Nat /\ LogLimit \in Nat \ {0}
  BY SettlementAssumption DEF SaleInv, VarsTyped
<1>2. PICK i \in DOMAIN requestLog' : requestLog'[i] = c
  BY DEF InLog
<1>3. CASE requestLog' = Append(requestLog, b)
  <2>1. i \in 1..(Len(requestLog) + 1)
    BY <1>1, <1>2, <1>3
  <2>2. i = Len(requestLog) + 1 \/ i \in 1..Len(requestLog)
    BY <1>1, <2>1
  <2>3. QED
    BY <1>1, <1>2, <1>3, <2>2 DEF InLog
<1>4. CASE requestLog' = Append(Tail(requestLog), b) /\ Len(requestLog) # 0
  <2> DEFINE s == Tail(requestLog)
             n == Len(requestLog)
  <2>1. /\ s \in Seq(Buyers) /\ Len(s) = n - 1
        /\ \A k \in 1..(n - 1) : s[k] = requestLog[k + 1]
    BY <1>1, <1>4
  <2> HIDE DEF s
  <2>2. requestLog' = Append(s, b)
    BY <1>4 DEF s
  <2>3. /\ i \in 1..n
        /\ i # n => requestLog'[i] = s[i]
        /\ requestLog'[n] = b
    BY <1>1, <1>2, <2>1, <2>2
  <2>4. CASE i # n
    <3>1. c = requestLog[i + 1] /\ i + 1 \in 1..n
      BY <1>1, <1>2, <2>1, <2>3, <2>4
    <3>2. QED
      BY <1>1, <3>1 DEF InLog
  <2>5. QED
    BY <1>2, <2>3, <2>4
<1>5. QED
  BY <1>1, <1>3, <1>4 DEF PushRequest

\* An entry that was cut from the log stays away.
LEMMA CutsStay ==
  ASSUME SaleInv, NEW b \in Buyers, Sale(b), NothingCut'
  PROVE  NothingCut
<1> SUFFICES ASSUME NEW c \in Buyers, phase[c] \in Served PROVE InLog(c)
  BY DEF NothingCut, Served
<1>1. phase'[c] \in Served
  BY SaleFrame
<1>2. InLog(c)'
  BY <1>1 DEF NothingCut, Served
<1>3. CASE ProviderServes(b) \/ ProviderFails(b)
  <2>1. PushRequest(b) /\ c # b
    BY <1>3 DEF ProviderServes, ProviderFails, Served
  <2>2. QED
    BY <1>2, <2>1, PushAddsOne
<1>4. CASE ~ProviderServes(b) /\ ~ProviderFails(b)
  <2>1. UNCHANGED requestLog
    BY <1>4 DEF Sale, Ask, Pay, VerifyFails, Handle, SettleOk, Settled, SettleFails,
                accountVars
  <2>2. QED
    BY <1>2, <2>1 DEF InLog
<1>5. QED
  BY <1>3, <1>4

\* While nothing expires, the quote of a body is looked up and never replaced.
LEMMA QuoteForReturns ==
  ASSUME BookInv, expired = 0, NEW k \in Bodies, NEW id, QuoteFor(k, id)
  PROVE  /\ quotes'[k] = id
         /\ quotes[k] # NoQuote => id = quotes[k]
         /\ \A j \in Bodies : quotes[j] # NoQuote => quotes'[j] = quotes[j]
<1>1. quotes \in [Bodies -> 0..Len(book)] /\ Len(book) \in Nat
  BY DEF BookInv, QuotesTypeOK
<1>2. quotes[k] # NoQuote => Fresh(quotes[k])
  BY <1>1 DEF Fresh, NoQuote
<1>3. QED
  BY <1>1, <1>2 DEF QuoteFor, mapVars

\* What a step of buyer b may do to the quote and the entry of another one.
LEMMA OthersPinned ==
  ASSUME SaleInv, NEW b \in Buyers, Sale(b), NEW c \in Buyers, c # b, PinnedInv(c),
         phase[c] \in {"verifying", "serving", "settling"}
           => quotes'[BodyOf[c]] = quotes[BodyOf[c]],
         phase[c] = "settling" => pendingSettles'[paid[c]] = pendingSettles[paid[c]]
  PROVE  PinnedInv(c)'
<1>1. phase'[c] = phase[c] /\ paid'[c] = paid[c] /\ handled'[c] = handled[c]
  BY SaleFrame
<1>2. QED
  BY <1>1 DEF PinnedInv

\* A buyer that is served on a quote that nobody else shares is alone with its
\* body, and with its place in the waiting room.
LEMMA AloneWithItsQuote ==
  ASSUME SaleInv, NoQuoteShared, NEW b \in Buyers, NEW c \in Buyers, c # b,
         PinnedInv(b), PinnedInv(c), phase[b] \in {"serving", "settling"},
         phase[c] \in {"verifying", "serving", "settling"}
  PROVE  BodyOf[c] # BodyOf[b] /\ paid[c] # paid[b]
<1>1. handled[b] # NoQuote /\ handled[b] = paid[b] /\ quotes[BodyOf[b]] = paid[b]
  BY DEF SaleInv, BuyerInv, PinnedInv
<1>2. quotes[BodyOf[c]] = paid[c] /\ handled[b] # paid[c]
  BY <1>1 DEF PinnedInv, NoQuoteShared
<1>3. QED
  BY <1>1, <1>2

LEMMA PinnedStep ==
  ASSUME SaleInv, expired = 0, NoQuoteShared, \A c \in Buyers : PinnedInv(c),
         NEW b \in Buyers, Sale(b)
  PROVE  \A c \in Buyers : PinnedInv(c)'
<1>1. /\ phase \in [Buyers -> Phases] /\ paid \in [Buyers -> 0..Len(book)]
      /\ handled \in [Buyers -> 0..Len(book)]
      /\ pendingSettles \in [QuoteIds -> Buyers \cup {NoBuyer}]
      /\ quotes \in [Bodies -> 0..Len(book)]
      /\ BuyerInv(b) /\ PinnedInv(b) /\ BookInv
      /\ \A c \in Buyers : BodyOf[c] \in Bodies
  BY SettlementAssumption DEF SaleInv, VarsTyped, BookInv, QuotesTypeOK
<1>2. ASSUME NEW c \in Buyers, phase[c] \in {"verifying", "serving", "settling"}
      PROVE  quotes[BodyOf[c]] # NoQuote
  BY <1>2 DEF SaleInv, BuyerInv, PinnedInv
<1>3. ASSUME NEW id, QuoteFor(BodyOf[b], id), UNCHANGED pendingSettles, PinnedInv(b)'
      PROVE  \A c \in Buyers : PinnedInv(c)'
  <2>1. \A j \in Bodies : quotes[j] # NoQuote => quotes'[j] = quotes[j]
    BY <1>1, <1>3, QuoteForReturns
  <2>2. QED
    BY <1>1, <1>2, <1>3, <2>1, OthersPinned
<1>4. ASSUME phase[b] \in {"serving", "settling"},
             \A k \in Bodies : k # BodyOf[b] => quotes'[k] = quotes[k],
             \A i \in QuoteIds : i # paid[b] => pendingSettles'[i] = pendingSettles[i],
             PinnedInv(b)'
      PROVE  \A c \in Buyers : PinnedInv(c)'
  <2>1. ASSUME NEW c \in Buyers, c # b PROVE PinnedInv(c)'
    <3>1. phase[c] \in {"verifying", "serving", "settling"}
            => BodyOf[c] # BodyOf[b] /\ paid[c] # paid[b]
      BY <1>1, <1>4, <2>1, AloneWithItsQuote
    <3>2. phase[c] = "settling" => paid[c] \in QuoteIds
      BY SettlingFacts
    <3>3. QED
      BY <1>1, <1>4, <2>1, <3>1, <3>2, OthersPinned
  <2>2. QED
    BY <1>4, <2>1
<1>5. CASE Ask(b)
  <2>1. PICK id \in 0..MaxQuotes : QuoteFor(BodyOf[b], id) /\ Offer(b, id)
    BY <1>5 DEF Ask
  <2>2. phase'[b] \in {"quoted", "unquoted"}
    BY <1>1, <2>1 DEF Offer, Goto
  <2>3. PinnedInv(b)'
    BY <2>2 DEF PinnedInv
  <2>4. UNCHANGED pendingSettles
    BY <1>5 DEF Ask, accountVars
  <2>5. QED
    BY <1>3, <2>1, <2>3, <2>4
<1>6. CASE Pay(b)
  <2>1. PICK id \in 0..MaxQuotes :
          /\ QuoteFor(BodyOf[b], id)
          /\ \/ paid' = [paid EXCEPT ![b] = id] /\ Goto(b, "verifying")
             \/ Offer(b, id)
    BY <1>6 DEF Pay
  <2>2. quotes'[BodyOf[b]] = id
    BY <1>1, <2>1, QuoteForReturns
  <2>3. \/ phase'[b] = "verifying" /\ paid'[b] = id
        \/ phase'[b] \in {"quoted", "unquoted"}
    BY <1>1, <2>1 DEF Offer, Goto
  <2>4. PinnedInv(b)'
    BY <2>2, <2>3 DEF PinnedInv
  <2>5. UNCHANGED pendingSettles
    BY <1>6 DEF Pay, accountVars
  <2>6. QED
    BY <1>3, <2>1, <2>4, <2>5
<1>7. CASE VerifyFails(b) \/ SettleFails(b)
  <2>1. UNCHANGED pendingSettles /\ UNCHANGED quotes /\ phase'[b] \in {"rejected", "unpaid"}
    BY <1>1, <1>7 DEF VerifyFails, SettleFails, Goto, quoteVars, accountVars
  <2>2. PinnedInv(b)'
    BY <2>1 DEF PinnedInv
  <2>3. QED
    BY <2>1, <2>2, OthersPinned
<1>8. CASE Handle(b)
  <2>1. PICK id \in 0..MaxQuotes :
          /\ QuoteFor(BodyOf[b], id)
          /\ handled' = [handled EXCEPT ![b] = id]
          /\ Goto(b, IF id = NoQuote THEN "cancelled" ELSE "serving")
    BY <1>8 DEF Handle
  <2>2. phase[b] = "verifying" /\ UNCHANGED paid /\ UNCHANGED pendingSettles
    BY <1>8 DEF Handle, accountVars
  <2>3. paid[b] # NoQuote /\ quotes[BodyOf[b]] = paid[b]
    BY <1>1, <2>2 DEF BuyerInv, PinnedInv
  <2>4. id = paid[b] /\ quotes'[BodyOf[b]] = id
    BY <1>1, <2>1, <2>3, QuoteForReturns
  <2>5. PinnedInv(b)'
    BY <1>1, <2>1, <2>2, <2>3, <2>4 DEF PinnedInv, Goto
  <2>6. QED
    BY <1>3, <2>1, <2>2, <2>5
<1>9. CASE ProviderServes(b)
  <2>1. /\ phase[b] = "serving" /\ phase'[b] = "settling"
        /\ pendingSettles' = [pendingSettles EXCEPT ![handled[b]] = b]
        /\ UNCHANGED <<quotes, paid, handled>>
    BY <1>1, <1>9 DEF ProviderServes, Goto, quoteVars
  <2>2. handled[b] = paid[b] /\ handled[b] \in QuoteIds
    BY <1>1, <2>1, ServingFacts DEF PinnedInv
  <2>3. PinnedInv(b)'
    BY <1>1, <2>1, <2>2 DEF PinnedInv
  <2>4. QED
    BY <1>1, <1>4, <2>1, <2>2, <2>3
<1>10. CASE ProviderFails(b)
  <2>1. /\ phase[b] = "serving" /\ phase'[b] = "cancelled"
        /\ UNCHANGED pendingSettles
        /\ quotes' = [quotes EXCEPT ![book[handled[b]].body] = NoQuote]
    BY <1>1, <1>10 DEF ProviderFails, ConsumeQuote, Goto
  <2>2. book[handled[b]].body = BodyOf[b]
    BY <1>1, <2>1 DEF BuyerInv
  <2>3. PinnedInv(b)'
    BY <2>1 DEF PinnedInv
  <2>4. \A k \in Bodies : k # BodyOf[b] => quotes'[k] = quotes[k]
    BY <1>1, <2>1, <2>2
  <2>5. QED
    BY <1>4, <2>1, <2>3, <2>4
<1>11. CASE SettleOk(b)
  <2>1. /\ phase[b] = "settling" /\ phase'[b] = "charged"
        /\ pendingSettles' = [pendingSettles EXCEPT ![paid[b]] = NoBuyer]
        /\ \/ quotes' = [quotes EXCEPT ![book[paid[b]].body] = NoQuote]
           \/ quotes' = quotes
    BY <1>1, <1>11 DEF SettleOk, Settled, ConsumeQuote, Goto, mapVars
  <2>2. paid[b] \in QuoteIds /\ book[paid[b]].body = BodyOf[b]
    BY <1>1, <2>1, SettlingFacts DEF BuyerInv
  <2>3. PinnedInv(b)'
    BY <2>1 DEF PinnedInv
  <2>4. \A k \in Bodies : k # BodyOf[b] => quotes'[k] = quotes[k]
    BY <1>1, <2>1, <2>2
  <2>5. QED
    BY <1>1, <1>4, <2>1, <2>2, <2>3, <2>4
<1>12. QED
  BY <1>5, <1>6, <1>7, <1>8, <1>9, <1>10, <1>11 DEF Sale

\* The hook accrues what the buyer paid: from its own entry or, when that was
\* cut from the log, from the quote, which is still pinned.
LEMMA SettleIsExact ==
  ASSUME SaleInv, BooksAreExact, expired = 0, NoQuoteShared, NEW b \in Buyers,
         PinnedInv(b), SettleOk(b)
  PROVE  /\ revenue'.volume + revenue'.fee = income'
         /\ NothingCut' => Len(trades') = revenue'.requests
<1> DEFINE entry == WaitingEntry(paid[b])
           t == [entry |-> entry, payer |-> b]
           price == book[paid[b]].price
<1>1. /\ phase[b] = "settling"
      /\ Settled(b, entry, Accrual(entry, paid[b]))
  BY DEF SettleOk
<1>2. /\ handled[b] = paid[b] /\ pendingSettles[paid[b]] = b
      /\ quotes[BodyOf[b]] = paid[b] /\ NoBuyer \notin Buyers
  BY <1>1, SettlementAssumption DEF PinnedInv
<1>3. paid[b] \in 1..Len(book) /\ paid[b] # NoQuote /\ BodyOf[b] \in Bodies
  BY <1>1, SettlingFacts, SettlementAssumption
<1>4. entry = (IF InLog(b) THEN b ELSE NoBuyer)
  BY <1>2 DEF WaitingEntry
<1>5. QuoteById(paid[b])
  BY <1>2, <1>3 DEF SaleInv, BookInv, QuoteBookConsistent, QuoteById, Fresh
<1>6. Accrual(entry, paid[b]) = Bill(paid[b])
  BY <1>2, <1>4, <1>5 DEF Accrual
<1>7. /\ price \in Nat /\ feeForPrice(price) \in Nat
      /\ totalForPrice(price) = price + feeForPrice(price)
  BY <1>3, BookTypes DEF SaleInv
<1>8. /\ revenue'.requests = revenue.requests + 1
      /\ revenue'.volume = revenue.volume + price
      /\ revenue'.fee = revenue.fee + feeForPrice(price)
      /\ trades' = (IF entry = NoBuyer THEN trades ELSE Append(trades, t))
      /\ income' = income + totalForPrice(price)
  BY <1>1, <1>6 DEF Settled, Bill
<1>9. /\ revenue.requests \in Nat /\ revenue.volume \in Nat /\ revenue.fee \in Nat
      /\ income \in Nat /\ trades \in Seq(Trade)
  BY DEF SaleInv, VarsTyped, Trade
<1>10. revenue.volume + revenue.fee = income
       /\ (NothingCut => Len(trades) = revenue.requests)
  BY DEF BooksAreExact
<1> HIDE DEF price
<1>11. revenue'.volume + revenue'.fee = income'
  BY <1>7, <1>8, <1>9, <1>10
<1>12. ASSUME NothingCut' PROVE Len(trades') = revenue'.requests
  <2>1. NothingCut
    BY <1>12, CutsStay DEF Sale
  <2>2. InLog(b)
    BY <1>1, <2>1 DEF NothingCut
  <2>3. entry = b /\ entry # NoBuyer
    BY <1>2, <1>4, <2>2
  <2>4. t \in Trade
    BY <2>3 DEF Trade
  <2> HIDE DEF t, entry
  <2>5. trades' = Append(trades, t)
    BY <1>8, <2>3
  <2>6. Len(trades') = Len(trades) + 1
    BY <1>9, <2>4, <2>5
  <2>7. QED
    BY <1>8, <1>10, <2>1, <2>6
<1>13. QED
  BY <1>11, <1>12

LEMMA ExactStep ==
  ASSUME SaleInv, ExactInv, [Next]_vars
  PROVE  ExactInv'
<1>1. expired \in Nat /\ Len(book) \in Nat
  BY DEF SaleInv, BookInv, QuotesTypeOK
<1>2. SUFFICES ASSUME expired' = 0, NoQuoteShared'
               PROVE  /\ revenue'.volume + revenue'.fee = income'
                      /\ NothingCut' => Len(trades') = revenue'.requests
                      /\ \A c \in Buyers : PinnedInv(c)'
  BY DEF ExactInv, BooksAreExact
<1>3. NoQuoteShared
  BY <1>2, SharingStays
<1>4. ASSUME NEW b \in Buyers, Sale(b)
      PROVE  /\ revenue'.volume + revenue'.fee = income'
             /\ NothingCut' => Len(trades') = revenue'.requests
             /\ \A c \in Buyers : PinnedInv(c)'
  <2>1. expired = 0
    BY <1>2, <1>4, SaleFrame
  <2>2. BooksAreExact /\ \A c \in Buyers : PinnedInv(c)
    BY <1>3, <2>1 DEF ExactInv
  <2>3. \A c \in Buyers : PinnedInv(c)'
    BY <1>3, <1>4, <2>1, <2>2, PinnedStep
  <2>4. CASE SettleOk(b)
    BY <1>3, <2>1, <2>2, <2>3, <2>4, SettleIsExact
  <2>5. CASE ~SettleOk(b)
    <3>1. UNCHANGED <<revenue, trades, income>>
      BY <1>4, <2>5 DEF Sale, Ask, Pay, VerifyFails, Handle, ProviderServes,
                        ProviderFails, SettleFails, accountVars
    <3>2. NothingCut' => NothingCut
      BY <1>4, CutsStay
    <3>3. QED
      BY <1>3, <2>1, <2>2, <2>3, <3>1, <3>2 DEF BooksAreExact
  <2>6. QED
    BY <2>4, <2>5
<1>5. ASSUME Environment \/ UNCHANGED vars
      PROVE  /\ revenue'.volume + revenue'.fee = income'
             /\ NothingCut' => Len(trades') = revenue'.requests
             /\ \A c \in Buyers : PinnedInv(c)'
  <2>1. /\ UNCHANGED <<quotes, phase, paid, handled, pendingSettles, revenue, trades, income,
                       requestLog>>
        /\ expired' # 0 \/ expired' = expired
    BY <1>1, <1>5 DEF Environment, Expire, Relist, mapVars, vars, quoteVars, saleVars,
                      accountVars
  <2>2. BooksAreExact /\ expired = 0 /\ \A c \in Buyers : PinnedInv(c)
    BY <1>2, <1>3, <2>1 DEF ExactInv
  <2>3. NothingCut' => NothingCut
    BY <2>1 DEF NothingCut, InLog
  <2>4. \A c \in Buyers : PinnedInv(c)'
    BY <2>1, <2>2 DEF PinnedInv
  <2>5. QED
    BY <1>3, <2>1, <2>2, <2>3, <2>4 DEF BooksAreExact
<1>6. QED
  BY <1>4, <1>5 DEF Next

\* While no quote has expired or been shared, every settled payment is accrued
\* in full, its entry still in the log or not, and published as one trade unless
\* an entry was cut (index.ts:279-324): expiry, sharing and eviction are the
\* only ways in which the books, the trades and the money come apart.
THEOREM BooksFollowTheMoney == Spec => []BooksAreExact
<1>1. Init => ExactInv
  BY DEF Init, QuotesInit, ExactInv, BooksAreExact, PinnedInv
<1>2. SaleInv /\ ExactInv /\ [Next]_vars => ExactInv'
  BY ExactStep
<1>3. ExactInv => BooksAreExact
  BY DEF ExactInv
<1>4. QED
  BY <1>1, <1>2, <1>3, SaleInvAlways, PTL DEF Spec

-----------------------------------------------------------------------------
(* The payments of the exchange implement PaidInference.                   *)

MappedStage == [c \in Buyers |-> Stage[phase[c]]]
MappedBid   == [c \in Buyers |-> Bid(c)]

LEMMA Stages ==
  /\ Stage["new"] = "open" /\ Stage["quoted"] = "open" /\ Stage["unquoted"] = "open"
  /\ Stage["verifying"] = "held" /\ Stage["serving"] = "held"
  /\ Stage["settling"] = "served" /\ Stage["charged"] = "charged"
  /\ Stage["unpaid"] = "absorbed"
  /\ Stage["rejected"] = "released" /\ Stage["cancelled"] = "released"
BY DEF Stage, Phases

LEMMA BookOnlyGrows ==
  ASSUME SaleInv, Next
  PROVE  BookGrows
<1>1. ASSUME NEW b \in Buyers, NEW id, QuoteFor(BodyOf[b], id), UNCHANGED <<expired, listing>>
      PROVE  BookGrows
  BY <1>1, BookSteps, SettlementAssumption DEF SaleInv
<1>2. ASSUME NEW b \in Buyers, Ask(b) \/ Pay(b) \/ Handle(b) PROVE BookGrows
  BY <1>1, <1>2 DEF Ask, Pay, Handle
<1>3. ASSUME NEW b \in Buyers, VerifyFails(b) \/ ProviderServes(b) \/ SettleFails(b)
      PROVE  BookGrows
  BY <1>3, BookSteps DEF SaleInv, VerifyFails, ProviderServes, SettleFails
<1>4. ASSUME NEW b \in Buyers, ProviderFails(b) PROVE BookGrows
  BY <1>4, ServingFacts, BookSteps DEF SaleInv, ProviderFails
<1>5. ASSUME NEW b \in Buyers, SettleOk(b) PROVE BookGrows
  <2>1. /\ UNCHANGED <<expired, listing>>
        /\ ConsumeQuote(paid[b]) \/ UNCHANGED mapVars
        /\ paid[b] \in 1..Len(book)
    BY <1>5, SettlingFacts DEF SettleOk, Settled
  <2>2. QED
    BY <2>1, BookSteps DEF SaleInv
<1>6. ASSUME Environment PROVE BookGrows
  <2>1. SaleInv' /\ UNCHANGED mapVars
    BY <1>6, EnvironmentInv DEF Environment, Expire, Relist
  <2>2. QED
    BY <2>1 DEF SaleInv, BookInv, QuotesTypeOK, BookGrows, mapVars
<1>7. QED
  BY <1>2, <1>3, <1>4, <1>5, <1>6 DEF Next, Sale

\* What a buyer signed does not change while its payment is held.
LEMMA BidKeeps ==
  ASSUME SaleInv, BookGrows, NEW c \in Buyers,
         paid'[c] = paid[c], paid[c] # NoQuote => signed'[c] = signed[c]
  PROVE  Bid(c)' = Bid(c)
<1>1. BuyerInv(c) /\ signed[c] \in 0..Len(book)
  BY DEF SaleInv, VarsTyped
<1>2. paid[c] # NoQuote => book'[signed[c]] = book[signed[c]]
  BY <1>1 DEF BuyerInv, BookGrows, NoQuote
<1>3. QED
  BY <1>2 DEF Bid

\* A step that moves one buyer and no bid is the step of PaidInference that its
\* two stages and the money name.
LEMMA MappedMove ==
  ASSUME phase \in [Buyers -> Phases], NEW b \in Buyers, NEW p \in Phases,
         Goto(b, p), MappedBid' = MappedBid
  PROVE  /\ Stage[phase[b]] = Stage[p] /\ UNCHANGED income
              => UNCHANGED <<MappedStage, MappedBid, income>>
         /\ Stage[phase[b]] = "held" /\ Stage[p] = "served" /\ UNCHANGED income
              => Payments!Next
         /\ Stage[phase[b]] = "held" /\ Stage[p] = "released" /\ UNCHANGED income
              => Payments!Next
         /\ Stage[phase[b]] = "served" /\ Stage[p] = "absorbed" /\ UNCHANGED income
              => Payments!Next
         /\ (Stage[phase[b]] = "served" /\ Stage[p] = "charged"
              /\ income' = income + MappedBid[b])
              => Payments!Next
<1>1. MappedStage' = [MappedStage EXCEPT ![b] = Stage[p]]
  BY DEF MappedStage, Goto
<1>2. MappedStage[b] = Stage[phase[b]]
  BY DEF MappedStage
<1>3. Stage[phase[b]] = Stage[p] => MappedStage' = MappedStage
  BY <1>1 DEF MappedStage
<1>4. Stage[phase[b]] = "held" /\ Stage[p] = "served" /\ UNCHANGED income => Payments!Serve(b)
  BY <1>1, <1>2 DEF Payments!Serve, Payments!Move, MappedStage, MappedBid
<1>5. Stage[phase[b]] = "held" /\ Stage[p] = "released" /\ UNCHANGED income => Payments!Release(b)
  BY <1>1, <1>2 DEF Payments!Release, Payments!Move, MappedStage, MappedBid
<1>6. Stage[phase[b]] = "served" /\ Stage[p] = "absorbed" /\ UNCHANGED income => Payments!Absorb(b)
  BY <1>1, <1>2 DEF Payments!Absorb, Payments!Move, MappedStage, MappedBid
<1>7. ASSUME Stage[phase[b]] = "served", Stage[p] = "charged",
             income' = income + MappedBid[b]
      PROVE  Payments!Charge(b)
  <2>1. Payments!Move(b, "served", "charged")
    BY <1>1, <1>2, <1>7 DEF Payments!Move, MappedStage
  <2>2. UNCHANGED [c \in Buyers |-> Bid(c)]
    BY DEF MappedBid
  <2>3. income' = income + [c \in Buyers |-> Bid(c)][b]
    BY Zenon, <1>7 DEF MappedBid
  <2>4. QED
    BY Zenon, <2>1, <2>2, <2>3 DEF Payments!Charge
<1>8. QED
  BY <1>3, <1>4, <1>5, <1>6, <1>7 DEF Payments!Next

LEMMA PayRefines ==
  ASSUME SaleInv, NEW b \in Buyers, Pay(b)
  PROVE  [Payments!Next]_<<MappedStage, MappedBid, income>>
<1>1. PICK id \in 0..MaxQuotes :
        /\ QuoteFor(BodyOf[b], id)
        /\ \/ /\ id # NoQuote
              /\ paid' = [paid EXCEPT ![b] = id]
              /\ Goto(b, "verifying") /\ UNCHANGED signed
           \/ Offer(b, id) /\ UNCHANGED paid
  BY DEF Pay
<1>2. phase[b] = "quoted" /\ UNCHANGED income /\ phase \in [Buyers -> Phases]
      /\ signed \in [Buyers -> 0..Len(book)] /\ paid \in [Buyers -> 0..Len(book)]
      /\ BuyerInv(b)
  BY DEF Pay, accountVars, SaleInv, VarsTyped
<1>3. BookGrows /\ SaleInv'
  BY BookOnlyGrows, PayInv DEF Next, Sale
<1>4. paid[b] = NoQuote
  BY <1>2 DEF BuyerInv
<1>5. CASE /\ id # NoQuote /\ paid' = [paid EXCEPT ![b] = id]
           /\ Goto(b, "verifying") /\ UNCHANGED signed
  <2>1. \A c \in Buyers : c # b => Bid(c)' = Bid(c)
    BY <1>2, <1>3, <1>5, BidKeeps
  <2>2. Bid(b)' \in Nat
    <3>1. signed[b] \in 1..Len(book')
      BY <1>2, <1>3 DEF BuyerInv, BookGrows, NoQuote
    <3>2. paid'[b] = id /\ signed'[b] = signed[b]
      BY <1>2, <1>5
    <3>3. book'[signed'[b]].price \in Prices
      <4>1. book' \in Seq(Quote)
        BY <1>3 DEF SaleInv, BookInv, QuotesTypeOK
      <4>2. book'[signed[b]] \in Quote
        BY <3>1, <4>1
      <4>3. QED
        BY <3>2, <4>2 DEF Quote
    <3>4. totalForPrice(book'[signed'[b]].price) \in Nat
      BY <3>3, TotalIsNat
    <3>5. QED
      BY <1>5, <3>2, <3>4 DEF Bid
  <2>3. MappedStage' = [MappedStage EXCEPT ![b] = "held"] /\ MappedStage[b] = "open"
    BY <1>2, <1>5, Stages DEF MappedStage, Goto
  <2>4. /\ MappedBid'[b] = Bid(b)'
        /\ MappedBid' = [MappedBid EXCEPT ![b] = MappedBid'[b]]
    BY <2>1 DEF MappedBid
  <2>5. Payments!Hold(b)
    BY <1>2, <2>2, <2>3, <2>4 DEF Payments!Hold, Payments!Move, MappedStage, MappedBid
  <2>6. QED
    BY <2>5 DEF Payments!Next
<1>6. CASE Offer(b, id) /\ UNCHANGED paid
  <2>1. \A c \in Buyers : Bid(c)' = Bid(c)
    BY <1>2, <1>3, <1>4, <1>6, BidKeeps DEF Offer
  <2>2. MappedBid' = MappedBid
    BY <2>1 DEF MappedBid
  <2>3. MappedStage' = MappedStage
    BY <1>2, <1>6, Stages DEF MappedStage, Offer, Goto
  <2>4. QED
    BY <1>2, <2>2, <2>3
<1>7. QED
  BY <1>1, <1>5, <1>6

LEMMA SaleRefines ==
  ASSUME SaleInv, NEW b \in Buyers, Sale(b)
  PROVE  [Payments!Next]_<<MappedStage, MappedBid, income>>
<1>1. phase \in [Buyers -> Phases] /\ BookGrows
  BY BookOnlyGrows DEF SaleInv, VarsTyped, Next
<1>2. ASSUME UNCHANGED paid, \A c \in Buyers : paid[c] # NoQuote => signed'[c] = signed[c]
      PROVE  MappedBid' = MappedBid
  <2>1. \A c \in Buyers : Bid(c)' = Bid(c)
    BY <1>1, <1>2, BidKeeps
  <2>2. QED
    BY <2>1 DEF MappedBid
<1>3. CASE Ask(b)
  <2>1. paid[b] = NoQuote /\ phase[b] = "new"
    BY <1>3 DEF Ask, SaleInv, BuyerInv
  <2>2. MappedBid' = MappedBid
    BY <1>2, <1>3, <2>1 DEF Ask, Offer, SaleInv, VarsTyped
  <2>3. \E p \in {"quoted", "unquoted"} : Goto(b, p)
    BY <1>3 DEF Ask, Offer
  <2>4. UNCHANGED income
    BY <1>3 DEF Ask, accountVars
  <2>5. QED
    BY <1>1, <2>1, <2>2, <2>3, <2>4, MappedMove, Stages DEF Phases
<1>4. CASE Pay(b)
  BY <1>4, PayRefines
<1>5. CASE VerifyFails(b)
  <2>1. /\ phase[b] = "verifying" /\ Goto(b, "rejected")
        /\ UNCHANGED <<signed, paid, income>>
    BY <1>5 DEF VerifyFails, accountVars
  <2>2. QED
    BY <1>1, <1>2, <2>1, MappedMove, Stages DEF Phases
<1>6. CASE Handle(b)
  <2>1. /\ phase[b] = "verifying" /\ \E p \in {"cancelled", "serving"} : Goto(b, p)
        /\ UNCHANGED <<signed, paid, income>>
    BY <1>6 DEF Handle, accountVars
  <2>2. QED
    BY <1>1, <1>2, <2>1, MappedMove, Stages DEF Phases
<1>7. CASE ProviderServes(b)
  <2>1. /\ phase[b] = "serving" /\ Goto(b, "settling")
        /\ UNCHANGED <<signed, paid, income>>
    BY <1>7 DEF ProviderServes
  <2>2. QED
    BY <1>1, <1>2, <2>1, MappedMove, Stages DEF Phases
<1>8. CASE ProviderFails(b)
  <2>1. /\ phase[b] = "serving" /\ Goto(b, "cancelled")
        /\ UNCHANGED <<signed, paid, income>>
    BY <1>8 DEF ProviderFails
  <2>2. QED
    BY <1>1, <1>2, <2>1, MappedMove, Stages DEF Phases
<1>9. CASE SettleOk(b)
  <2>1. /\ phase[b] = "settling" /\ Goto(b, "charged") /\ UNCHANGED <<signed, paid>>
        /\ income' = income + totalForPrice(book[paid[b]].price)
    BY <1>9 DEF SettleOk, Settled
  <2>2. totalForPrice(book[paid[b]].price) = MappedBid[b]
    BY <2>1, SettlingFacts DEF SaleInv, BuyerInv, MappedBid, Bid
  <2>3. MappedBid' = MappedBid
    BY <1>2, <2>1
  <2>4. Payments!Next
    <3>1. Stage[phase[b]] = "served" /\ Stage["charged"] = "charged"
          /\ "charged" \in Phases
      BY <2>1, Stages DEF Phases
    <3>2. income' = income + MappedBid[b]
      BY <2>1, <2>2
    <3>3. QED
      BY <1>1, <2>1, <2>3, <3>1, <3>2, MappedMove
  <2>5. QED
    BY <2>4
<1>10. CASE SettleFails(b)
  <2>1. /\ phase[b] = "settling" /\ Goto(b, "unpaid")
        /\ UNCHANGED <<signed, paid, income>>
    BY <1>10 DEF SettleFails, accountVars
  <2>2. QED
    BY <1>1, <1>2, <2>1, MappedMove, Stages DEF Phases
<1>11. QED
  BY <1>3, <1>4, <1>5, <1>6, <1>7, <1>8, <1>9, <1>10 DEF Sale

LEMMA StepRefines ==
  ASSUME SaleInv, [Next]_vars
  PROVE  [Payments!Next]_<<MappedStage, MappedBid, income>>
<1>1. ASSUME UNCHANGED saleVars, UNCHANGED income, BookGrows
      PROVE  UNCHANGED <<MappedStage, MappedBid, income>>
  <2>1. UNCHANGED phase /\ UNCHANGED paid /\ UNCHANGED signed
    BY <1>1 DEF saleVars
  <2>2. \A c \in Buyers : Bid(c)' = Bid(c)
    BY <1>1, <2>1, BidKeeps
  <2>3. MappedBid' = MappedBid /\ MappedStage' = MappedStage
    BY <2>1, <2>2 DEF MappedBid, MappedStage
  <2>4. QED
    BY <1>1, <2>3
<1>2. CASE Environment
  <2>1. BookGrows
    BY <1>2, BookOnlyGrows DEF Next
  <2>2. UNCHANGED saleVars /\ UNCHANGED income
    BY <1>2 DEF Environment, accountVars
  <2>3. QED
    BY <1>1, <2>1, <2>2
<1>3. CASE UNCHANGED vars
  <2>1. BookGrows
    BY <1>3, BookSteps DEF SaleInv, vars
  <2>2. UNCHANGED saleVars /\ UNCHANGED income
    BY <1>3 DEF vars, accountVars
  <2>3. QED
    BY <1>1, <2>1, <2>2
<1>4. QED
  BY <1>2, <1>3, SaleRefines DEF Next

LEMMA InitRefines == Init => Payments!Init
<1> SUFFICES ASSUME Init PROVE Payments!Init
  OBVIOUS
<1>1. \A c \in Buyers : Stage[phase[c]] = "open"
  BY Stages DEF Init
<1>2. \A c \in Buyers : Bid(c) = 0
  BY DEF Init, Bid
<1>3. income = 0
  BY DEF Init
<1>4. QED
  BY <1>1, <1>2, <1>3 DEF Payments!Init

\* The exchange implements PaidInference: it takes a buyer's money at most once,
\* only after serving it, and exactly the amount that the buyer signed, while
\* requests interleave, quotes expire and providers change their prices.
THEOREM PaymentsAreKept == Spec => PaymentsSpec
<1>1. SaleInv /\ [Next]_vars
        => [Payments!Next]_<<[b \in Buyers |-> Stage[phase[b]]],
                             [b \in Buyers |-> Bid(b)], income>>
  BY StepRefines DEF MappedStage, MappedBid
<1>2. QED
  BY <1>1, InitRefines, SaleInvAlways, PTL DEF Spec, PaymentsSpec, Payments!Spec
=============================================================================
