---------------------------- MODULE LedgerProofs ----------------------------
(***************************************************************************)
(* Theorems about the books the exchange keeps: the in-memory ledger of    *)
(* the mock paywall, and the feed, its revenue and the verdicts behind it, *)
(* for any number of requests, trades, restarts and mishaps.               *)
(*                                                                         *)
(* Both books are sums and folds.  The first two parts say what those      *)
(* compute, by induction on the naturals in the form of a set: a set that  *)
(* holds 0 and with every n its successor holds every natural.             *)
(***************************************************************************)
EXTENDS MockPaywall, TradeFeed, FiniteSetTheorems, WellFoundedInduction, TLAPS

-----------------------------------------------------------------------------
(* Sums over finite sets.                                                  *)

\* Induction over the naturals, for a set instead of a predicate.
LEMMA InductionOnNat ==
  ASSUME NEW T, 0 \in T, \A n \in Nat : n \in T => n + 1 \in T
  PROVE  Nat \subseteq T
<1> DEFINE Missing == Nat \ T
<1>1. SUFFICES ASSUME Missing # {} PROVE FALSE
  OBVIOUS
<1>2. PICK x \in Missing : \A y \in Missing : ~(<<y, x>> \in OpToRel(<, Nat))
  BY <1>1, NatLessThanWellFounded, WFMin
<1>3. x \in Nat /\ x \notin T /\ x # 0
  OBVIOUS
<1>4. x - 1 \in Nat /\ x - 1 < x
  BY <1>3
<1>5. x - 1 \in T
  BY <1>2, <1>3, <1>4 DEF OpToRel
<1>6. x - 1 + 1 \in T
  BY <1>4, <1>5
<1>7. QED
  BY <1>3, <1>6

\* The element that the folds of the library take first.
Pick(s) == CHOOSE x \in s : TRUE

LEMMA PickIsMember == ASSUME NEW s, s # {} PROVE Pick(s) \in s
BY DEF Pick

\* `it` adds up g over the subsets of S.
IsSum(g, S, it) ==
  it = [s \in SUBSET S |-> IF s = {} THEN 0 ELSE g[Pick(s)] + it[s \ {Pick(s)}]]

\* The sets of at most n elements of S.
UpTo(S, n) == {s \in SUBSET S : Cardinality(s) <= n}

LEMMA Smaller ==
  ASSUME NEW S, IsFiniteSet(S), NEW s \in SUBSET S, NEW x \in s
  PROVE  /\ s \ {x} \in SUBSET S /\ IsFiniteSet(s)
         /\ Cardinality(s) \in Nat /\ Cardinality(s \ {x}) \in Nat
         /\ Cardinality(s \ {x}) = Cardinality(s) - 1
<1>1. IsFiniteSet(s)
  BY FS_Subset
<1>2. QED
  BY <1>1, FS_RemoveElement, FS_CardinalityType

LEMMA SumExists ==
  ASSUME NEW g, NEW S, IsFiniteSet(S)
  PROVE  \E it : IsSum(g, S, it)
<1> DEFINE Eq(it, n) ==
      it = [s \in UpTo(S, n) |-> IF s = {} THEN 0 ELSE g[Pick(s)] + it[s \ {Pick(s)}]]
           Has(n) == \E it : Eq(it, n)
           T == {n \in Nat : Has(n)}
<1>1. 0 \in T
  <2> DEFINE it == [s \in UpTo(S, 0) |-> 0]
  <2>1. \A s \in UpTo(S, 0) : s = {}
    <3> SUFFICES ASSUME NEW s \in UpTo(S, 0) PROVE s = {}
      OBVIOUS
    <3>1. IsFiniteSet(s) /\ Cardinality(s) <= 0 /\ s \in SUBSET S
      BY FS_Subset DEF UpTo
    <3>2. Cardinality(s) = 0
      BY <3>1, FS_CardinalityType
    <3>3. QED
      BY <3>1, <3>2, FS_EmptySet
  <2>2. Eq(it, 0)
    BY <2>1
  <2>3. QED
    BY <2>2
<1>2. ASSUME NEW n \in Nat, n \in T PROVE n + 1 \in T
  <2>1. PICK it : Eq(it, n)
    BY <1>2
  <2> DEFINE jt == [s \in UpTo(S, n + 1) |->
                      IF s = {} THEN 0 ELSE g[Pick(s)] + it[s \ {Pick(s)}]]
  <2>2. \A s \in UpTo(S, n) : s \in UpTo(S, n + 1) /\ it[s] = jt[s]
    <3>1. \A s \in UpTo(S, n) : s \in UpTo(S, n + 1)
      <4> SUFFICES ASSUME NEW s \in UpTo(S, n) PROVE s \in UpTo(S, n + 1)
        OBVIOUS
      <4>1. s \in SUBSET S /\ Cardinality(s) \in Nat /\ Cardinality(s) <= n
        BY FS_Subset, FS_CardinalityType DEF UpTo
      <4>2. QED
        BY <4>1 DEF UpTo
    <3>2. \A s \in UpTo(S, n) :
            it[s] = IF s = {} THEN 0 ELSE g[Pick(s)] + it[s \ {Pick(s)}]
      BY <2>1
    <3>3. QED
      BY <3>1, <3>2
  <2>3. \A s \in UpTo(S, n + 1) : s # {} => s \ {Pick(s)} \in UpTo(S, n)
    <3> SUFFICES ASSUME NEW s \in UpTo(S, n + 1), s # {} PROVE s \ {Pick(s)} \in UpTo(S, n)
      OBVIOUS
    <3>1. s \in SUBSET S /\ Pick(s) \in s /\ Cardinality(s) <= n + 1
      BY PickIsMember DEF UpTo
    <3>2. /\ s \ {Pick(s)} \in SUBSET S /\ Cardinality(s) \in Nat
          /\ Cardinality(s \ {Pick(s)}) = Cardinality(s) - 1
      BY <3>1, Smaller
    <3>3. QED
      BY <3>1, <3>2 DEF UpTo
  <2>4. Eq(jt, n + 1)
    BY <2>2, <2>3
  <2> HIDE DEF jt, Eq
  <2>5. \E kt : Eq(kt, n + 1)
    BY <2>4, Zenon
  <2>6. Has(n + 1)
    BY <2>5
  <2> HIDE DEF Has
  <2>7. QED
    BY <2>6
<1>3. Cardinality(S) \in Nat
  BY FS_CardinalityType
<1> HIDE DEF T
<1>4. Cardinality(S) \in T
  BY <1>1, <1>2, <1>3, InductionOnNat
<1>5. PICK it : Eq(it, Cardinality(S))
  BY <1>4 DEF T
<1>6. UpTo(S, Cardinality(S)) = SUBSET S
  BY FS_Subset DEF UpTo
<1>7. QED
  BY <1>5, <1>6 DEF IsSum

\* The sums of two functions that agree on T, over subsets of T, are the same.
LEMMA SumsAgree ==
  ASSUME NEW g, NEW h, NEW S, NEW T, T \subseteq S, IsFiniteSet(T), NEW it, NEW jt,
         IsSum(g, S, it), IsSum(h, T, jt), \A x \in T : g[x] = h[x]
  PROVE  \A s \in SUBSET T : it[s] = jt[s]
<1> DEFINE N == {n \in Nat : \A s \in SUBSET T : Cardinality(s) = n => it[s] = jt[s]}
<1>1. /\ \A s \in SUBSET T : it[s] = IF s = {} THEN 0 ELSE g[Pick(s)] + it[s \ {Pick(s)}]
      /\ \A s \in SUBSET T : jt[s] = IF s = {} THEN 0 ELSE h[Pick(s)] + jt[s \ {Pick(s)}]
  <2>1. \A s \in SUBSET S : it[s] = IF s = {} THEN 0 ELSE g[Pick(s)] + it[s \ {Pick(s)}]
    BY DEF IsSum
  <2>2. \A s \in SUBSET T : jt[s] = IF s = {} THEN 0 ELSE h[Pick(s)] + jt[s \ {Pick(s)}]
    BY DEF IsSum
  <2>3. QED
    BY <2>1, <2>2
<1>2. 0 \in N
  <2> SUFFICES ASSUME NEW s \in SUBSET T, Cardinality(s) = 0 PROVE it[s] = jt[s]
    OBVIOUS
  <2>1. s = {}
    BY FS_Subset, FS_EmptySet
  <2>2. QED
    BY <1>1, <2>1
<1>3. ASSUME NEW n \in Nat, n \in N PROVE n + 1 \in N
  <2> SUFFICES ASSUME NEW s \in SUBSET T, Cardinality(s) = n + 1 PROVE it[s] = jt[s]
    OBVIOUS
  <2>1. s # {}
    BY FS_EmptySet
  <2>2. Pick(s) \in s /\ g[Pick(s)] = h[Pick(s)]
    BY <2>1, PickIsMember
  <2>3. s \ {Pick(s)} \in SUBSET T /\ Cardinality(s \ {Pick(s)}) = n
    BY <2>2, Smaller
  <2>4. it[s \ {Pick(s)}] = jt[s \ {Pick(s)}]
    BY <1>3, <2>3
  <2>5. QED
    BY <1>1, <2>1, <2>2, <2>4
<1> HIDE DEF N
<1>4. Nat \subseteq N
  BY <1>2, <1>3, InductionOnNat
<1>5. \A s \in SUBSET T : Cardinality(s) \in Nat
  BY FS_Subset, FS_CardinalityType
<1>6. QED
  BY <1>4, <1>5 DEF N

\* g added up over S.
Sum(g, S) == (CHOOSE it : IsSum(g, S, it))[S]

LEMMA SumIs ==
  ASSUME NEW g, NEW S, IsFiniteSet(S), NEW it, IsSum(g, S, it), NEW T \in SUBSET S
  PROVE  it[T] = Sum(g, T)
<1>1. IsFiniteSet(T)
  BY FS_Subset
<1>2. IsSum(g, T, CHOOSE jt : IsSum(g, T, jt))
  BY <1>1, SumExists
<1>3. QED
  BY <1>1, <1>2, SumsAgree DEF Sum

LEMMA SumOfNone == ASSUME NEW g PROVE Sum(g, {}) = 0
<1>1. IsFiniteSet({})
  BY FS_EmptySet
<1>2. PICK it : IsSum(g, {}, it)
  BY <1>1, SumExists
<1>3. it[{}] = 0 /\ {} \in SUBSET {}
  BY <1>2 DEF IsSum
<1>4. QED
  BY <1>1, <1>2, <1>3, SumIs

LEMMA SumUnfolds ==
  ASSUME NEW g, NEW S, IsFiniteSet(S), S # {}
  PROVE  Sum(g, S) = g[Pick(S)] + Sum(g, S \ {Pick(S)})
<1>1. PICK it : IsSum(g, S, it)
  BY SumExists
<1>2. it[S] = g[Pick(S)] + it[S \ {Pick(S)}]
  BY <1>1 DEF IsSum
<1>3. S \in SUBSET S /\ S \ {Pick(S)} \in SUBSET S
  OBVIOUS
<1>4. it[S] = Sum(g, S)
  BY <1>1, <1>3, SumIs
<1>5. it[S \ {Pick(S)}] = Sum(g, S \ {Pick(S)})
  BY <1>1, <1>3, SumIs
<1>6. QED
  BY <1>2, <1>4, <1>5

LEMMA SumAgrees ==
  ASSUME NEW g, NEW h, NEW S, IsFiniteSet(S), \A x \in S : g[x] = h[x]
  PROVE  Sum(g, S) = Sum(h, S)
<1>1. PICK it : IsSum(g, S, it)
  BY SumExists
<1>2. PICK jt : IsSum(h, S, jt)
  BY SumExists
<1>3. it[S] = jt[S] /\ S \in SUBSET S
  <2>1. S \subseteq S /\ S \in SUBSET S
    OBVIOUS
  <2>2. \A s \in SUBSET S : it[s] = jt[s]
    BY <1>1, <1>2, <2>1, SumsAgree
  <2>3. QED
    BY <2>1, <2>2
<1>4. it[S] = Sum(g, S)
  BY <1>1, <1>3, SumIs
<1>5. jt[S] = Sum(h, S)
  BY <1>2, <1>3, SumIs
<1>6. QED
  BY <1>3, <1>4, <1>5

\* A sum of naturals is one, and any element may be taken out of it first.
LEMMA SumTakesOut ==
  ASSUME NEW g, NEW S, IsFiniteSet(S), \A x \in S : g[x] \in Nat
  PROVE  /\ Sum(g, S) \in Nat
         /\ \A x \in S : Sum(g, S) = g[x] + Sum(g, S \ {x})
<1> DEFINE P(s) == /\ Sum(g, s) \in Nat
                   /\ \A x \in s : Sum(g, s) = g[x] + Sum(g, s \ {x})
           N == {n \in Nat : \A s \in SUBSET S : Cardinality(s) <= n => P(s)}
<1>1. 0 \in N
  <2> SUFFICES ASSUME NEW s \in SUBSET S, Cardinality(s) <= 0 PROVE P(s)
    OBVIOUS
  <2>1. s = {}
    BY FS_Subset, FS_EmptySet, FS_CardinalityType
  <2>2. QED
    BY <2>1, SumOfNone
<1>2. ASSUME NEW n \in Nat, n \in N PROVE n + 1 \in N
  <2> SUFFICES ASSUME NEW s \in SUBSET S, Cardinality(s) <= n + 1, s # {} PROVE P(s)
    BY SumOfNone
  <2> DEFINE p == Pick(s)
  <2>1. IsFiniteSet(s) /\ Cardinality(s) \in Nat
    BY FS_Subset, FS_CardinalityType
  <2>2. p \in s /\ g[p] \in Nat
    BY PickIsMember
  <2>3. Sum(g, s) = g[p] + Sum(g, s \ {p})
    BY <2>1, SumUnfolds
  <2> HIDE DEF p
  <2>4. \A x \in s : s \ {x} \in SUBSET S /\ P(s \ {x})
    <3> SUFFICES ASSUME NEW x \in s PROVE s \ {x} \in SUBSET S /\ P(s \ {x})
      OBVIOUS
    <3>1. s \ {x} \in SUBSET S /\ Cardinality(s \ {x}) <= n
      BY <2>1, Smaller
    <3>2. QED
      BY <1>2, <3>1
  <2>5. Sum(g, s) \in Nat
    BY <2>2, <2>3, <2>4
  <2>6. ASSUME NEW x \in s PROVE Sum(g, s) = g[x] + Sum(g, s \ {x})
    <3>1. CASE x = p
      BY <2>3, <3>1
    <3>2. CASE x # p
      <4>1. x \in s \ {p} /\ p \in s \ {x} /\ (s \ {p}) \ {x} = (s \ {x}) \ {p}
        BY <2>2, <3>2
      <4> DEFINE rest == Sum(g, (s \ {x}) \ {p})
      <4>2. Sum(g, s \ {p}) = g[x] + rest
        BY <2>2, <2>4, <4>1
      <4>3. Sum(g, s \ {x}) = g[p] + rest
        BY <2>4, <4>1
      <4>4. rest \in Nat
        <5>1. /\ s \ {x} \in SUBSET S
              /\ Cardinality(s \ {x}) = Cardinality(s) - 1
          BY Smaller
        <5> DEFINE u == s \ {x}
        <5>2. u \in SUBSET S /\ p \in u
          BY <4>1, <5>1
        <5> HIDE DEF u
        <5>3. u \ {p} \in SUBSET S /\ Cardinality(u \ {p}) = Cardinality(u) - 1
          BY <5>2, Smaller
        <5>4. Cardinality(u \ {p}) <= n
          BY <2>1, <5>1, <5>3 DEF u
        <5>5. QED
          BY <1>2, <5>3, <5>4 DEF u
      <4>5. g[x] \in Nat
        OBVIOUS
      <4> HIDE DEF rest
      <4>6. QED
        BY <2>2, <2>3, <4>2, <4>3, <4>4, <4>5
    <3>3. QED
      BY <3>1, <3>2
  <2>7. QED
    BY <2>5, <2>6
<1> HIDE DEF N
<1>3. Cardinality(S) \in N /\ Cardinality(S) \in Nat
  BY <1>1, <1>2, InductionOnNat, FS_CardinalityType
<1>4. S \in SUBSET S /\ Cardinality(S) <= Cardinality(S)
  BY <1>3
<1>5. QED
  BY <1>3, <1>4 DEF N

-----------------------------------------------------------------------------
(* The ledger of the mock paywall.                                         *)

\* What a request is charged, and the requests in a phase.
Charge == [b \in Buyers |-> TotalOf(handled[b])]
At(p) == {b \in Buyers : phase[b] = p}

\* The totals in the specification are sums of charges.
LEMMA TotalIsTheSum == \A p : TotalOfPhase(p) = Sum(Charge, At(p))
<1> SUFFICES ASSUME NEW p PROVE TotalOfPhase(p) = Sum(Charge, At(p))
  OBVIOUS
<1> DEFINE S == At(p)
           Raw(it) == it = [s \in SUBSET S |->
             IF s = {} THEN 0 ELSE TotalOf(handled[Pick(s)]) + it[s \ {Pick(s)}]]
<1>1. IsFiniteSet(S) /\ S \in SUBSET S /\ S \subseteq Buyers
  BY MockPaywallAssumption, FS_Subset DEF At
<1>2. TotalOfPhase(p) = (CHOOSE it : Raw(it))[S]
  BY DEF TotalOfPhase, MapThenSumSet, MapThenFoldSet, Pick, At
<1>3. \A it : IsSum(Charge, S, it) <=> Raw(it)
  <2>1. \A s \in SUBSET S : s # {} => Charge[Pick(s)] = TotalOf(handled[Pick(s)])
    BY <1>1, PickIsMember DEF Charge
  <2> HIDE DEF S
  <2>2. QED
    BY <2>1 DEF IsSum
<1> DEFINE jt == CHOOSE it : Raw(it)
<1> HIDE DEF Raw
<1>4. \E it : Raw(it)
  BY <1>1, <1>3, SumExists
<1>5. Raw(jt)
  BY <1>4
<1> HIDE DEF S, jt
<1>6. jt[S] = Sum(Charge, S)
  BY <1>1, <1>3, <1>5, SumIs
<1>7. QED
  BY <1>2, <1>6 DEF S, jt

\* The phases in which the exchange has charged a request and not accounted
\* for it, or has given the charge back.
Held == {"serving", "kept", "refunded"}

BookTyped ==
  /\ book \in Seq(Quote) /\ quotes \in [Bodies -> 0..Len(book)]
  /\ listing \in [Providers -> Listing]

ChargesTyped ==
  /\ phase \in [Buyers -> Phases] /\ handled \in [Buyers -> 0..Len(book)]
  /\ \A b \in Buyers : phase[b] \in Held => handled[b] # NoQuote

AccountsTyped ==
  /\ ledger \in [exchange : Int, agents : Int, providers : Int]
  /\ revenue \in [requests : Int, volume : Int, fee : Int, refunds : Int]

Balanced ==
  /\ ledger.exchange = revenue.volume + revenue.fee
                         + Sum(Charge, At("serving")) + Sum(Charge, At("kept"))
  /\ ledger.agents = Sum(Charge, At("refunded"))

PaywallInv == BookTyped /\ ChargesTyped /\ AccountsTyped /\ Balanced

\* What the totals of quotes are.
LEMMA TotalsAreNat ==
  BookTyped => \A id \in 1..Len(book) :
    /\ book[id].price \in Nat /\ feeForPrice(book[id].price) \in Nat
    /\ TotalOf(id) = book[id].price + feeForPrice(book[id].price)
    /\ TotalOf(id) \in Nat /\ book[id].body \in Bodies
<1> SUFFICES ASSUME BookTyped, NEW id \in 1..Len(book)
             PROVE  /\ book[id].price \in Nat /\ feeForPrice(book[id].price) \in Nat
                    /\ TotalOf(id) = book[id].price + feeForPrice(book[id].price)
                    /\ TotalOf(id) \in Nat /\ book[id].body \in Bodies
  OBVIOUS
<1>1. book[id] \in Quote
  BY DEF BookTyped
<1>2. book[id].price \in Nat /\ book[id].body \in Bodies
  BY <1>1, QuoteBookAssumption DEF Quote
<1> DEFINE n == book[id].price * FeeBps
<1>3. n \in Nat
  BY <1>2, QuoteBookAssumption
<1> HIDE DEF n
<1>4. (n + 9999) \div 10000 \in Nat
  BY <1>3
<1>5. feeForPrice(book[id].price) \in Nat
  BY <1>4 DEF n, feeForPrice
<1>6. QED
  BY <1>2, <1>5 DEF TotalOf, totalForPrice

ChargesNat ==
  \A b \in Buyers : phase[b] \in Held =>
    Charge[b] \in Nat /\ Charge[b] = TotalOf(handled[b]) /\ handled[b] \in 1..Len(book)

LEMMA ChargesAreNat == BookTyped /\ ChargesTyped => ChargesNat
<1> SUFFICES ASSUME BookTyped, ChargesTyped, NEW b \in Buyers, phase[b] \in Held
             PROVE  /\ Charge[b] \in Nat /\ Charge[b] = TotalOf(handled[b])
                    /\ handled[b] \in 1..Len(book)
  BY DEF ChargesNat
<1>1. handled[b] \in 1..Len(book)
  BY DEF ChargesTyped, BookTyped, NoQuote
<1>2. QED
  BY <1>1, TotalsAreNat DEF Charge

LEMMA ChargesStayNat == (BookTyped /\ ChargesTyped => ChargesNat)'
BY ChargesAreNat, PTL

\* The book at most grows.
Longer == BookTyped' /\ Len(book) <= Len(book') /\ \A i \in 1..Len(book) : book'[i] = book[i]

LEMMA QuoteForGrows ==
  ASSUME BookTyped, NEW k \in Bodies, NEW id, QuoteFor(k, id), UNCHANGED <<expired, listing>>
  PROVE  Longer /\ id \in 0..Len(book')
<1>1. /\ book \in Seq(Quote) /\ Len(book) \in Nat
      /\ quotes \in [Bodies -> 0..Len(book)] /\ listing \in [Providers -> Listing]
  BY DEF BookTyped
<1>2. CASE id = quotes[k] /\ UNCHANGED mapVars
  BY <1>1, <1>2 DEF mapVars, Longer, BookTyped
<1>3. ASSUME NEW p \in Providers, id = Len(book) + 1,
             book' = Append(book, [body |-> k, provider |-> p, price |-> listing[p].price]),
             quotes' = [quotes EXCEPT ![k] = id]
      PROVE  Longer /\ id \in 0..Len(book')
  <2> DEFINE q == [body |-> k, provider |-> p, price |-> listing[p].price]
  <2>1. q \in Quote
    BY <1>1 DEF Quote, Listing
  <2>2. book' = Append(book, q)
    BY <1>3
  <2> HIDE DEF q
  <2>3. /\ book' \in Seq(Quote) /\ Len(book') = Len(book) + 1
        /\ \A i \in 1..Len(book) : book'[i] = book[i]
    BY <1>1, <2>1, <2>2
  <2>4. id \in 0..Len(book') /\ \A i \in 0..Len(book) : i \in 0..Len(book')
    BY <1>1, <1>3, <2>3
  <2>5. quotes' \in [Bodies -> 0..Len(book')]
    BY <1>1, <1>3, <2>4
  <2>6. QED
    BY <1>1, <2>3, <2>4, <2>5 DEF Longer, BookTyped
<1>4. CASE id = NoQuote /\ quotes' = [quotes EXCEPT ![k] = NoQuote] /\ UNCHANGED book
  <2>1. NoQuote \in 0..Len(book)
    BY <1>1 DEF NoQuote
  <2>2. quotes' \in [Bodies -> 0..Len(book)]
    BY <1>1, <1>4, <2>1
  <2>3. QED
    BY <1>1, <1>4, <2>1, <2>2 DEF Longer, BookTyped
<1>5. QED
  BY <1>2, <1>3, <1>4 DEF QuoteFor

LEMMA ConsumeGrows ==
  ASSUME BookTyped, NEW id \in 1..Len(book),
         ConsumeQuote(id) \/ UNCHANGED mapVars, UNCHANGED listing
  PROVE  Longer /\ book' = book
<1>1. /\ book \in Seq(Quote) /\ Len(book) \in Nat
      /\ quotes \in [Bodies -> 0..Len(book)] /\ listing \in [Providers -> Listing]
  BY DEF BookTyped
<1>2. NoQuote \in 0..Len(book)
  BY <1>1 DEF NoQuote
<1>3. book' = book /\ quotes' \in [Bodies -> 0..Len(book)]
  BY <1>1, <1>2 DEF ConsumeQuote, mapVars
<1>4. QED
  BY <1>1, <1>3 DEF Longer, BookTyped

\* One request moves, whatever it is charged; the charges held before stay.
Moves(b, q) ==
  /\ Longer /\ phase' = [phase EXCEPT ![b] = q] /\ q \in Phases
  /\ handled' \in [Buyers -> 0..Len(book')]
  /\ \A c \in Buyers : phase[c] \in Held => handled'[c] = handled[c]
  /\ q \in Held => handled'[b] # NoQuote
  /\ \A c \in Buyers : c # b => handled'[c] = handled[c]

LEMMA MovesKeep ==
  ASSUME BookTyped, ChargesTyped, NEW b \in Buyers, NEW q, Moves(b, q)
  PROVE  /\ BookTyped' /\ ChargesTyped'
         /\ \A c \in Buyers : phase[c] \in Held => Charge'[c] = Charge[c]
         /\ \A c \in Buyers : phase'[c] \in Held => Charge'[c] \in Nat
<1>1. BookTyped' /\ phase' \in [Buyers -> Phases]
  BY DEF Moves, Longer, ChargesTyped
<1>2. ASSUME NEW c \in Buyers, phase'[c] \in Held PROVE handled'[c] # NoQuote
  BY <1>2 DEF Moves, ChargesTyped
<1>3. ChargesTyped'
  BY <1>1, <1>2 DEF Moves, ChargesTyped
<1>4. ASSUME NEW c \in Buyers, phase[c] \in Held PROVE Charge'[c] = Charge[c]
  <2>1. handled[c] \in 1..Len(book) /\ handled'[c] = handled[c]
    BY <1>4, ChargesAreNat DEF Moves, ChargesNat
  <2>2. book'[handled'[c]] = book[handled[c]]
    BY <2>1 DEF Moves, Longer
  <2>3. QED
    BY <2>2 DEF Charge, TotalOf
<1>5. \A c \in Buyers : phase'[c] \in Held => Charge'[c] \in Nat
  BY <1>1, <1>3, ChargesStayNat DEF ChargesNat
<1>6. QED
  BY <1>1, <1>3, <1>4, <1>5

\* What that does to the sum of the charges in a phase.
LEMMA SumMoves ==
  ASSUME BookTyped, ChargesTyped, NEW b \in Buyers, NEW q, Moves(b, q), NEW p \in Held
  PROVE  /\ Sum(Charge, At(p)) \in Nat /\ Sum(Charge', At(p)') \in Nat
         /\ phase[b] = p /\ q # p => Sum(Charge, At(p)) = Sum(Charge', At(p)') + Charge[b]
         /\ phase[b] # p /\ q = p => Sum(Charge', At(p)') = Sum(Charge, At(p)) + Charge'[b]
         /\ (phase[b] = p <=> q = p) => Sum(Charge', At(p)') = Sum(Charge, At(p))
<1>1. IsFiniteSet(At(p)) /\ IsFiniteSet(At(p)')
  BY MockPaywallAssumption, FS_Subset DEF At
<1>2. /\ \A c \in At(p) : Charge'[c] = Charge[c] /\ Charge[c] \in Nat
      /\ \A c \in At(p)' : Charge'[c] \in Nat
  BY MovesKeep, ChargesAreNat DEF At, ChargesNat
<1>3. /\ \A c \in Buyers : c # b => phase'[c] = phase[c]
      /\ phase'[b] = q
  BY DEF Moves, ChargesTyped
<1>4. Sum(Charge, At(p)) \in Nat /\ Sum(Charge', At(p)') \in Nat
  BY <1>1, <1>2, SumTakesOut
<1>5. ASSUME phase[b] = p, q # p
      PROVE  Sum(Charge, At(p)) = Sum(Charge', At(p)') + Charge[b]
  <2>1. b \in At(p) /\ At(p) \ {b} = At(p)'
    BY <1>3, <1>5 DEF At
  <2>2. Sum(Charge, At(p)) = Charge[b] + Sum(Charge, At(p)')
    BY <1>1, <1>2, <2>1, SumTakesOut
  <2>3. Sum(Charge, At(p)') = Sum(Charge', At(p)')
    BY <1>1, <1>2, <2>1, SumAgrees
  <2>4. Sum(Charge', At(p)') \in Nat /\ Charge[b] \in Nat
    BY <1>1, <1>2, <2>1, SumTakesOut
  <2>5. QED
    BY <2>2, <2>3, <2>4
<1>6. ASSUME phase[b] # p, q = p
      PROVE  Sum(Charge', At(p)') = Sum(Charge, At(p)) + Charge'[b]
  <2>1. b \in At(p)' /\ At(p)' \ {b} = At(p)
    BY <1>3, <1>6 DEF At
  <2>2. Sum(Charge', At(p)') = Charge'[b] + Sum(Charge', At(p))
    BY <1>1, <1>2, <2>1, SumTakesOut
  <2>3. Sum(Charge, At(p)) = Sum(Charge', At(p))
    BY <1>1, <1>2, SumAgrees
  <2>4. Charge'[b] \in Nat
    BY <1>2, <2>1
  <2>5. QED
    BY <1>4, <2>2, <2>3, <2>4
<1>7. ASSUME phase[b] = p <=> q = p PROVE Sum(Charge', At(p)') = Sum(Charge, At(p))
  <2>1. At(p)' = At(p)
    BY <1>3, <1>7 DEF At
  <2>2. QED
    BY <1>1, <1>2, <2>1, SumAgrees
<1>8. QED
  BY <1>4, <1>5, <1>6, <1>7

\* A step that moves no money and no charge.
LEMMA QuietKeeps ==
  ASSUME PaywallInv, NEW b \in Buyers, NEW q, Moves(b, q), phase[b] \notin Held, q \notin Held,
         UNCHANGED <<ledger, revenue>>
  PROVE  PaywallInv'
<1>1. BookTyped' /\ ChargesTyped'
  BY MovesKeep DEF PaywallInv
<1>2. \A p \in Held : Sum(Charge', At(p)') = Sum(Charge, At(p))
  BY SumMoves DEF PaywallInv
<1>3. Balanced'
  BY <1>2 DEF PaywallInv, Balanced, Held
<1>4. QED
  BY <1>1, <1>3 DEF PaywallInv, AccountsTyped

LEMMA OfferMoves ==
  ASSUME PaywallInv, NEW b \in Buyers, NEW id, Longer, Offer(b, id), UNCHANGED handled
  PROVE  \E q : Moves(b, q) /\ q \notin Held
<1> DEFINE q == IF id = NoQuote THEN "refused" ELSE "quoted"
<1>1. q \in Phases /\ q \notin Held
  BY DEF Phases, Held
<1>2. phase' = [phase EXCEPT ![b] = q]
  BY DEF Offer, Goto
<1>3. handled' \in [Buyers -> 0..Len(book')]
  <2>1. Len(book) \in Nat /\ Len(book') \in Nat
    BY DEF PaywallInv, Longer, BookTyped
  <2>2. \A i \in 0..Len(book) : i \in 0..Len(book')
    BY <2>1 DEF Longer
  <2>3. QED
    BY <2>2 DEF PaywallInv, ChargesTyped
<1> HIDE DEF q
<1>4. Moves(b, q)
  BY <1>1, <1>2, <1>3 DEF Moves
<1>5. QED
  BY <1>1, <1>4

LEMMA AskKeeps ==
  ASSUME PaywallInv, NEW b \in Buyers, Ask(b)
  PROVE  PaywallInv'
<1>1. PICK id \in 0..MaxQuotes : QuoteFor(BodyOf[b], id) /\ Offer(b, id)
  BY DEF Ask
<1>2. /\ phase[b] \notin Held /\ BodyOf[b] \in Bodies
      /\ UNCHANGED <<expired, listing, handled, ledger, revenue>>
  BY MockPaywallAssumption DEF Ask, Held
<1>3. Longer
  BY <1>1, <1>2, QuoteForGrows DEF PaywallInv
<1>4. PICK q : Moves(b, q) /\ q \notin Held
  BY <1>1, <1>2, <1>3, OfferMoves
<1>5. QED
  BY <1>2, <1>4, QuietKeeps

LEMMA PayKeeps ==
  ASSUME PaywallInv, NEW b \in Buyers, Pay(b)
  PROVE  PaywallInv'
<1> DEFINE total(id) == totalForPrice(book'[id].price)
<1>1. PICK id \in 0..MaxQuotes :
        /\ QuoteFor(BodyOf[b], id)
        /\ \/ /\ id # NoQuote
              /\ ledger' = [ledger EXCEPT !.exchange = @ + total(id)]
              /\ handled' = [handled EXCEPT ![b] = id]
              /\ Goto(b, "serving")
           \/ Offer(b, id) /\ UNCHANGED <<handled, ledger>>
  BY DEF Pay
<1>2. /\ phase[b] \notin Held /\ phase[b] = "quoted" /\ BodyOf[b] \in Bodies
      /\ UNCHANGED <<expired, listing, revenue>>
  BY MockPaywallAssumption DEF Pay, Held
<1>3. Longer /\ id \in 0..Len(book')
  BY <1>1, <1>2, QuoteForGrows DEF PaywallInv
<1>4. CASE Offer(b, id) /\ UNCHANGED <<handled, ledger>>
  <2>1. PICK q : Moves(b, q) /\ q \notin Held
    BY <1>3, <1>4, OfferMoves
  <2>2. QED
    BY <1>2, <1>4, <2>1, QuietKeeps
<1>5. CASE /\ id # NoQuote
           /\ ledger' = [ledger EXCEPT !.exchange = @ + total(id)]
           /\ handled' = [handled EXCEPT ![b] = id]
           /\ Goto(b, "serving")
  <2>1. Len(book) \in Nat /\ Len(book') \in Nat /\ handled \in [Buyers -> 0..Len(book)]
    BY <1>3 DEF PaywallInv, Longer, BookTyped, ChargesTyped
  <2>2. \A i \in 0..Len(book) : i \in 0..Len(book')
    BY <1>3, <2>1 DEF Longer
  <2>3. handled' \in [Buyers -> 0..Len(book')] /\ handled'[b] = id
        /\ \A c \in Buyers : c # b => handled'[c] = handled[c]
    BY <1>3, <1>5, <2>1, <2>2
  <2>4. Moves(b, "serving")
    BY <1>2, <1>3, <1>5, <2>3 DEF Moves, Goto, Phases, Held
  <2>5. BookTyped' /\ ChargesTyped' /\ Charge'[b] \in Nat
    BY <2>4, MovesKeep DEF PaywallInv, Held, ChargesTyped, Goto, Moves
  <2>6. Charge'[b] = total(id)
    BY <2>3 DEF Charge, TotalOf
  <2> HIDE DEF total
  <2>7. /\ Sum(Charge', At("serving")') = Sum(Charge, At("serving")) + total(id)
        /\ Sum(Charge', At("kept")') = Sum(Charge, At("kept"))
        /\ Sum(Charge', At("refunded")') = Sum(Charge, At("refunded"))
        /\ Sum(Charge, At("serving")) \in Nat /\ Sum(Charge, At("kept")) \in Nat
    BY <1>2, <2>4, <2>6, SumMoves DEF PaywallInv, Held
  <2>8. /\ ledger' \in [exchange : Int, agents : Int, providers : Int]
        /\ ledger'.exchange = ledger.exchange + total(id) /\ ledger'.agents = ledger.agents
    BY <1>5, <2>5, <2>6 DEF PaywallInv, AccountsTyped
  <2>9. Balanced'
    BY <1>2, <2>5, <2>6, <2>7, <2>8 DEF PaywallInv, Balanced, AccountsTyped
  <2>10. QED
    BY <1>2, <2>5, <2>8, <2>9 DEF PaywallInv, AccountsTyped
<1>6. QED
  BY <1>1, <1>4, <1>5

\* What the handler of a request that is being served knows of it.
LEMMA ServingFacts ==
  ASSUME PaywallInv, NEW b \in Buyers, phase[b] = "serving",
         ConsumeQuote(handled[b]) \/ UNCHANGED mapVars, UNCHANGED <<listing, handled>>,
         NEW q \in Phases \ {"serving"}, Goto(b, q)
  PROVE  /\ Moves(b, q) /\ BookTyped' /\ ChargesTyped'
         /\ book[handled[b]].price \in Nat /\ feeForPrice(book[handled[b]].price) \in Nat
         /\ TotalOf(handled[b]) = book[handled[b]].price + feeForPrice(book[handled[b]].price)
         /\ Charge[b] = TotalOf(handled[b]) /\ Charge[b] \in Nat
         /\ q \in Held => Charge'[b] = Charge[b]
         /\ Sum(Charge, At("serving")) = Sum(Charge', At("serving")') + Charge[b]
         /\ Sum(Charge', At("serving")') \in Nat
<1>1. handled[b] \in 1..Len(book) /\ Charge[b] = TotalOf(handled[b]) /\ Charge[b] \in Nat
  BY ChargesAreNat DEF PaywallInv, Held, ChargesNat
<1>2. Longer /\ book' = book
  BY <1>1, ConsumeGrows DEF PaywallInv
<1>3. Moves(b, q)
  BY <1>1, <1>2 DEF PaywallInv, ChargesTyped, Moves, Goto, NoQuote
<1>4. /\ BookTyped' /\ ChargesTyped' /\ (q \in Held => Charge'[b] = Charge[b])
  BY <1>3, MovesKeep DEF PaywallInv, Held
<1>5. /\ Sum(Charge, At("serving")) = Sum(Charge', At("serving")') + Charge[b]
      /\ Sum(Charge', At("serving")') \in Nat
  BY <1>3, SumMoves DEF PaywallInv, Held
<1>6. /\ book[handled[b]].price \in Nat /\ feeForPrice(book[handled[b]].price) \in Nat
      /\ TotalOf(handled[b]) = book[handled[b]].price + feeForPrice(book[handled[b]].price)
  BY <1>1, TotalsAreNat DEF PaywallInv
<1>7. QED
  BY <1>1, <1>3, <1>4, <1>5, <1>6

LEMMA ProviderServesKeeps ==
  ASSUME PaywallInv, NEW b \in Buyers, ProviderServes(b)
  PROVE  PaywallInv'
<1> DEFINE price == book[handled[b]].price
<1>1. /\ phase[b] = "serving" /\ ConsumeQuote(handled[b]) /\ Goto(b, "served")
      /\ ledger' = [ledger EXCEPT !.providers = @ + price]
      /\ revenue' = [revenue EXCEPT !.requests = @ + 1, !.volume = @ + price,
                                    !.fee = @ + feeForPrice(price)]
      /\ UNCHANGED <<listing, handled>> /\ "served" \in Phases
  BY DEF ProviderServes, Phases
<1>2. /\ Moves(b, "served") /\ BookTyped' /\ ChargesTyped'
      /\ price \in Nat /\ feeForPrice(price) \in Nat
      /\ Charge[b] = price + feeForPrice(price)
      /\ Sum(Charge, At("serving")) = Sum(Charge', At("serving")') + Charge[b]
      /\ Sum(Charge', At("serving")') \in Nat
  BY <1>1, ServingFacts
<1>3. /\ Sum(Charge', At("kept")') = Sum(Charge, At("kept"))
      /\ Sum(Charge', At("refunded")') = Sum(Charge, At("refunded"))
      /\ Sum(Charge, At("serving")) \in Nat /\ Sum(Charge, At("kept")) \in Nat
  BY <1>1, <1>2, SumMoves DEF PaywallInv, Held
<1> HIDE DEF price
<1>4. /\ ledger' \in [exchange : Int, agents : Int, providers : Int]
      /\ ledger'.exchange = ledger.exchange /\ ledger'.agents = ledger.agents
  BY <1>1, <1>2 DEF PaywallInv, AccountsTyped
<1> DEFINE fee == feeForPrice(price)
<1> HIDE DEF fee
<1>5. /\ fee \in Nat /\ Charge[b] = price + fee
      /\ revenue' = [revenue EXCEPT !.requests = @ + 1, !.volume = @ + price, !.fee = @ + fee]
  BY <1>1, <1>2 DEF fee
<1>6. /\ revenue' \in [requests : Int, volume : Int, fee : Int, refunds : Int]
      /\ revenue'.volume = revenue.volume + price /\ revenue'.fee = revenue.fee + fee
  <2>1. revenue \in [requests : Int, volume : Int, fee : Int, refunds : Int]
    BY DEF PaywallInv, AccountsTyped
  <2>2. revenue' = [requests |-> revenue.requests + 1, volume |-> revenue.volume + price,
                    fee |-> revenue.fee + fee, refunds |-> revenue.refunds]
    BY <1>5, <2>1
  <2>3. /\ revenue.requests + 1 \in Int /\ revenue.volume + price \in Int
        /\ revenue.fee + fee \in Int /\ revenue.refunds \in Int
    BY <1>2, <1>5, <2>1
  <2>4. QED
    BY <2>2, <2>3
<1>7. Balanced'
  BY <1>2, <1>3, <1>4, <1>5, <1>6 DEF PaywallInv, Balanced, AccountsTyped
<1>8. QED
  BY <1>2, <1>4, <1>6, <1>7 DEF PaywallInv, AccountsTyped

LEMMA ProviderFailsKeeps ==
  ASSUME PaywallInv, NEW b \in Buyers, ProviderFails(b)
  PROVE  PaywallInv'
<1> DEFINE total == TotalOf(handled[b])
           price == book[handled[b]].price
<1>1. phase[b] = "serving" /\ UNCHANGED <<listing, handled>>
  BY DEF ProviderFails
<1>2. PICK credit \in {0, price} :
        \/ /\ Refund(b, credit)
           /\ ConsumeQuote(handled[b]) \/ UNCHANGED mapVars
        \/ /\ ledger' = [ledger EXCEPT !.providers = @ + credit]
           /\ ConsumeQuote(handled[b]) /\ Goto(b, "kept") /\ UNCHANGED revenue
  BY DEF ProviderFails, CreditOnFailure
<1>3. CASE Refund(b, credit) /\ (ConsumeQuote(handled[b]) \/ UNCHANGED mapVars)
  <2>1. /\ Goto(b, "refunded") /\ "refunded" \in Phases
        /\ ledger' = [exchange  |-> ledger.exchange - total,
                      agents    |-> ledger.agents + total,
                      providers |-> ledger.providers + credit]
        /\ revenue' = [revenue EXCEPT !.refunds = @ + 1]
    BY <1>3 DEF Refund, Phases
  <2>2. /\ Moves(b, "refunded") /\ BookTyped' /\ ChargesTyped'
        /\ price \in Nat /\ total \in Nat /\ Charge[b] = total /\ Charge'[b] = total
        /\ Sum(Charge, At("serving")) = Sum(Charge', At("serving")') + Charge[b]
        /\ Sum(Charge', At("serving")') \in Nat
    BY <1>1, <1>3, <2>1, ServingFacts DEF Held
  <2>3. /\ Sum(Charge', At("kept")') = Sum(Charge, At("kept"))
        /\ Sum(Charge', At("refunded")') = Sum(Charge, At("refunded")) + total
        /\ Sum(Charge, At("serving")) \in Nat /\ Sum(Charge, At("kept")) \in Nat
        /\ Sum(Charge, At("refunded")) \in Nat
    BY <1>1, <2>2, SumMoves DEF PaywallInv, Held
  <2> HIDE DEF price, total
  <2>4. credit \in Int
    BY <2>2
  <2>5. /\ ledger' \in [exchange : Int, agents : Int, providers : Int]
        /\ ledger'.exchange = ledger.exchange - total /\ ledger'.agents = ledger.agents + total
    BY <2>1, <2>2, <2>4 DEF PaywallInv, AccountsTyped
  <2>6. /\ revenue' \in [requests : Int, volume : Int, fee : Int, refunds : Int]
        /\ revenue'.volume = revenue.volume /\ revenue'.fee = revenue.fee
    BY <2>1 DEF PaywallInv, AccountsTyped
  <2>7. Balanced'
    BY <2>2, <2>3, <2>5, <2>6 DEF PaywallInv, Balanced, AccountsTyped
  <2>8. QED
    BY <2>2, <2>5, <2>6, <2>7 DEF PaywallInv, AccountsTyped
<1>4. CASE /\ ledger' = [ledger EXCEPT !.providers = @ + credit]
           /\ ConsumeQuote(handled[b]) /\ Goto(b, "kept") /\ UNCHANGED revenue
  <2>1. "kept" \in Phases
    BY DEF Phases
  <2>2. /\ Moves(b, "kept") /\ BookTyped' /\ ChargesTyped'
        /\ price \in Nat /\ total \in Nat /\ Charge[b] = total /\ Charge'[b] = total
        /\ Sum(Charge, At("serving")) = Sum(Charge', At("serving")') + Charge[b]
        /\ Sum(Charge', At("serving")') \in Nat
    BY <1>1, <1>4, <2>1, ServingFacts DEF Held
  <2>3. /\ Sum(Charge', At("kept")') = Sum(Charge, At("kept")) + total
        /\ Sum(Charge', At("refunded")') = Sum(Charge, At("refunded"))
        /\ Sum(Charge, At("serving")) \in Nat /\ Sum(Charge, At("kept")) \in Nat
    BY <1>1, <2>2, SumMoves DEF PaywallInv, Held
  <2> HIDE DEF price, total
  <2>4. credit \in Int
    BY <2>2
  <2>5. /\ ledger' \in [exchange : Int, agents : Int, providers : Int]
        /\ ledger'.exchange = ledger.exchange /\ ledger'.agents = ledger.agents
    BY <1>4, <2>4 DEF PaywallInv, AccountsTyped
  <2>6. Balanced'
    BY <1>4, <2>2, <2>3, <2>5 DEF PaywallInv, Balanced, AccountsTyped
  <2>7. QED
    BY <1>4, <2>2, <2>5, <2>6 DEF PaywallInv, AccountsTyped
<1>5. QED
  BY <1>2, <1>3, <1>4

LEMMA PaywallInit == Init => PaywallInv
<1> SUFFICES ASSUME Init PROVE PaywallInv
  OBVIOUS
<1>1. BookTyped
  BY DEF Init, QuotesInit, BookTyped, NoQuote
<1>2. ChargesTyped /\ AccountsTyped
  BY DEF Init, QuotesInit, ChargesTyped, AccountsTyped, Phases, Held, NoQuote
<1>3. \A p \in Held : At(p) = {}
  BY DEF Init, At, Held
<1>4. \A p \in Held : Sum(Charge, At(p)) = 0
  BY <1>3, SumOfNone
<1>5. Balanced
  BY <1>4 DEF Init, Balanced, Held
<1>6. QED
  BY <1>1, <1>2, <1>5 DEF PaywallInv

LEMMA PaywallStep == PaywallInv /\ [Next]_vars => PaywallInv'
<1> SUFFICES ASSUME PaywallInv, [Next]_vars PROVE PaywallInv'
  OBVIOUS
<1>1. ASSUME NEW b \in Buyers, Sale(b) PROVE PaywallInv'
  BY <1>1, AskKeeps, PayKeeps, ProviderServesKeeps, ProviderFailsKeeps DEF Sale
<1>2. ASSUME UNCHANGED <<book, quotes, phase, handled, ledger, revenue>>,
             listing' \in [Providers -> Listing]
      PROVE  PaywallInv'
  BY <1>2 DEF PaywallInv, BookTyped, ChargesTyped, AccountsTyped, Balanced, Charge, TotalOf, At
<1>3. CASE Environment
  <2>1. UNCHANGED <<book, quotes, phase, handled, ledger, revenue>>
    BY <1>3 DEF Environment, Expire, Relist, saleVars, mapVars
  <2>2. listing' \in [Providers -> Listing]
    BY <1>3 DEF Environment, Expire, Relist, PaywallInv, BookTyped
  <2>3. QED
    BY <1>2, <2>1, <2>2
<1>4. CASE UNCHANGED vars
  BY <1>2, <1>4 DEF vars, quoteVars, saleVars, PaywallInv, BookTyped
<1>5. QED
  BY <1>1, <1>3, <1>4 DEF Next

\* With the ledger kept in memory, the exchange's row is exactly what it may
\* keep, and the agents have exactly what was refunded (index.ts:245, 447-449,
\* 484; refund.ts:42), for any number of requests and any fee.
THEOREM MockLedgerBalances == Spec => []LedgerBalances
<1>1. PaywallInv => LedgerBalances
  BY TotalIsTheSum DEF PaywallInv, Balanced, LedgerBalances
<1>2. QED
  BY <1>1, PaywallInit, PaywallStep, PTL DEF Spec

-----------------------------------------------------------------------------
(* What the library's operators on sequences compute.                      *)

\* The places at which a sequence of sequences has something, up to n.
Filled(seqs, n) == {i \in 1..n : seqs[i] # << >>}

LEMMA FilledGrows ==
  ASSUME NEW seqs, NEW n \in Nat
  PROVE  /\ IsFiniteSet(Filled(seqs, n)) /\ Cardinality(Filled(seqs, n)) \in Nat
         /\ Cardinality(Filled(seqs, n)) <= n
         /\ Filled(seqs, 0) = {}
         /\ Cardinality(Filled(seqs, n + 1)) =
              IF seqs[n + 1] = << >> THEN Cardinality(Filled(seqs, n))
              ELSE Cardinality(Filled(seqs, n)) + 1
<1>1. IsFiniteSet(1..n) /\ Cardinality(1..n) = n
  BY FS_Interval
<1>2. /\ IsFiniteSet(Filled(seqs, n)) /\ Cardinality(Filled(seqs, n)) <= n
      /\ Cardinality(Filled(seqs, n)) \in Nat
  BY <1>1, FS_Subset, FS_CardinalityType DEF Filled
<1>3. Filled(seqs, n + 1) =
        IF seqs[n + 1] = << >> THEN Filled(seqs, n) ELSE Filled(seqs, n) \cup {n + 1}
  BY DEF Filled
<1>4. n + 1 \notin Filled(seqs, n)
  BY DEF Filled
<1>5. Cardinality(Filled(seqs, n) \cup {n + 1}) = Cardinality(Filled(seqs, n)) + 1
  BY <1>2, <1>4, FS_AddElement
<1>6. Filled(seqs, 0) = {}
  BY DEF Filled
<1>7. QED
  BY <1>2, <1>3, <1>5, <1>6

Flattens(seqs, n, f) ==
  f = [i \in 1..n |-> IF i = 1 THEN seqs[i] ELSE f[i - 1] \o seqs[i]]

LEMMA FlattenExists ==
  ASSUME NEW seqs, NEW n \in Nat
  PROVE  \E f : Flattens(seqs, n, f)
<1> DEFINE T == {k \in Nat : \E f : Flattens(seqs, k, f)}
<1>1. 0 \in T
  <2>1. Flattens(seqs, 0, [i \in 1..0 |-> << >>])
    BY DEF Flattens
  <2>2. QED
    BY <2>1
<1>2. ASSUME NEW k \in Nat, k \in T PROVE k + 1 \in T
  <2>1. PICK f : Flattens(seqs, k, f)
    BY <1>2
  <2> DEFINE g == [i \in 1..(k + 1) |-> IF i = 1 THEN seqs[i] ELSE f[i - 1] \o seqs[i]]
  <2>2. \A i \in 1..k : f[i] = g[i]
    <3>1. \A i \in 1..k : f[i] = IF i = 1 THEN seqs[i] ELSE f[i - 1] \o seqs[i]
      BY <2>1 DEF Flattens
    <3>2. \A i \in 1..k : i \in 1..(k + 1)
      OBVIOUS
    <3>3. QED
      BY <3>1, <3>2
  <2>3. \A i \in 1..(k + 1) : i # 1 => i - 1 \in 1..k
    OBVIOUS
  <2>4. Flattens(seqs, k + 1, g)
    BY <2>2, <2>3 DEF Flattens
  <2> HIDE DEF g
  <2>5. QED
    BY <2>4
<1> HIDE DEF T
<1>3. n \in T
  BY <1>1, <1>2, InductionOnNat
<1>4. QED
  BY <1>3 DEF T

LEMMA Joined ==
  ASSUME NEW R, NEW s \in Seq(R), NEW t \in Seq(R)
  PROVE  s \o t \in Seq(R) /\ Len(s \o t) = Len(s) + Len(t)
OBVIOUS

\* Flattening sequences of one element at most counts those that have one.
LEMMA FlattenCounts ==
  ASSUME NEW R, NEW seqs \in Seq(Seq(R)),
         \A i \in DOMAIN seqs : Len(seqs[i]) <= 1
  PROVE  /\ FlattenSeq(seqs) \in Seq(R)
         /\ Len(FlattenSeq(seqs)) = Cardinality(Filled(seqs, Len(seqs)))
<1> DEFINE n == Len(seqs)
<1>1. n \in Nat /\ DOMAIN seqs = 1..n
  OBVIOUS
<1>2. ASSUME NEW i \in 1..n
      PROVE  seqs[i] \in Seq(R) /\ Len(seqs[i]) = IF seqs[i] = << >> THEN 0 ELSE 1
  <2>1. i \in DOMAIN seqs
    BY <1>1
  <2>2. seqs[i] \in Seq(R)
    BY <2>1
  <2>3. Len(seqs[i]) \in Nat /\ Len(seqs[i]) <= 1
    BY <2>1, <2>2
  <2>4. Len(seqs[i]) = 0 <=> seqs[i] = << >>
    BY <2>2
  <2>5. QED
    BY <2>2, <2>3, <2>4
<1>3. CASE n = 0
  <2>1. FlattenSeq(seqs) = seqs
    BY <1>3 DEF FlattenSeq
  <2>2. seqs = << >> /\ seqs \in Seq(R)
    BY <1>3
  <2>3. Cardinality(Filled(seqs, n)) = 0
    BY <1>3, FilledGrows, FS_EmptySet
  <2>4. QED
    BY <1>3, <2>1, <2>2, <2>3
<1>4. CASE n # 0
  <2> DEFINE f == CHOOSE g : g = [i \in 1..n |-> IF i = 1 THEN seqs[i] ELSE g[i - 1] \o seqs[i]]
  <2>1. FlattenSeq(seqs) = f[n]
    BY <1>4 DEF FlattenSeq
  <2>2. Flattens(seqs, n, f)
    BY <1>1, FlattenExists DEF Flattens
  <2> HIDE DEF f, n
  <2>3. \A i \in 1..n : f[i] = IF i = 1 THEN seqs[i] ELSE f[i - 1] \o seqs[i]
    BY <2>2 DEF Flattens
  <2> DEFINE Ok(i) == f[i] \in Seq(R) /\ Len(f[i]) = Cardinality(Filled(seqs, i))
             T == {i \in Nat : 1 <= i /\ i <= n => Ok(i)}
  <2>4. 0 \in T
    OBVIOUS
  <2>5. ASSUME NEW i \in Nat, i \in T PROVE i + 1 \in T
    <3> SUFFICES ASSUME i + 1 <= n PROVE Ok(i + 1)
      OBVIOUS
    <3>1. i + 1 \in 1..n
      BY <1>1
    <3>2. /\ seqs[i + 1] \in Seq(R)
          /\ Len(seqs[i + 1]) = IF seqs[i + 1] = << >> THEN 0 ELSE 1
      BY <1>2, <3>1
    <3>3. /\ Cardinality(Filled(seqs, i)) \in Nat
          /\ Cardinality(Filled(seqs, i + 1)) = Cardinality(Filled(seqs, i)) + Len(seqs[i + 1])
      BY <3>2, FilledGrows
    <3>4. CASE i = 0
      <4>1. f[i + 1] = seqs[i + 1]
        BY <2>3, <3>1, <3>4
      <4>2. Cardinality(Filled(seqs, i)) = 0
        BY <3>4, FilledGrows, FS_EmptySet
      <4>3. QED
        BY <3>2, <3>3, <4>1, <4>2
    <3>5. CASE i # 0
      <4>1. Ok(i)
        BY <1>1, <2>5, <3>1, <3>5
      <4> DEFINE j == i + 1
      <4>2. j \in 1..n /\ j # 1 /\ j - 1 = i
        BY <3>1, <3>5
      <4> HIDE DEF j
      <4>3. f[j] = f[j - 1] \o seqs[j]
        BY <2>3, <4>2
      <4>4. f[i + 1] = f[i] \o seqs[i + 1]
        BY <4>2, <4>3 DEF j
      <4>5. f[i] \in Seq(R)
        BY <4>1
      <4>6. /\ f[i] \o seqs[i + 1] \in Seq(R)
            /\ Len(f[i] \o seqs[i + 1]) = Len(f[i]) + Len(seqs[i + 1])
        BY <3>2, <4>5, Joined
      <4>7. QED
        BY <3>3, <4>1, <4>4, <4>6
    <3>6. QED
      BY <3>4, <3>5
  <2> HIDE DEF T
  <2>6. n \in T
    BY <1>1, <2>4, <2>5, InductionOnNat
  <2>7. Ok(n)
    BY <1>1, <1>4, <2>6 DEF T
  <2>8. QED
    BY <2>1, <2>7 DEF n
<1>5. QED
  BY <1>3, <1>4

\* SetToSeq of a set of one element at most.
LEMMA SetToSeqOfOne ==
  ASSUME NEW S, NEW x, S = {} \/ S = {x}
  PROVE  /\ SetToSeq(S) \in Seq(S) /\ Len(SetToSeq(S)) <= 1
         /\ SetToSeq(S) = << >> <=> S = {}
<1> DEFINE c == Cardinality(S)
<1>1. c = IF S = {} THEN 0 ELSE 1
  BY FS_EmptySet, FS_Singleton
<1>2. \E f \in [1..c -> S] : IsInjective(f)
  <2>1. CASE S = {}
    <3>1. [i \in 1..c |-> x] \in [1..c -> S] /\ IsInjective([i \in 1..c |-> x])
      BY <1>1, <2>1 DEF IsInjective
    <3>2. QED
      BY <3>1
  <2>2. CASE S = {x}
    <3>1. [i \in 1..c |-> x] \in [1..c -> S] /\ IsInjective([i \in 1..c |-> x])
      BY <1>1, <2>2 DEF IsInjective
    <3>2. QED
      BY <3>1
  <2>3. QED
    BY <2>1, <2>2
<1>3. SetToSeq(S) \in [1..c -> S]
  BY <1>2 DEF SetToSeq
<1>4. QED
  BY <1>1, <1>3

-----------------------------------------------------------------------------
(* What the replay reads.                                                  *)

Messages == Trade \cup Odd

RowsOf(m) == [i \in DOMAIN m |-> SetToSeq(tradeToEntry(m[i]))]

LEMMA RowsCount ==
  ASSUME NEW m \in Seq(Messages)
  PROVE  /\ FlattenSeq(RowsOf(m)) \in Seq(Row)
         /\ Len(FlattenSeq(RowsOf(m))) = Cardinality({i \in 1..Len(m) : m[i] \in Trade})
         /\ Len(FlattenSeq(RowsOf(m))) <= Len(m)
<1> DEFINE seqs == RowsOf(m)
<1>1. DOMAIN m = 1..Len(m) /\ Len(m) \in Nat
  OBVIOUS
<1>2. ASSUME NEW i \in DOMAIN m
      PROVE  /\ seqs[i] \in Seq(Row) /\ Len(seqs[i]) <= 1
             /\ seqs[i] # << >> <=> m[i] \in Trade
  <2> DEFINE S == tradeToEntry(m[i])
             x == [trade |-> m[i], restored |-> TRUE]
  <2>1. S = IF m[i] \in Trade THEN {x} ELSE {}
    BY DEF tradeToEntry
  <2>2. S = {} \/ S = {x}
    BY <2>1
  <2>3. S \subseteq Row
    <3>1. m[i] \in Trade => x \in Row
      BY DEF Row
    <3>2. QED
      BY <2>1, <3>1
  <2>4. seqs[i] = SetToSeq(S)
    BY DEF RowsOf
  <2>5. S = {} <=> m[i] \notin Trade
    BY <2>1
  <2> HIDE DEF S, x
  <2>6. SetToSeq(S) \in Seq(S) /\ Len(SetToSeq(S)) <= 1 /\ (SetToSeq(S) = << >> <=> S = {})
    BY <2>2, SetToSeqOfOne
  <2>7. SetToSeq(S) \in Seq(Row)
    BY <2>3, <2>6
  <2>8. QED
    BY <2>4, <2>5, <2>6, <2>7
<1>3. DOMAIN seqs = 1..Len(m)
  BY <1>1 DEF RowsOf
<1>4. seqs \in Seq(Seq(Row)) /\ Len(seqs) = Len(m)
  <2>1. seqs = [i \in 1..Len(m) |-> seqs[i]]
    BY <1>1 DEF RowsOf
  <2> HIDE DEF seqs
  <2>2. seqs \in [1..Len(m) -> Seq(Row)]
    BY <1>1, <1>2, <2>1
  <2>3. QED
    BY <1>1, <2>2
<1>5. Filled(seqs, Len(seqs)) = {i \in 1..Len(m) : m[i] \in Trade}
  BY <1>1, <1>2, <1>4 DEF Filled
<1>6. \A i \in DOMAIN seqs : Len(seqs[i]) <= 1
  BY <1>1, <1>2, <1>3
<1> HIDE DEF seqs
<1>7. FlattenSeq(seqs) \in Seq(Row) /\ Len(FlattenSeq(seqs)) = Cardinality(Filled(seqs, Len(seqs)))
  BY <1>4, <1>6, FlattenCounts
<1>8. Cardinality(Filled(seqs, Len(seqs))) <= Len(m)
  BY <1>1, <1>4, FilledGrows
<1>9. QED
  BY <1>5, <1>7, <1>8 DEF seqs

Skipped(n) == IF HydrateLimit < n THEN n - HydrateLimit ELSE 0

LEMMA Window ==
  ASSUME NEW s \in Seq(Messages)
  PROVE  LET m == readTopicMessages(s) IN
         /\ m \in Seq(Messages) /\ Skipped(Len(s)) \in Nat
         /\ Len(m) = Len(s) - Skipped(Len(s)) /\ Len(m) <= HydrateLimit
         /\ \A i \in 1..Len(m) : /\ Skipped(Len(s)) + i \in 1..Len(s)
                                 /\ m[i] = s[Skipped(Len(s)) + i]
<1> DEFINE k == Skipped(Len(s))
           m == readTopicMessages(s)
<1>1. Len(s) \in Nat /\ HydrateLimit \in Nat
  BY LimitsAssumption
<1>2. k \in Nat /\ k <= Len(s) /\ Len(s) - k <= HydrateLimit
  BY <1>1 DEF Skipped
<1>3. m = SubSeq(s, k + 1, Len(s))
  BY <1>1 DEF readTopicMessages, Skipped
<1> HIDE DEF k, m
<1>4. m \in Seq(Messages) /\ Len(m) = Len(s) - k
  BY <1>1, <1>2, <1>3
<1>5. \A i \in 1..Len(m) : k + i \in 1..Len(s) /\ m[i] = s[k + i]
  BY <1>1, <1>2, <1>3, <1>4
<1>6. QED
  BY <1>2, <1>4, <1>5 DEF k, m

-----------------------------------------------------------------------------
(* The invariant of the feed.                                              *)

FeedTyped ==
  /\ replay \in {"off", "reading", "done"} /\ feedMishaps \in Nat
  /\ requestLog \in Seq(Row) /\ counted \in Nat
  /\ pendingSettles \in [SoldQuotes -> SUBSET Trade]
  /\ sold \in [Trade -> {"new", "served", "settled", "lost"}]
  /\ outbox \subseteq Trade /\ early \subseteq Trade /\ trades \in Seq(Messages)

\* The log is empty while there is no process, and as short as the code keeps
\* it until the replay adds its rows.
LogInv ==
  /\ replay = "off" => requestLog = << >>
  /\ replay = "reading" => Len(requestLog) <= LogLimit
  /\ FeedIsBounded

\* A call is published once, after it was served.
TopicInv ==
  /\ \A t \in OnLedger : sold[t] # "new"
  /\ \A i \in DOMAIN trades : trades[i] \notin outbox
  /\ \A i, j \in DOMAIN trades : trades[i] \in Trade /\ trades[i] = trades[j] => i = j

\* An entry waits alone, for the quote that it was billed at, after it was
\* served and before it is published.
WaitInv ==
  \A q \in SoldQuotes : \A e \in pendingSettles[q] :
    /\ pendingSettles[q] = {e} /\ BilledQuote[e] = q
    /\ sold[e] # "new" /\ e \notin OnLedger

\* Without mishaps nothing is counted or on its way while there is no process;
\* what is counted before the replay was read are the early entries, which are
\* all there is on its way; and what is counted then is what was published.
CountInv ==
  feedMishaps = 0 =>
    /\ replay = "off" => counted = 0 /\ outbox = {} /\ early = {}
    /\ replay = "reading" =>
         counted = Cardinality(early) /\ outbox \subseteq early /\ early \subseteq OnLedger
    /\ RevenueIsTheLedgers

FeedInv == FeedTyped /\ LogInv /\ TopicInv /\ WaitInv /\ CountInv

LEMMA LedgerIsFinite == IsFiniteSet(OnLedger) /\ Cardinality(OnLedger) \in Nat
BY TradesAssumption, FS_Subset, FS_CardinalityType DEF OnLedger

LEMMA TradesAreFinite ==
  ASSUME NEW S \in SUBSET Trade PROVE IsFiniteSet(S) /\ Cardinality(S) \in Nat
BY TradesAssumption, FS_Subset, FS_CardinalityType

OnTopic == {t \in Trade : \E i \in DOMAIN trades : trades[i] = t}

LEMMA QuotesOfTrades ==
  ASSUME NEW t \in Trade PROVE BilledQuote[t] \in SoldQuotes /\ PaidQuote[t] \in SoldQuotes
BY TradesAssumption

\* A step that publishes nothing, serves nothing and lets entries wait or go.
LEMMA LedgerRests ==
  ASSUME TopicInv, WaitInv, UNCHANGED <<outbox, trades>>,
         \A t \in Trade : sold[t] # "new" => sold'[t] # "new",
         pendingSettles \in [SoldQuotes -> SUBSET Trade],
         UNCHANGED pendingSettles \/ \A q \in SoldQuotes : pendingSettles'[q] = {}
  PROVE  OnLedger' = OnLedger /\ TopicInv' /\ WaitInv'
<1>1. OnLedger' = OnLedger /\ OnLedger \subseteq Trade
  BY DEF OnLedger
<1>2. TopicInv'
  BY <1>1 DEF TopicInv
<1>3. WaitInv'
  BY <1>1 DEF WaitInv
<1>4. QED
  BY <1>1, <1>2, <1>3

LEMMA FeedInvInit == FeedInit => FeedInv
<1> SUFFICES ASSUME FeedInit PROVE FeedInv
  OBVIOUS
<1>1. trades \in Seq(Messages) /\ \A i \in DOMAIN trades : i = 1 /\ trades[i] \in Odd
  <2>1. CASE trades = << >>
    BY <2>1
  <2>2. ASSUME NEW o \in Odd, trades = <<o>>
        PROVE  trades \in Seq(Messages) /\ \A i \in DOMAIN trades : i = 1 /\ trades[i] \in Odd
    BY <2>2 DEF Messages
  <2>3. QED
    BY <2>1, <2>2 DEF FeedInit
<1>2. FeedTyped
  BY <1>1 DEF FeedInit, FeedTyped
<1>3. Len(requestLog) = 0 /\ requestLog = << >>
  BY DEF FeedInit
<1>4. LogInv
  BY <1>3, LimitsAssumption DEF FeedInit, LogInv, FeedIsBounded
<1>5. OnLedger = {}
  BY <1>1, TradesAssumption DEF FeedInit, OnLedger
<1>6. TopicInv
  BY <1>1, <1>5, TradesAssumption DEF FeedInit, TopicInv
<1>7. WaitInv
  BY DEF FeedInit, WaitInv
<1>8. CountInv
  BY DEF FeedInit, CountInv, RevenueIsTheLedgers
<1>9. QED
  BY <1>2, <1>4, <1>6, <1>7, <1>8 DEF FeedInv

LEMMA FeedMishapCounts ==
  ASSUME feedMishaps \in Nat, NEW happened \in BOOLEAN, FeedMishap(happened)
  PROVE  /\ feedMishaps' \in Nat
         /\ feedMishaps' = 0 => feedMishaps = 0 /\ ~happened
BY DEF FeedMishap

\* pushRequest keeps the log within what it was, or within its limit.
LEMMA PushedIsShort ==
  ASSUME NEW log \in Seq(Row), NEW row \in Row
  PROVE  /\ Pushed(log, row) \in Seq(Row)
         /\ Len(Pushed(log, row)) <= LogLimit \/ Len(Pushed(log, row)) <= Len(log)
<1> DEFINE s == Append(log, row)
<1>1. s \in Seq(Row) /\ Len(s) = Len(log) + 1 /\ Len(log) \in Nat /\ s # << >>
  OBVIOUS
<1>2. LogLimit \in Nat
  BY LimitsAssumption
<1> HIDE DEF s
<1>3. Tail(s) \in Seq(Row) /\ Len(Tail(s)) = Len(log)
  BY <1>1
<1>4. Pushed(log, row) = IF Len(log) + 1 > LogLimit THEN Tail(s) ELSE s
  BY DEF Pushed, s
<1>5. QED
  BY <1>1, <1>2, <1>3, <1>4

LEMMA StartsKeeps ==
  ASSUME FeedInv, Starts
  PROVE  FeedInv'
<1>1. /\ replay = "off" /\ replay' = "reading"
      /\ UNCHANGED <<requestLog, pendingSettles, counted, sold, outbox, early, trades, feedMishaps>>
  BY DEF Starts
<1>2. FeedTyped'
  BY <1>1 DEF FeedInv, FeedTyped
<1>3. requestLog = << >>
  BY <1>1 DEF FeedInv, LogInv
<1>4. LogInv'
  BY <1>1, <1>3, LimitsAssumption DEF LogInv, FeedIsBounded
<1>5. OnLedger' = OnLedger /\ TopicInv' /\ WaitInv'
  BY <1>1, LedgerRests DEF FeedInv, FeedTyped
<1>6. CountInv'
  BY <1>1, FS_EmptySet DEF FeedInv, CountInv, RevenueIsTheLedgers
<1>7. QED
  BY <1>2, <1>4, <1>5, <1>6 DEF FeedInv

LEMMA TopicIsFinite == IsFiniteSet(OnTopic) /\ Cardinality(OnTopic) \in Nat
BY TradesAreFinite DEF OnTopic

\* The rows read back are published trades, each once; all of them when
\* the topic is not longer than the window.
LEMMA ReplayCounts ==
  ASSUME FeedTyped, TopicInv,
         NEW rows, rows = FlattenSeq(RowsOf(readTopicMessages(trades)))
  PROVE  /\ Len(rows) <= Cardinality(OnTopic)
         /\ Len(trades) <= HydrateLimit => Len(rows) = Cardinality(OnTopic)
<1> DEFINE m == readTopicMessages(trades)
           k == Skipped(Len(trades))
           P == {i \in 1..Len(m) : m[i] \in Trade}
           f == [i \in P |-> m[i]]
<1>1. trades \in Seq(Messages) /\ Len(trades) \in Nat /\ DOMAIN trades = 1..Len(trades)
      /\ HydrateLimit \in Nat
  BY LimitsAssumption DEF FeedTyped
<1>2. /\ m \in Seq(Messages) /\ k \in Nat /\ Len(m) = Len(trades) - k
      /\ \A i \in 1..Len(m) : k + i \in 1..Len(trades) /\ m[i] = trades[k + i]
  BY <1>1, Window
<1>3. k = 0 \/ HydrateLimit < Len(trades)
  BY DEF Skipped
<1> HIDE DEF m, k
<1>4. Len(rows) = Cardinality(P)
  BY <1>2, RowsCount DEF m
<1>5. \A i \in P : i \in Nat /\ k + i \in DOMAIN trades /\ m[i] = trades[k + i] /\ m[i] \in Trade
  BY <1>1, <1>2
<1>6. f \in [P -> OnTopic]
  BY <1>5 DEF OnTopic
<1>7. \A i, j \in P : m[i] = m[j] => i = j
  <2> SUFFICES ASSUME NEW i \in P, NEW j \in P, m[i] = m[j] PROVE i = j
    OBVIOUS
  <2>1. k + i = k + j
    BY <1>5 DEF TopicInv
  <2>2. QED
    BY <1>2, <1>5, <2>1
<1>8. f \in Injection(P, OnTopic)
  BY <1>6, <1>7 DEF Injection, IsInjective
<1>9. /\ Cardinality(P) <= Cardinality(OnTopic)
      /\ Cardinality(P) = Cardinality(OnTopic) <=> f \in Surjection(P, OnTopic)
  BY <1>8, TopicIsFinite, FS_Injection
<1>10. ASSUME Len(trades) <= HydrateLimit
       PROVE  f \in Surjection(P, OnTopic)
  <2>1. k = 0
    BY <1>1, <1>3, <1>10
  <2>2. ASSUME NEW t \in OnTopic PROVE \E i \in P : f[i] = t
    <3>1. PICK i \in DOMAIN trades : trades[i] = t
      BY <1>10 DEF OnTopic
    <3>2. i \in 1..Len(m) /\ m[i] = t
      BY <1>1, <1>2, <2>1, <3>1
    <3>3. i \in P
      BY <3>2 DEF OnTopic
    <3>4. QED
      BY <3>2, <3>3
  <2>3. QED
    BY <1>6, <2>2 DEF Surjection
<1> HIDE DEF P, f
<1>11. QED
  BY <1>4, <1>9, <1>10

LEMMA LedgerIsCovered ==
  ASSUME early \subseteq Trade, outbox \subseteq early
  PROVE  Cardinality(OnLedger) <= Cardinality(OnTopic) + Cardinality(early)
<1>1. OnLedger \subseteq OnTopic \cup early
  BY DEF OnLedger, OnTopic
<1>2. /\ IsFiniteSet(OnTopic) /\ IsFiniteSet(early) /\ IsFiniteSet(OnTopic \cup early)
      /\ Cardinality(OnTopic) \in Nat /\ Cardinality(early) \in Nat
      /\ Cardinality(OnTopic \cap early) \in Nat
  <2>1. OnTopic \cup early \in SUBSET Trade /\ OnTopic \cap early \in SUBSET Trade
    BY DEF OnTopic
  <2>2. QED
    BY <2>1, TradesAreFinite, TopicIsFinite
<1>3. Cardinality(OnLedger) <= Cardinality(OnTopic \cup early)
  BY <1>1, <1>2, FS_Subset
<1>4. Cardinality(OnTopic \cup early)
        = Cardinality(OnTopic) + Cardinality(early) - Cardinality(OnTopic \cap early)
  BY <1>2, FS_Union
<1>5. QED
  BY <1>2, <1>3, <1>4, LedgerIsFinite, TradesAreFinite

LEMMA ReplayedKeeps ==
  ASSUME FeedInv, Replayed
  PROVE  FeedInv'
<1> DEFINE rows(n) == FlattenSeq(RowsOf(readTopicMessages(SubSeq(trades, 1, n))))
<1>1. /\ replay = "reading" /\ replay' = "done"
      /\ UNCHANGED <<sold, pendingSettles, outbox, early, trades>>
  BY DEF Replayed
<1>2. PICK n \in 0..Len(trades) :
        /\ FeedMishap(n < Len(trades))
        /\ requestLog' = requestLog \o rows(n)
        /\ counted' = counted + Len(rows(n))
  BY DEF Replayed, RowsOf
<1>3. /\ trades \in Seq(Messages) /\ Len(trades) \in Nat /\ requestLog \in Seq(Row)
      /\ counted \in Nat /\ feedMishaps \in Nat
      /\ Len(requestLog) <= LogLimit /\ LogLimit \in Nat /\ HydrateLimit \in Nat
  BY <1>1, LimitsAssumption DEF FeedInv, FeedTyped, LogInv
<1>4. SubSeq(trades, 1, n) \in Seq(Messages)
  BY <1>3
<1> DEFINE s == SubSeq(trades, 1, n)
           m == readTopicMessages(s)
<1> HIDE DEF s
<1>5. m \in Seq(Messages) /\ Len(m) <= HydrateLimit
  BY <1>4, Window DEF s
<1> HIDE DEF m
<1>6. rows(n) \in Seq(Row) /\ Len(rows(n)) <= HydrateLimit /\ Len(rows(n)) \in Nat
  <2>1. /\ FlattenSeq(RowsOf(m)) \in Seq(Row)
        /\ Len(FlattenSeq(RowsOf(m))) <= Len(m)
    BY <1>5, RowsCount
  <2>2. Len(m) \in Nat /\ Len(FlattenSeq(RowsOf(m))) \in Nat
    BY <1>5, <2>1
  <2>3. rows(n) = FlattenSeq(RowsOf(m))
    BY DEF m, s
  <2> HIDE DEF rows
  <2>4. QED
    BY <1>3, <1>5, <2>1, <2>2, <2>3
<1>7. n = Len(trades) => rows(n) = FlattenSeq(RowsOf(readTopicMessages(trades)))
  <2>1. n = Len(trades) => SubSeq(trades, 1, n) = trades
    BY <1>3
  <2>2. QED
    BY <2>1
<1> DEFINE r == rows(n)
<1> HIDE DEF r
<1>8. /\ requestLog' = requestLog \o r /\ counted' = counted + Len(r)
      /\ r \in Seq(Row) /\ Len(r) <= HydrateLimit /\ Len(r) \in Nat
      /\ n = Len(trades) => r = FlattenSeq(RowsOf(readTopicMessages(trades)))
  BY <1>2, <1>6, <1>7 DEF r
<1>9. requestLog' \in Seq(Row) /\ Len(requestLog') = Len(requestLog) + Len(r)
  BY <1>3, <1>8, Joined
<1>10. feedMishaps' \in Nat /\ (feedMishaps' = 0 => feedMishaps = 0 /\ n = Len(trades))
  <2>1. feedMishaps' \in Nat /\ (feedMishaps' = 0 => feedMishaps = 0 /\ ~(n < Len(trades)))
    BY <1>2, <1>3 DEF FeedMishap
  <2>2. QED
    BY <1>3, <2>1
<1>11. FeedTyped'
  BY <1>1, <1>3, <1>8, <1>9, <1>10 DEF FeedInv, FeedTyped
<1>17. OnLedger' = OnLedger /\ TopicInv' /\ WaitInv'
  BY <1>1, LedgerRests DEF FeedInv, FeedTyped
<1>12. LogInv'
  BY <1>1, <1>3, <1>8, <1>9 DEF LogInv, FeedIsBounded
<1>14. ASSUME feedMishaps' = 0 PROVE CountInv'
  <2>1. counted = Cardinality(early) /\ outbox \subseteq early /\ early \subseteq Trade
    BY <1>1, <1>10, <1>14 DEF FeedInv, FeedTyped, CountInv
  <2>2. /\ Len(r) <= Cardinality(OnTopic)
        /\ Len(trades) <= HydrateLimit => Len(r) = Cardinality(OnTopic)
    BY <1>8, <1>10, <1>14, ReplayCounts DEF FeedInv
  <2>3. Cardinality(OnTopic) <= Cardinality(OnLedger)
    <3>1. OnTopic \subseteq OnLedger
      BY DEF OnTopic, OnLedger
    <3>2. QED
      BY <3>1, LedgerIsFinite, FS_Subset
  <2>4. Cardinality(OnLedger) <= Cardinality(OnTopic) + Cardinality(early)
    BY <2>1, LedgerIsCovered
  <2>5. Cardinality(early) \in Nat /\ Cardinality(OnTopic) \in Nat /\ Cardinality(OnLedger) \in Nat
    BY <2>1, TradesAreFinite, TopicIsFinite, LedgerIsFinite
  <2>6. counted' = Cardinality(early) + Len(r) /\ early' = early /\ OnLedger' = OnLedger
    BY <1>1, <1>8, <1>17, <2>1
  <2>7. RevenueIsTheLedgers'
    BY <1>1, <1>8, <2>2, <2>3, <2>4, <2>5, <2>6 DEF RevenueIsTheLedgers
  <2>8. QED
    BY <1>1, <2>7 DEF CountInv
<1>15. CountInv'
  BY <1>14 DEF CountInv
<1>16. QED
  BY <1>11, <1>12, <1>15, <1>17 DEF FeedInv

LEMMA ReplayFailsKeeps ==
  ASSUME FeedInv, ReplayFails
  PROVE  FeedInv'
<1>1. /\ replay = "reading" /\ replay' = "done" /\ FeedMishap(trades # << >>)
      /\ UNCHANGED <<requestLog, pendingSettles, counted, sold, outbox, early, trades>>
  BY DEF ReplayFails
<1>2. feedMishaps' \in Nat /\ (feedMishaps' = 0 => feedMishaps = 0 /\ trades = << >>)
  BY <1>1, FeedMishapCounts DEF FeedInv, FeedTyped
<1>3. FeedTyped'
  BY <1>1, <1>2 DEF FeedInv, FeedTyped
<1>4. LogInv'
  BY <1>1 DEF FeedInv, LogInv, FeedIsBounded
<1>5. OnLedger' = OnLedger /\ TopicInv' /\ WaitInv'
  BY <1>1, LedgerRests DEF FeedInv, FeedTyped
<1>6. ASSUME feedMishaps' = 0 PROVE CountInv'
  <2>1. counted = Cardinality(early) /\ outbox \subseteq early /\ early \subseteq Trade
    BY <1>1, <1>2, <1>6 DEF FeedInv, FeedTyped, CountInv
  <2>2. DOMAIN trades = {}
    BY <1>2, <1>6
  <2>3. OnLedger \subseteq early
    BY <2>1, <2>2 DEF OnLedger
  <2>4. Cardinality(OnLedger) <= Cardinality(early)
    BY <2>1, <2>3, TradesAreFinite, FS_Subset
  <2>5. Cardinality(early) \in Nat /\ Cardinality(OnLedger) \in Nat
    BY <2>1, TradesAreFinite, LedgerIsFinite
  <2>6. RevenueIsTheLedgers'
    BY <1>1, <1>5, <2>1, <2>4, <2>5 DEF RevenueIsTheLedgers
  <2>7. QED
    BY <1>1, <2>6 DEF CountInv
<1>7. CountInv'
  BY <1>6 DEF CountInv
<1>8. QED
  BY <1>3, <1>4, <1>5, <1>7 DEF FeedInv

LEMMA ServesKeeps ==
  ASSUME FeedInv, NEW t \in Trade, Serves(t)
  PROVE  FeedInv'
<1>1. /\ replay # "off" /\ sold[t] = "new" /\ sold' = [sold EXCEPT ![t] = "served"]
      /\ pendingSettles' = [pendingSettles EXCEPT ![BilledQuote[t]] = {t}]
      /\ requestLog' = Pushed(requestLog, Live(t))
      /\ UNCHANGED <<replay, counted, outbox, early, trades, feedMishaps>>
  BY DEF Serves
<1>2. Live(t) \in Row
  BY DEF Live, Row
<1>3. /\ requestLog' \in Seq(Row) /\ Len(requestLog) \in Nat /\ Len(requestLog') \in Nat
      /\ Len(requestLog') <= LogLimit \/ Len(requestLog') <= Len(requestLog)
  BY <1>1, <1>2, PushedIsShort DEF FeedInv, FeedTyped
<1>4. LogInv'
  BY <1>1, <1>3, LimitsAssumption DEF FeedInv, LogInv, FeedIsBounded
<1>5. /\ sold' \in [Trade -> {"new", "served", "settled", "lost"}] /\ sold'[t] # "new"
      /\ \A s \in Trade : sold[s] # "new" => sold'[s] # "new"
  BY <1>1 DEF FeedInv, FeedTyped
<1>6. /\ pendingSettles' \in [SoldQuotes -> SUBSET Trade]
      /\ pendingSettles'[BilledQuote[t]] = {t}
      /\ \A q \in SoldQuotes : q # BilledQuote[t] => pendingSettles'[q] = pendingSettles[q]
  BY <1>1, QuotesOfTrades DEF FeedInv, FeedTyped
<1>7. FeedTyped'
  BY <1>1, <1>3, <1>5, <1>6 DEF FeedInv, FeedTyped
<1>8. OnLedger' = OnLedger /\ OnLedger \subseteq Trade
  BY <1>1 DEF OnLedger
<1>9. TopicInv'
  BY <1>1, <1>5, <1>8 DEF FeedInv, TopicInv
<1>10. t \notin OnLedger
  BY <1>1 DEF FeedInv, TopicInv
<1>11. WaitInv'
  <2>1. ASSUME NEW q \in SoldQuotes, NEW e \in pendingSettles'[q]
        PROVE  /\ pendingSettles'[q] = {e} /\ BilledQuote[e] = q
               /\ sold'[e] # "new" /\ e \notin OnLedger'
    <3>1. CASE q = BilledQuote[t]
      BY <1>5, <1>6, <1>8, <1>10, <2>1, <3>1
    <3>2. CASE q # BilledQuote[t]
      <4>1. e \in pendingSettles[q] /\ e \in Trade /\ pendingSettles'[q] = pendingSettles[q]
        BY <1>6, <2>1, <3>2
      <4>2. QED
        BY <1>5, <1>8, <4>1 DEF FeedInv, WaitInv
    <3>3. QED
      BY <3>1, <3>2
  <2>2. QED
    BY <2>1 DEF WaitInv
<1>12. CountInv'
  BY <1>1, <1>8 DEF FeedInv, CountInv, RevenueIsTheLedgers
<1>13. QED
  BY <1>4, <1>7, <1>9, <1>11, <1>12 DEF FeedInv

\* What the hook finds: nothing, or one entry that is not published yet.
LEMMA OneWaits ==
  ASSUME FeedInv, NEW t \in Trade
  PROVE  /\ WaitingFor(PaidQuote[t]) \subseteq Trade
         /\ \A e \in WaitingFor(PaidQuote[t]) :
              /\ WaitingFor(PaidQuote[t]) = {e}
              /\ BilledQuote[e] = PaidQuote[t] /\ sold[e] # "new" /\ e \notin OnLedger
<1> DEFINE q == PaidQuote[t]
<1>1. q \in SoldQuotes /\ pendingSettles[q] \subseteq Trade
  BY QuotesOfTrades DEF FeedInv, FeedTyped
<1>2. WaitingFor(q) \subseteq pendingSettles[q]
  BY DEF WaitingFor
<1> HIDE DEF q
<1>3. ASSUME NEW e \in WaitingFor(q)
      PROVE  /\ pendingSettles[q] = {e}
             /\ BilledQuote[e] = q /\ sold[e] # "new" /\ e \notin OnLedger
  BY <1>1, <1>2, <1>3 DEF FeedInv, WaitInv
<1>4. ASSUME NEW e \in WaitingFor(q) PROVE WaitingFor(q) = {e}
  BY <1>2, <1>3, <1>4
<1>5. QED
  BY <1>1, <1>2, <1>3, <1>4 DEF q

LEMMA TradeSettlesKeeps ==
  ASSUME FeedInv, NEW t \in Trade, Settles(t)
  PROVE  FeedInv'
<1> DEFINE found == WaitingFor(PaidQuote[t])
<1>1. PICK entry : entry = found
  OBVIOUS
<1>2. /\ replay # "off" /\ sold[t] = "served" /\ sold' = [sold EXCEPT ![t] = "settled"]
      /\ FeedMishap(entry = {})
      /\ early' = IF replay = "reading" THEN early \cup entry ELSE early
      /\ counted' = counted + 1 /\ outbox' = outbox \cup entry
      /\ pendingSettles' = [pendingSettles EXCEPT ![PaidQuote[t]] = {}]
      /\ UNCHANGED <<replay, requestLog, trades>>
  BY <1>1 DEF Settles, Accrues
<1>3. /\ entry \subseteq Trade
      /\ \A e \in entry : /\ entry = {e} /\ BilledQuote[e] = PaidQuote[t]
                          /\ sold[e] # "new" /\ e \notin OnLedger
  BY <1>1, OneWaits
<1> HIDE DEF found
<1>4. /\ feedMishaps' \in Nat
      /\ feedMishaps' = 0 => feedMishaps = 0 /\ entry # {}
  BY <1>2, FeedMishapCounts DEF FeedInv, FeedTyped
<1>5. /\ sold' \in [Trade -> {"new", "served", "settled", "lost"}]
      /\ \A s \in Trade : sold[s] # "new" => sold'[s] # "new"
  BY <1>2 DEF FeedInv, FeedTyped
<1>6. /\ pendingSettles' \in [SoldQuotes -> SUBSET Trade]
      /\ pendingSettles'[PaidQuote[t]] = {}
      /\ \A q \in SoldQuotes : q # PaidQuote[t] => pendingSettles'[q] = pendingSettles[q]
  BY <1>2, QuotesOfTrades DEF FeedInv, FeedTyped
<1>7. FeedTyped'
  BY <1>2, <1>3, <1>4, <1>5, <1>6 DEF FeedInv, FeedTyped
<1>8. OnLedger' = OnLedger \cup entry /\ OnLedger \subseteq Trade
  BY <1>2, <1>3 DEF OnLedger
<1>9. \A i \in DOMAIN trades : trades[i] \notin entry
  BY <1>3 DEF OnLedger
<1>10. TopicInv'
  <2>1. \A s \in OnLedger' : sold'[s] # "new"
    BY <1>3, <1>5, <1>8 DEF FeedInv, TopicInv
  <2>2. \A i \in DOMAIN trades' : trades'[i] \notin outbox'
    BY <1>2, <1>9 DEF FeedInv, TopicInv
  <2>3. \A i, j \in DOMAIN trades' : trades'[i] \in Trade /\ trades'[i] = trades'[j] => i = j
    BY <1>2 DEF FeedInv, TopicInv
  <2>4. QED
    BY <2>1, <2>2, <2>3 DEF TopicInv
<1>11. WaitInv'
  <2>1. ASSUME NEW q \in SoldQuotes, NEW e \in pendingSettles'[q]
        PROVE  /\ pendingSettles'[q] = {e} /\ BilledQuote[e] = q
               /\ sold'[e] # "new" /\ e \notin OnLedger'
    <3>1. q # PaidQuote[t] /\ pendingSettles'[q] = pendingSettles[q]
      BY <1>6, <2>1
    <3>2. e \in pendingSettles[q] /\ e \in Trade
      BY <1>6, <2>1, <3>1
    <3>3. /\ pendingSettles[q] = {e} /\ BilledQuote[e] = q
          /\ sold[e] # "new" /\ e \notin OnLedger
      BY <3>2 DEF FeedInv, WaitInv
    <3>4. e \notin entry
      BY <1>3, <3>1, <3>3
    <3>5. QED
      BY <1>5, <1>8, <3>1, <3>2, <3>3, <3>4
  <2>2. QED
    BY <2>1 DEF WaitInv
<1>12. LogInv'
  BY <1>2 DEF FeedInv, LogInv, FeedIsBounded
<1>13. ASSUME feedMishaps' = 0 PROVE CountInv'
  <2>1. feedMishaps = 0 /\ entry # {}
    BY <1>4, <1>13
  <2>2. PICK e \in entry : entry = {e} /\ e \notin OnLedger
    BY <1>3, <2>1
  <2>3. Cardinality(OnLedger') = Cardinality(OnLedger) + 1 /\ Cardinality(OnLedger) \in Nat
    BY <1>8, <2>2, LedgerIsFinite, FS_AddElement
  <2>4. early \in SUBSET Trade /\ counted \in Nat /\ Cardinality(early) \in Nat
    BY TradesAreFinite DEF FeedInv, FeedTyped
  <2>5. CASE replay = "reading"
    <3>1. counted = Cardinality(early) /\ outbox \subseteq early /\ early \subseteq OnLedger
      BY <2>1, <2>5 DEF FeedInv, CountInv
    <3>2. early' = early \cup {e} /\ e \notin early
      BY <1>2, <2>2, <2>5, <3>1
    <3>3. Cardinality(early') = Cardinality(early) + 1
      BY <2>4, <3>2, TradesAreFinite, FS_AddElement
    <3>4. counted' = Cardinality(early') /\ outbox' \subseteq early' /\ early' \subseteq OnLedger'
      BY <1>2, <1>8, <2>2, <3>1, <3>2, <3>3
    <3>5. QED
      BY <1>2, <2>5, <3>4 DEF CountInv, RevenueIsTheLedgers
  <2>6. CASE replay = "done"
    <3>1. /\ counted <= Cardinality(OnLedger) + Cardinality(early)
          /\ Len(trades) <= HydrateLimit => Cardinality(OnLedger) <= counted
      BY <2>1, <2>6 DEF FeedInv, CountInv, RevenueIsTheLedgers
    <3>2. early' = early
      BY <1>2, <2>6
    <3>3. RevenueIsTheLedgers'
      BY <1>2, <2>3, <2>4, <3>1, <3>2 DEF RevenueIsTheLedgers
    <3>4. QED
      BY <1>2, <2>6, <3>3 DEF CountInv
  <2>7. QED
    BY <1>2, <2>5, <2>6 DEF FeedInv, FeedTyped
<1>14. CountInv'
  BY <1>13 DEF CountInv
<1>15. QED
  BY <1>7, <1>10, <1>11, <1>12, <1>14 DEF FeedInv

LEMMA PublishedKeeps ==
  ASSUME FeedInv, NEW t \in Trade, TradePublished(t)
  PROVE  FeedInv'
<1>1. /\ t \in outbox /\ outbox' = outbox \ {t}
      /\ UNCHANGED <<replay, requestLog, pendingSettles, counted, sold, early>>
  BY DEF TradePublished
<1>2. /\ trades \in Seq(Messages) /\ outbox \subseteq Trade
      /\ \A i \in DOMAIN trades : trades[i] # t
  BY <1>1 DEF FeedInv, FeedTyped, TopicInv
<1>3. LogInv'
  BY <1>1 DEF FeedInv, LogInv, FeedIsBounded
<1>4. CASE trades' = Append(trades, t) /\ UNCHANGED feedMishaps
  <2>1. /\ trades' \in Seq(Messages) /\ Len(trades') = Len(trades) + 1 /\ Len(trades) \in Nat
        /\ \A i \in DOMAIN trades' :
             \/ i \in DOMAIN trades /\ trades'[i] = trades[i]
             \/ i = Len(trades) + 1 /\ trades'[i] = t
        /\ \A i \in DOMAIN trades : i \in DOMAIN trades' /\ trades'[i] = trades[i]
        /\ Len(trades) + 1 \in DOMAIN trades' /\ trades'[Len(trades) + 1] = t
    BY <1>2, <1>4 DEF Messages
  <2>2. FeedTyped'
    BY <1>1, <1>4, <2>1 DEF FeedInv, FeedTyped
  <2>3. OnLedger' = OnLedger
    BY <1>1, <1>2, <2>1 DEF OnLedger
  <2>4. TopicInv'
    <3>1. \A s \in OnLedger' : sold'[s] # "new"
      BY <1>1, <2>3 DEF FeedInv, TopicInv
    <3>2. \A i \in DOMAIN trades' : trades'[i] \notin outbox'
      BY <1>1, <1>2, <2>1 DEF FeedInv, TopicInv
    <3>3. \A i, j \in DOMAIN trades' : trades'[i] \in Trade /\ trades'[i] = trades'[j] => i = j
      BY <1>2, <2>1 DEF FeedInv, TopicInv
    <3>4. QED
      BY <3>1, <3>2, <3>3 DEF TopicInv
  <2>5. WaitInv'
    BY <1>1, <2>3 DEF FeedInv, WaitInv
  <2>6. ASSUME feedMishaps' = 0 PROVE CountInv'
    <3>1. feedMishaps = 0 /\ replay # "off"
      BY <1>1, <1>4, <2>6 DEF FeedInv, CountInv
    <3>2. Len(trades') <= HydrateLimit => Len(trades) <= HydrateLimit
      BY <2>1, LimitsAssumption
    <3>3. RevenueIsTheLedgers'
      BY <1>1, <2>3, <3>1, <3>2 DEF FeedInv, CountInv, RevenueIsTheLedgers
    <3>4. replay = "reading" =>
            counted = Cardinality(early) /\ outbox' \subseteq early /\ early \subseteq OnLedger'
      BY <1>1, <2>3, <3>1 DEF FeedInv, CountInv
    <3>5. QED
      BY <1>1, <3>1, <3>3, <3>4 DEF CountInv
  <2>7. CountInv'
    BY <2>6 DEF CountInv
  <2>8. QED
    BY <1>3, <2>2, <2>4, <2>5, <2>7 DEF FeedInv
<1>5. CASE FeedMishap(TRUE) /\ UNCHANGED trades
  <2>1. feedMishaps' \in Nat /\ feedMishaps' # 0
    BY <1>5, FeedMishapCounts DEF FeedInv, FeedTyped
  <2>2. FeedTyped'
    BY <1>1, <1>5, <2>1 DEF FeedInv, FeedTyped
  <2>3. OnLedger' \subseteq OnLedger /\ outbox' \subseteq outbox
    BY <1>1, <1>5 DEF OnLedger
  <2>4. TopicInv'
    BY <1>1, <1>5, <2>3 DEF FeedInv, TopicInv
  <2>5. WaitInv'
    BY <1>1, <2>3 DEF FeedInv, WaitInv
  <2>6. CountInv'
    BY <2>1 DEF CountInv
  <2>7. QED
    BY <1>3, <2>2, <2>4, <2>5, <2>6 DEF FeedInv
<1>6. QED
  BY <1>4, <1>5 DEF TradePublished

LEMMA EndsKeeps ==
  ASSUME FeedInv, Ends
  PROVE  FeedInv'
<1>1. /\ replay' = "off" /\ requestLog' = << >> /\ counted' = 0 /\ outbox' = {} /\ early' = {}
      /\ pendingSettles' = [q \in SoldQuotes |-> {}]
      /\ sold' = [t \in Trade |-> IF sold[t] = "served" THEN "lost" ELSE sold[t]]
      /\ FeedMishap(outbox # {} \/ replay = "reading") /\ UNCHANGED trades
  BY DEF Ends
<1>2. feedMishaps' \in Nat /\ (feedMishaps' = 0 => feedMishaps = 0 /\ outbox = {})
  BY <1>1, FeedMishapCounts DEF FeedInv, FeedTyped
<1>3. /\ sold' \in [Trade -> {"new", "served", "settled", "lost"}]
      /\ \A t \in Trade : sold[t] # "new" => sold'[t] # "new"
  BY <1>1 DEF FeedInv, FeedTyped
<1>4. requestLog' \in Seq(Row) /\ Len(requestLog') = 0
  BY <1>1
<1>5. FeedTyped'
  BY <1>1, <1>2, <1>3, <1>4 DEF FeedInv, FeedTyped
<1>6. LogInv'
  BY <1>1, <1>4, LimitsAssumption DEF LogInv, FeedIsBounded
<1>7. OnLedger' \subseteq OnLedger /\ OnLedger \subseteq Trade
  BY <1>1 DEF OnLedger
<1>8. TopicInv'
  BY <1>1, <1>3, <1>7 DEF FeedInv, TopicInv
<1>9. WaitInv'
  BY <1>1 DEF WaitInv
<1>10. CountInv'
  BY <1>1 DEF CountInv, RevenueIsTheLedgers
<1>11. QED
  BY <1>5, <1>6, <1>8, <1>9, <1>10 DEF FeedInv

LEMMA FeedInvStep == FeedInv /\ [FeedNext]_feedVars => FeedInv'
<1> SUFFICES ASSUME FeedInv, [FeedNext]_feedVars PROVE FeedInv'
  OBVIOUS
<1>1. CASE UNCHANGED <<replay, requestLog, pendingSettles, counted, sold, outbox, early, trades,
                       feedMishaps>>
  <2>1. OnLedger' = OnLedger
    BY <1>1 DEF OnLedger
  <2>2. QED
    BY <1>1, <2>1 DEF FeedInv, FeedTyped, LogInv, TopicInv, WaitInv, CountInv, FeedIsBounded,
                      RevenueIsTheLedgers
<1>2. ASSUME NEW t \in Trade, Serves(t) \/ Settles(t) \/ TradePublished(t) \/ RecordVerdict(t)
      PROVE  FeedInv'
  BY <1>1, <1>2, ServesKeeps, TradeSettlesKeeps, PublishedKeeps DEF RecordVerdict
<1>3. CASE Starts \/ Replayed \/ ReplayFails \/ Ends
  BY <1>3, StartsKeeps, ReplayedKeeps, ReplayFailsKeeps, EndsKeeps
<1>4. QED
  BY <1>1, <1>2, <1>3 DEF FeedNext, feedVars

LEMMA FeedInvAlways == FeedSpec => []FeedInv
BY FeedInvInit, FeedInvStep, PTL DEF FeedSpec

\* The log holds at most REQUEST_LOG_LIMIT rows and a replay's on top, however
\* long the process serves and however often it starts (hydrate.ts:95 against
\* state.ts:68).
THEOREM FeedStaysBounded == FeedSpec => []FeedIsBounded
<1>1. FeedInv => FeedIsBounded
  BY DEF FeedInv, LogInv
<1>2. QED
  BY <1>1, FeedInvAlways, PTL

\* Whoever shares a quote, and however often the process restarts: where nothing
\* failed and every settlement found an entry, the revenue shown counts every
\* published trade, up to the HYDRATE_LIMIT messages that a restart reads back, and
\* none twice but those published while it was reading (hydrate.ts:9-11, index.ts:71).
THEOREM RevenueStaysTheLedgers == FeedSpec => []RevenueIsTheLedgers
<1>1. FeedInv => RevenueIsTheLedgers
  BY DEF FeedInv, CountInv, RevenueIsTheLedgers
<1>2. QED
  BY <1>1, FeedInvAlways, PTL

-----------------------------------------------------------------------------
(* The verdicts.                                                           *)

\* The calls with a verdict, on the chain or on its way there.
Judged == toChain \cup {e \in Trade : \E i \in DOMAIN verdicts : verdicts[i] = e}

PaidFor(e) == \E t \in Settled : PaidQuote[t] = BilledQuote[e]

\* A call gets its verdict when it stops waiting, from a settlement of its quote.
VerdictInv ==
  /\ toChain \subseteq Trade /\ verdicts \in Seq(Trade) /\ IsInjective(verdicts)
  /\ \A e \in toChain : \A i \in DOMAIN verdicts : verdicts[i] # e
  /\ \A e \in Judged : /\ sold[e] # "new" /\ PaidFor(e)
                       /\ \A q \in SoldQuotes : e \notin pendingSettles[q]

LEMMA VerdictInit == FeedInit => VerdictInv
<1> SUFFICES ASSUME FeedInit PROVE VerdictInv
  OBVIOUS
<1>1. verdicts = << >> /\ toChain = {}
  BY DEF FeedInit
<1>2. verdicts \in Seq(Trade) /\ DOMAIN verdicts = {}
  BY <1>1
<1>3. QED
  BY <1>1, <1>2 DEF VerdictInv, Judged, IsInjective

\* A settled trade stays settled, whatever happens.
LEMMA PaidForStays ==
  ASSUME FeedTyped, \A t \in Trade : sold[t] = "settled" => sold'[t] = "settled",
         NEW e, PaidFor(e)
  PROVE  PaidFor(e)'
<1>1. PICK t \in Settled : PaidQuote[t] = BilledQuote[e]
  BY DEF PaidFor
<1>2. t \in Settled'
  BY <1>1 DEF Settled
<1>3. QED
  BY <1>1, <1>2 DEF PaidFor

\* A step that sends and mines nothing, unsettles no trade and makes none wait
\* that was served before.
LEMMA VerdictsRest ==
  ASSUME FeedInv, VerdictInv, UNCHANGED <<toChain, verdicts>>,
         \A t \in Trade : sold[t] = "settled" => sold'[t] = "settled",
         \A t \in Trade : sold[t] # "new" => sold'[t] # "new",
         \A q \in SoldQuotes : \A e \in pendingSettles'[q] :
           e \in pendingSettles[q] \/ sold[e] = "new"
  PROVE  VerdictInv'
<1>1. Judged' = Judged /\ Judged \subseteq Trade
  BY DEF VerdictInv, Judged
<1>2. ASSUME NEW e \in Judged
      PROVE  /\ sold'[e] # "new" /\ PaidFor(e)'
             /\ \A q \in SoldQuotes : e \notin pendingSettles'[q]
  <2>1. sold[e] # "new" /\ PaidFor(e) /\ \A q \in SoldQuotes : e \notin pendingSettles[q]
    BY <1>2 DEF VerdictInv
  <2>2. PaidFor(e)'
    BY <2>1, PaidForStays DEF FeedInv
  <2>3. QED
    BY <1>1, <2>1, <2>2
<1>3. QED
  BY <1>1, <1>2 DEF VerdictInv, IsInjective

LEMMA SettlesKeeps ==
  ASSUME FeedInv, VerdictInv, NEW t \in Trade, Settles(t)
  PROVE  VerdictInv'
<1> DEFINE found == WaitingFor(PaidQuote[t])
<1>1. PICK entry : entry = found
  OBVIOUS
<1>2. /\ sold[t] = "served" /\ sold' = [sold EXCEPT ![t] = "settled"] /\ UNCHANGED verdicts
      /\ toChain' = toChain \cup (entry \cap FromZeroG)
      /\ pendingSettles' = [pendingSettles EXCEPT ![PaidQuote[t]] = {}]
  BY <1>1 DEF Settles, Accrues
<1>3. /\ entry \subseteq Trade
      /\ \A e \in entry : BilledQuote[e] = PaidQuote[t] /\ sold[e] # "new"
  BY <1>1, OneWaits
<1>4. \A e \in entry : e \in pendingSettles[PaidQuote[t]]
  BY <1>1 DEF WaitingFor
<1> HIDE DEF found
<1>5. /\ \A s \in Trade : sold[s] = "settled" => sold'[s] = "settled"
      /\ \A s \in Trade : sold[s] # "new" => sold'[s] # "new"
      /\ sold'[t] = "settled"
  BY <1>2 DEF FeedInv, FeedTyped
<1>6. PaidQuote[t] \in SoldQuotes /\ pendingSettles \in [SoldQuotes -> SUBSET Trade]
  BY QuotesOfTrades DEF FeedInv, FeedTyped
<1>7. \A e \in entry : e \notin Judged
  BY <1>4, <1>6 DEF VerdictInv
<1>8. toChain' \subseteq toChain \cup entry /\ Judged' \subseteq Judged \cup entry
  BY <1>2 DEF Judged
<1>9. \A e \in toChain' : \A i \in DOMAIN verdicts' : verdicts'[i] # e
  <2>1. \A e \in entry : \A i \in DOMAIN verdicts : verdicts[i] # e
    BY <1>3, <1>7 DEF Judged
  <2>2. QED
    BY <1>2, <1>8, <2>1 DEF VerdictInv
<1>10. Judged \subseteq Trade /\ toChain' \subseteq Trade
  BY <1>3, <1>8 DEF VerdictInv, Judged
<1>11. ASSUME NEW e \in Judged'
       PROVE  /\ sold'[e] # "new" /\ PaidFor(e)'
              /\ \A q \in SoldQuotes : e \notin pendingSettles'[q]
  <2>1. CASE e \in Judged
    <3>1. sold[e] # "new" /\ PaidFor(e) /\ \A q \in SoldQuotes : e \notin pendingSettles[q]
      BY <2>1 DEF VerdictInv
    <3>2. PaidFor(e)'
      BY <1>5, <3>1, PaidForStays DEF FeedInv
    <3>3. QED
      BY <1>2, <1>5, <1>6, <1>10, <2>1, <3>1, <3>2
  <2>2. CASE e \in entry
    <3>1. BilledQuote[e] = PaidQuote[t] /\ sold'[e] # "new"
      BY <1>3, <1>5, <2>2
    <3>2. t \in Settled'
      BY <1>5 DEF Settled
    <3>3. PaidFor(e)'
      BY <3>1, <3>2 DEF PaidFor
    <3>4. \A q \in SoldQuotes : e \in pendingSettles[q] => q = PaidQuote[t]
      BY <3>1 DEF FeedInv, WaitInv
    <3>5. QED
      BY <1>2, <1>6, <3>1, <3>3, <3>4
  <2>3. QED
    BY <1>8, <1>11, <2>1, <2>2
<1>12. QED
  BY <1>2, <1>9, <1>10, <1>11 DEF VerdictInv, IsInjective

LEMMA RecordVerdictKeeps ==
  ASSUME FeedInv, VerdictInv, NEW t \in Trade, RecordVerdict(t)
  PROVE  VerdictInv'
<1>1. /\ t \in toChain /\ toChain' = toChain \ {t} /\ UNCHANGED <<sold, pendingSettles>>
      /\ verdicts' = verdicts \/ verdicts' = Append(verdicts, t)
  BY DEF RecordVerdict, recordVerdict
<1>2. verdicts \in Seq(Trade) /\ \A i \in DOMAIN verdicts : verdicts[i] # t
  BY <1>1 DEF VerdictInv
<1>3. /\ verdicts' \in Seq(Trade)
      /\ \A i \in DOMAIN verdicts' :
           (i \in DOMAIN verdicts /\ verdicts'[i] = verdicts[i])
           \/ (i = Len(verdicts) + 1 /\ verdicts'[i] = t)
  BY <1>1, <1>2
<1>4. \A i, j \in DOMAIN verdicts' : verdicts'[i] = verdicts'[j] => i = j
  BY <1>2, <1>3 DEF VerdictInv, IsInjective
<1>5. Judged' \subseteq Judged
  BY <1>1, <1>3 DEF Judged
<1>6. Settled' = Settled
  BY <1>1 DEF Settled
<1>7. \A e \in Judged' : /\ sold'[e] # "new" /\ PaidFor(e)'
                         /\ \A q \in SoldQuotes : e \notin pendingSettles'[q]
  BY <1>1, <1>5, <1>6 DEF VerdictInv, PaidFor
<1>8. \A e \in toChain' : \A i \in DOMAIN verdicts' : verdicts'[i] # e
  BY <1>1, <1>3 DEF VerdictInv
<1>9. IsInjective(verdicts')
  BY <1>4 DEF IsInjective
<1>10. QED
  BY <1>1, <1>3, <1>7, <1>8, <1>9 DEF VerdictInv

LEMMA VerdictStep == FeedInv /\ VerdictInv /\ [FeedNext]_feedVars => VerdictInv'
<1> SUFFICES ASSUME FeedInv, VerdictInv, [FeedNext]_feedVars PROVE VerdictInv'
  OBVIOUS
<1>1. CASE UNCHANGED <<sold, pendingSettles, toChain, verdicts>>
  BY <1>1, VerdictsRest
<1>2. ASSUME NEW t \in Trade, Serves(t) PROVE VerdictInv'
  <2>1. /\ sold[t] = "new" /\ sold' = [sold EXCEPT ![t] = "served"]
        /\ pendingSettles' = [pendingSettles EXCEPT ![BilledQuote[t]] = {t}]
        /\ UNCHANGED <<toChain, verdicts>>
    BY <1>2 DEF Serves
  <2>2. /\ \A s \in Trade : sold[s] = "settled" => sold'[s] = "settled"
        /\ \A s \in Trade : sold[s] # "new" => sold'[s] # "new"
    BY <2>1 DEF FeedInv, FeedTyped
  <2>3. \A q \in SoldQuotes : \A e \in pendingSettles'[q] :
          e \in pendingSettles[q] \/ sold[e] = "new"
    BY <2>1 DEF FeedInv, FeedTyped
  <2>4. QED
    BY <2>1, <2>2, <2>3, VerdictsRest
<1>3. ASSUME NEW t \in Trade, Settles(t) PROVE VerdictInv'
  BY <1>3, SettlesKeeps
<1>4. ASSUME NEW t \in Trade, RecordVerdict(t) PROVE VerdictInv'
  BY <1>4, RecordVerdictKeeps
<1>5. CASE Ends
  <2>1. /\ sold' = [t \in Trade |-> IF sold[t] = "served" THEN "lost" ELSE sold[t]]
        /\ pendingSettles' = [q \in SoldQuotes |-> {}]
        /\ UNCHANGED <<toChain, verdicts>>
    BY <1>5 DEF Ends
  <2>2. /\ \A s \in Trade : sold[s] = "settled" => sold'[s] = "settled"
        /\ \A s \in Trade : sold[s] # "new" => sold'[s] # "new"
    BY <2>1
  <2>3. \A q \in SoldQuotes : pendingSettles'[q] = {}
    BY <2>1
  <2>4. QED
    BY <2>1, <2>2, <2>3, VerdictsRest
<1>6. QED
  BY <1>1, <1>2, <1>3, <1>4, <1>5
  DEF FeedNext, Starts, Replayed, ReplayFails, TradePublished, feedVars

\* A call has at most one verdict of the exchange on 0G Chain, and one only when
\* a payment for its quote settled, whoever shares the quote and in whatever
\* order verdicts are mined and processes end (index.ts:281, 317).
THEOREM VerdictsAreOfPaidCalls == FeedSpec => []VerdictsArePaidFor
<1>1. VerdictInv => VerdictsArePaidFor
  <2> SUFFICES ASSUME VerdictInv PROVE VerdictsArePaidFor
    OBVIOUS
  <2>1. verdicts \in Seq(Trade) /\ IsInjective(verdicts)
    BY DEF VerdictInv
  <2>2. ASSUME NEW i \in DOMAIN verdicts
        PROVE  \E t \in Settled : PaidQuote[t] = BilledQuote[verdicts[i]]
    <3>1. verdicts[i] \in Judged
      BY <2>1, <2>2 DEF Judged
    <3>2. PaidFor(verdicts[i])
      BY <3>1 DEF VerdictInv
    <3>3. QED
      BY <3>2 DEF PaidFor
  <2>3. QED
    BY <2>1, <2>2 DEF VerdictsArePaidFor
<1>2. QED
  BY <1>1, FeedInvAlways, VerdictInit, VerdictStep, PTL DEF FeedSpec
=============================================================================
