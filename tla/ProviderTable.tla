--------------------------- MODULE ProviderTable ---------------------------
(***************************************************************************)
(* The exchange's routing table: `providers`, a Map from provider url to a *)
(* row object, and everything that reads or writes it.                     *)
(*                                                                         *)
(* The table has no lock.  Discovery reads a row, awaits an HTTP answer,   *)
(* and stores a NEW object built from the one it read; the router keeps a  *)
(* row object across a whole paid request and stores that object back;     *)
(* /slash, /bond-event, /verify-report and /demo/... mutate the current    *)
(* object in place.  Whether a penalty survives therefore depends on which *)
(* object is in the table, so objects have identities here: rows[u][c] is  *)
(* the object in cell c of provider u, and `providers`, `existing` and     *)
(* `pinned` hold cells, as the code's variables hold references.           *)
(***************************************************************************)
EXTENDS Integers, Sequences, FiniteSets

CONSTANTS
  Urls,          \* provider endpoints; their order is the code's localeCompare
  Wallets,       \* provider wallets
  NoWallet,      \* a demo press that is not running
  Models,        \* model names
  WalletOf, NameOf, ModelOf,  \* what /info of a url says (functions on Urls)
  SeedUrls,      \* PROVIDER_URLS
  OnTopic,       \* urls with a registration message on the registry topic
  HcsStake, HcsPrice,         \* what those messages carry
  MaxReputation, InitialStake, BondAmount, DemoSlash,
  Prices,        \* prices /info may quote
  InfoReplies,   \* outcomes of GET /info: "ok", "bad_price", "fail"
  Outcomes,      \* outcomes of the paid call to a provider: "ok", "fail"
  SlashAmounts, BondEvents, ResetWallets, Presses,  \* inputs of the endpoints
  Rounds,        \* names for the rounds of setInterval that are under way
  Requests,      \* requests that the router serves (each once)
  ModelWanted,   \* the model a request asks for
  Cells          \* identities for the row objects of one url

NoUrl  == 0      \* no quote
NoCell == 0      \* no row object

ASSUME UrlsAssumption ==
  /\ Urls \subseteq Nat \ {0}
  /\ SeedUrls \subseteq Urls /\ SeedUrls # {} /\ OnTopic \subseteq Urls
  /\ Cells \subseteq Nat \ {0} /\ IsFiniteSet(Cells)
  /\ IsFiniteSet(Requests) /\ IsFiniteSet(Rounds)
  \* The table, each round and each request hold one object of a url at
  \* most, and a new one is created while they do.
  /\ Cardinality(Cells) >= Cardinality(Rounds) + Cardinality(Requests) + 2
ASSUME InfoAssumption ==
  /\ WalletOf \in [Urls -> Wallets] /\ NoWallet \notin Wallets
  /\ ModelOf \in [Urls -> Models] /\ ModelWanted \in [Requests -> Models]
ASSUME AmountsAssumption ==
  /\ MaxReputation \in Nat \ {0} /\ InitialStake \in Nat
  /\ BondAmount \in Nat /\ DemoSlash \in Nat \ {0}
  /\ HcsStake \in [Urls -> Nat] /\ HcsPrice \in [Urls -> Nat]
  /\ Prices \subseteq Nat \ {0} /\ SlashAmounts \subseteq Nat \ {0}
ASSUME InputsAssumption ==
  /\ InfoReplies \subseteq {"ok", "bad_price", "fail"}
  /\ ResetWallets \subseteq Wallets
  /\ BondEvents \subseteq [bondStatus : {"active", "frozen", "wiped"},
                           bondTokens : SUBSET Int]
  /\ Rounds \cap Requests = {}

Refreshers == Rounds \cup Requests

Row == [price : Nat, status : {"live", "down", "slashed"},
        reputation : 0..MaxReputation, stakeHbar : Nat, requestsServed : Nat,
        bondTokens : Nat, bondStatus : {"active", "frozen", "wiped"}]

\* The content of a cell that no variable of the program refers to.
Unused == [status |-> "unused"]

VARIABLES
  rows,        \* rows[u][c]: the row object in cell c of url u
  providers,   \* providers[u]: the cell that the Map holds for u, or NoCell
  order,       \* the Map's insertion order, which providerList() follows
  hcsRegistrations,  \* urls that the registry topic has announced so far
  fetching,    \* fetching[r]: urls whose /info answer refresh r still awaits
  existing,    \* existing[r][u]: the row object r read before it awaited
  phase,       \* where the router is with a request
  quoted,      \* the url that a request's pinned quote names
  pinned,      \* the row object that the router holds across the paid call
  staged       \* staged[d]: the wallet that demo press d waits to slash

tableVars   == <<rows, providers, order>>
refreshVars == <<hcsRegistrations, fetching, existing>>
routerVars  == <<phase, quoted, pinned>>
vars == <<tableVars, refreshVars, routerVars, staged>>

-----------------------------------------------------------------------------
(* The table.                                                              *)

HasRow(u)     == providers[u] # NoCell
CurrentRow(u) == rows[u][providers[u]]

\* providerList().find(...): u has the first row, in insertion order, of S.
IsFirst(u, S) ==
  /\ HasRow(u) /\ u \in S
  /\ \E i \in DOMAIN order :
       order[i] = u /\ \A j \in DOMAIN order : j < i => order[j] \notin S

IsFirstOfWallet(u, w) == IsFirst(u, {x \in Urls : WalletOf[x] = w})
IsFirstOfName(u, n)   == IsFirst(u, {x \in Urls : NameOf[x] = n})

\* The objects of u that the program still refers to.
Held(u) == {providers[u]}
           \cup {existing[r][u] : r \in Refreshers}
           \cup {pinned[q] : q \in {p \in Requests : quoted[p] = u}}

\* In-place mutation of the object that the table holds for u.
MutateRow(u, row) ==
  /\ rows' = [rows EXCEPT ![u][providers[u]] = row]
  /\ UNCHANGED <<providers, order>>

\* The next contents of u's cells are new[c]; an object that nothing refers
\* to any more is gone.  providers', existing' and pinned' are given before.
Collect(u, new) ==
  rows' = [rows EXCEPT ![u] =
             [c \in Cells |-> IF c \in Held(u)' THEN new[c] ELSE Unused]]

\* pickProvider: the cheapest live row that serves model m, ties by url.
Candidates(m) == {u \in Urls : /\ HasRow(u) /\ ModelOf[u] = m
                               /\ CurrentRow(u).status = "live"}
Cheapest(m) == {u \in Candidates(m) : \A v \in Candidates(m) :
                  \/ CurrentRow(u).price < CurrentRow(v).price
                  \/ CurrentRow(u).price = CurrentRow(v).price /\ u <= v}
PickProvider(m) ==
  IF Cheapest(m) = {} THEN NoUrl ELSE CHOOSE u \in Cheapest(m) : TRUE

-----------------------------------------------------------------------------
Init ==
  /\ rows = [u \in Urls |-> [c \in Cells |-> Unused]]
  /\ providers = [u \in Urls |-> NoCell]
  /\ order = <<>>
  /\ hcsRegistrations = {}
  /\ fetching = [r \in Refreshers |-> {}]
  /\ existing = [r \in Refreshers |-> [u \in Urls |-> NoCell]]
  /\ phase = [q \in Requests |-> "new"]
  /\ quoted = [q \in Requests |-> NoUrl]
  /\ pinned = [q \in Requests |-> NoCell]
  /\ staged = [d \in Presses |-> NoWallet]

-----------------------------------------------------------------------------
(* Discovery: refreshProviders, run by setInterval every 5 s and by every  *)
(* request whose quoted row is not live.  Nothing keeps two of them apart: *)
(* the interval starts a round whether or not an earlier one has ended.    *)
(* The members of Rounds name the rounds under way, so their number bounds *)
(* how many overlap; the name of a round that has ended is used again.     *)

MayRefresh(r) == IF r \in Rounds THEN fetching[r] = {} ELSE phase[r] = "stale"

\* The registry topic has been read; every known url is captured and probed.
RefreshBegin(r) ==
  /\ MayRefresh(r)
  /\ \E new \in SUBSET OnTopic :
       LET known == SeedUrls \cup hcsRegistrations \cup new IN
       /\ hcsRegistrations' = hcsRegistrations \cup new
       /\ fetching' = [fetching EXCEPT ![r] = known]
       /\ existing' = [existing EXCEPT ![r] =
            [u \in Urls |-> IF u \in known THEN providers[u] ELSE NoCell]]
  /\ phase' = IF r \in Rounds THEN phase ELSE [phase EXCEPT ![r] = "refreshing"]
  /\ UNCHANGED <<tableVars, quoted, pinned, staged>>

\* Mutant: a router whose quoted row came back not live keeps waiting.
ResumeAfter_OnlyWhenLive(r, u, next) ==
  /\ providers' = next
  /\ fetching' = [fetching EXCEPT ![r] = @ \ {u}]
  /\ existing' = [existing EXCEPT ![r][u] = NoCell]
  /\ UNCHANGED <<hcsRegistrations, quoted, staged>>
  /\ IF /\ r \in Requests /\ fetching[r] = {u} /\ quoted[r] # NoUrl
        /\ CurrentRow(quoted[r]).status = "live"
     THEN /\ phase' = [phase EXCEPT ![r] = "paying"]
          /\ pinned' = [pinned EXCEPT ![r] = next[quoted[r]]]
     ELSE UNCHANGED <<phase, pinned>>

\* Refresh r has its answer for u, and the table is `next`.  With the last
\* answer Promise.all is done: a router that waits for it goes on with the row
\* that the table holds then, or answers 503 without one.
ResumeAfter(r, u, next) ==
  /\ providers' = next
  /\ fetching' = [fetching EXCEPT ![r] = @ \ {u}]
  /\ existing' = [existing EXCEPT ![r][u] = NoCell]
  /\ UNCHANGED <<hcsRegistrations, quoted, staged>>
  /\ IF r \in Requests /\ fetching[r] = {u}
     THEN LET row == IF quoted[r] = NoUrl THEN NoCell ELSE next[quoted[r]] IN
          /\ phase' = [phase EXCEPT ![r] =
                         IF row = NoCell THEN "refused" ELSE "paying"]
          /\ pinned' = [pinned EXCEPT ![r] = row]
     ELSE UNCHANGED <<phase, pinned>>

\* providers.set(u, row) with a freshly created object.
InstallRow(r, u, row) ==
  \E c \in Cells \ Held(u) :
    /\ \A d \in Cells \ Held(u) : c <= d
    /\ ResumeAfter(r, u, [providers EXCEPT ![u] = c])
    /\ order' = IF HasRow(u) THEN order ELSE Append(order, u)
    /\ Collect(u, [rows[u] EXCEPT ![c] = row])

\* The refresh leaves the row of u as it is.
KeepRow(r, u) ==
  /\ ResumeAfter(r, u, providers)
  /\ UNCHANGED order
  /\ Collect(u, rows[u])

Known(r, u)       == existing[r][u] # NoCell
ExistingRow(r, u) == rows[u][existing[r][u]]

\* The standing of a provider that had no row when the refresh began.
FreshRow(price, status, stake) ==
  [price |-> price, status |-> status, reputation |-> MaxReputation,
   stakeHbar |-> stake, requestsServed |-> 0,
   bondTokens |-> BondAmount, bondStatus |-> "active"]

\* Mutant: an answering provider is live, whatever it was before.
InfoOk_Revives(r, u, p) ==
  /\ "ok" \in InfoReplies /\ u \in fetching[r]
  /\ InstallRow(r, u, IF Known(r, u)
                      THEN [ExistingRow(r, u) EXCEPT !.price = p, !.status = "live"]
                      ELSE FreshRow(p, "live", InitialStake))

\* Mutant: the state of the bond is not carried over.
InfoOk_ForgetsBond(r, u, p) ==
  /\ "ok" \in InfoReplies /\ u \in fetching[r]
  /\ InstallRow(r, u, IF Known(r, u)
       THEN [ExistingRow(r, u) EXCEPT !.price = p, !.bondTokens = BondAmount,
               !.bondStatus = "active",
               !.status = IF @ = "slashed" THEN "slashed" ELSE "live"]
       ELSE FreshRow(p, "live", InitialStake))

\* GET /info of u answered with a usable price p.
InfoOk(r, u, p) ==
  /\ "ok" \in InfoReplies /\ u \in fetching[r]
  /\ \/ /\ Known(r, u)
        /\ LET was == ExistingRow(r, u) IN
           InstallRow(r, u, [was EXCEPT !.price = p,
                            !.status = IF was.status = "slashed"
                                       THEN "slashed" ELSE "live"])
     \/ /\ ~Known(r, u)
        /\ InstallRow(r, u, FreshRow(p, "live",
             IF u \in hcsRegistrations THEN HcsStake[u] ELSE InitialStake))

\* Mutant: a row without a price is not taken down.
InfoBadPrice_StaysUp(r, u) ==
  /\ "bad_price" \in InfoReplies /\ u \in fetching[r]
  /\ InstallRow(r, u, IF Known(r, u) THEN [ExistingRow(r, u) EXCEPT !.price = 0]
                                     ELSE FreshRow(0, "down", InitialStake))

\* /info answered without a finite price: the row goes down, at price 0.
InfoBadPrice(r, u) ==
  /\ "bad_price" \in InfoReplies /\ u \in fetching[r]
  /\ \/ /\ Known(r, u)
        /\ InstallRow(r, u, [ExistingRow(r, u) EXCEPT !.price = 0, !.status = "down"])
     \/ /\ ~Known(r, u)
        /\ InstallRow(r, u, FreshRow(0, "down", InitialStake))

\* Mutant: an unreachable provider is deleted from the table.
InfoFails_Deletes(r, u) ==
  /\ "fail" \in InfoReplies /\ u \in fetching[r]
  /\ ResumeAfter(r, u, [providers EXCEPT ![u] = NoCell])
  /\ order' = SelectSeq(order, LAMBDA v : v # u)
  /\ Collect(u, rows[u])

\* /info failed or timed out.
InfoFails(r, u) ==
  /\ "fail" \in InfoReplies /\ u \in fetching[r]
  /\ \/ /\ Known(r, u) /\ ExistingRow(r, u).status # "slashed"
        /\ InstallRow(r, u, [ExistingRow(r, u) EXCEPT !.status = "down"])
     \/ /\ ~Known(r, u) /\ u \in hcsRegistrations
        /\ InstallRow(r, u, FreshRow(HcsPrice[u], "down", HcsStake[u]))
     \/ /\ IF Known(r, u) THEN ExistingRow(r, u).status = "slashed"
                          ELSE u \notin hcsRegistrations
        /\ KeepRow(r, u)

-----------------------------------------------------------------------------
(* The verifier's and the dashboard's endpoints; each finds the first row  *)
(* of a wallet (or of a display name) and mutates it.                      *)

AtLeastZero(n) == IF n < 0 THEN 0 ELSE n

Slashed(row, amount) ==
  [row EXCEPT !.status = "slashed", !.reputation = 0,
              !.stakeHbar = AtLeastZero(@ - amount)]

\* POST /slash
Slash(w, amount) ==
  /\ \E u \in Urls : /\ IsFirstOfWallet(u, w)
                     /\ MutateRow(u, Slashed(CurrentRow(u), amount))
  /\ UNCHANGED <<refreshVars, routerVars, staged>>

\* POST /bond-event: an explicit count wins, a wipe without one means zero.
BondEvent(w, e) ==
  /\ \E u \in Urls :
       /\ IsFirstOfWallet(u, w)
       /\ LET tokens == IF e.bondTokens # {}
                        THEN AtLeastZero(CHOOSE n \in e.bondTokens : TRUE)
                        ELSE IF e.bondStatus = "wiped" THEN 0
                        ELSE CurrentRow(u).bondTokens
          IN MutateRow(u, [CurrentRow(u) EXCEPT !.bondStatus = e.bondStatus,
                                                !.bondTokens = tokens])
  /\ UNCHANGED <<refreshVars, routerVars, staged>>

\* POST /verify-report with verdict "ok" about a live row.
VerifyReport(n) ==
  /\ \E u \in Urls :
       /\ IsFirstOfName(u, n) /\ CurrentRow(u).status = "live"
       /\ MutateRow(u, [CurrentRow(u) EXCEPT !.reputation =
                          IF @ < MaxReputation THEN @ + 1 ELSE @])
  /\ UNCHANGED <<refreshVars, routerVars, staged>>

\* applyReset, on the first row of the wallet.
ResetRow(w) ==
  \E u \in Urls :
    /\ IsFirstOfWallet(u, w)
    /\ MutateRow(u, [CurrentRow(u) EXCEPT !.status = "live",
                       !.reputation = MaxReputation, !.stakeHbar = InitialStake,
                       !.bondStatus = "active", !.bondTokens = BondAmount])

\* POST /demo/reset
DemoReset(w) ==
  /\ ResetRow(w)
  /\ UNCHANGED <<refreshVars, routerVars, staged>>

\* POST /demo/slash resets the row, waits 1.2 s ...
DemoSlashBegin(d, w) ==
  /\ staged[d] = NoWallet
  /\ ResetRow(w)
  /\ staged' = [staged EXCEPT ![d] = w]
  /\ UNCHANGED <<refreshVars, routerVars>>

\* Mutant: the staged slash leaves the bond alone.
DemoSlashEnd_KeepsBond(d) ==
  /\ staged[d] # NoWallet
  /\ \E u \in Urls : /\ IsFirstOfWallet(u, staged[d])
                     /\ MutateRow(u, Slashed(CurrentRow(u), DemoSlash))
  /\ staged' = [staged EXCEPT ![d] = NoWallet]
  /\ UNCHANGED <<refreshVars, routerVars>>

\* ... and then slashes it and wipes its bond.
DemoSlashEnd(d) ==
  /\ staged[d] # NoWallet
  /\ \E u \in Urls :
       /\ IsFirstOfWallet(u, staged[d])
       /\ MutateRow(u, [Slashed(CurrentRow(u), DemoSlash)
                          EXCEPT !.bondStatus = "wiped", !.bondTokens = 0])
  /\ staged' = [staged EXCEPT ![d] = NoWallet]
  /\ UNCHANGED <<refreshVars, routerVars>>

-----------------------------------------------------------------------------
(* The router.  The quote book is abstracted to the url a request's quote  *)
(* names; QuoteExpires is its 60 s TTL.                                    *)

\* The 402 (or the mock gate) quotes the cheapest live row.
Gate(q) ==
  /\ phase[q] = "new"
  /\ phase' = [phase EXCEPT ![q] = "gated"]
  /\ quoted' = [quoted EXCEPT ![q] = PickProvider(ModelWanted[q])]
  /\ UNCHANGED <<tableVars, refreshVars, pinned, staged>>

QuoteExpires(q) ==
  /\ phase[q] = "gated" /\ quoted[q] # NoUrl
  /\ quoted' = [quoted EXCEPT ![q] = NoUrl]
  /\ UNCHANGED <<tableVars, refreshVars, phase, pinned, staged>>

\* The handler: pinned quote, else a fresh one; a live row is used at once,
\* any other makes the handler refresh the table first.
Handle(q) ==
  LET url  == IF quoted[q] # NoUrl THEN quoted[q] ELSE PickProvider(ModelWanted[q])
      live == url # NoUrl /\ HasRow(url) /\ CurrentRow(url).status = "live"
  IN
  /\ phase[q] = "gated"
  /\ quoted' = [quoted EXCEPT ![q] = url]
  /\ \/ /\ live
        /\ phase' = [phase EXCEPT ![q] = "paying"]
        /\ pinned' = [pinned EXCEPT ![q] = providers[url]]
     \/ /\ ~live
        /\ phase' = [phase EXCEPT ![q] = "stale"]
        /\ UNCHANGED pinned
  /\ UNCHANGED <<tableVars, refreshVars, staged>>

Release(q, result) ==
  /\ phase' = [phase EXCEPT ![q] = result]
  /\ pinned' = [pinned EXCEPT ![q] = NoCell]
  /\ UNCHANGED <<refreshVars, quoted, staged>>

\* paidPost returned 2xx: the held object counts the request and is stored.
ProviderServes(q) ==
  LET u == quoted[q]
      row == rows[u][pinned[q]]
  IN
  /\ "ok" \in Outcomes /\ phase[q] = "paying"
  /\ Release(q, "served")
  /\ providers' = [providers EXCEPT ![u] = pinned[q]]
  /\ UNCHANGED order
  /\ Collect(u, [rows[u] EXCEPT ![pinned[q]] =
                   [row EXCEPT !.requestsServed = @ + 1]])

\* Mutant: a failed call is counted as well.
ProviderFails_Counts(q) ==
  LET u == quoted[q] IN
  /\ "fail" \in Outcomes /\ phase[q] = "paying"
  /\ Release(q, "failed")
  /\ UNCHANGED <<providers, order>>
  /\ Collect(u, [rows[u] EXCEPT ![pinned[q]].requestsServed = @ + 1])

\* paidPost failed: the catch block does not touch the table.
ProviderFails(q) ==
  /\ "fail" \in Outcomes /\ phase[q] = "paying"
  /\ Release(q, "failed")
  /\ UNCHANGED <<providers, order>>
  /\ Collect(quoted[q], rows[quoted[q]])

-----------------------------------------------------------------------------
Refresh(r) == \/ RefreshBegin(r)
              \/ \E u \in Urls : \/ \E p \in Prices : InfoOk(r, u, p)
                                 \/ InfoBadPrice(r, u)
                                 \/ InfoFails(r, u)

Reset(w) == DemoReset(w) \/ \E d \in Presses : DemoSlashBegin(d, w)

Control == \/ \E w \in Wallets : \/ \E a \in SlashAmounts : Slash(w, a)
                                 \/ \E e \in BondEvents : BondEvent(w, e)
           \/ \E n \in {NameOf[u] : u \in Urls} : VerifyReport(n)
           \/ \E w \in ResetWallets : Reset(w)
           \/ \E d \in Presses : DemoSlashEnd(d)

Route(q) == \/ Gate(q) \/ QuoteExpires(q) \/ Handle(q)
            \/ ProviderServes(q) \/ ProviderFails(q)

Next == \/ \E r \in Refreshers : Refresh(r)
        \/ Control
        \/ \E q \in Requests : Route(q)

Spec == Init /\ [][Next]_vars

(***************************************************************************)
(* Fairness: an /info fetch ends within its 2 s timeout, the event loop    *)
(* runs a handler that has all it awaits, and the demo's timeout fires.    *)
(* Nothing is assumed of the paid call, which has no timeout.              *)
(***************************************************************************)
InfoAnswers(r, u) == \/ \E p \in Prices : InfoOk(r, u, p)
                     \/ InfoBadPrice(r, u) \/ InfoFails(r, u)

Fairness ==
  /\ \A r \in Refreshers, u \in Urls : WF_vars(InfoAnswers(r, u))
  /\ \A q \in Requests : WF_vars(RefreshBegin(q)) /\ WF_vars(Handle(q))
  /\ \A d \in Presses : WF_vars(DemoSlashEnd(d))

FairSpec == Spec /\ Fairness

-----------------------------------------------------------------------------
(* Properties.                                                             *)

\* Every variable keeps its shape; a reference is to an object in use.
TypeOK ==
  /\ rows \in [Urls -> [Cells -> Row \cup {Unused}]]
  /\ providers \in [Urls -> Cells \cup {NoCell}]
  /\ order \in Seq(Urls)
  /\ hcsRegistrations \subseteq Urls
  /\ fetching \in [Refreshers -> SUBSET Urls]
  /\ existing \in [Refreshers -> [Urls -> Cells \cup {NoCell}]]
  /\ phase \in [Requests -> {"new", "gated", "stale", "refreshing", "paying",
                             "served", "failed", "refused"}]
  /\ quoted \in [Requests -> Urls \cup {NoUrl}]
  /\ pinned \in [Requests -> Cells \cup {NoCell}]
  /\ staged \in [Presses -> Wallets \cup {NoWallet}]

\* A slash always goes with the loss of all reputation, in the table and in
\* every older object that a refresh or a request may still put back.
SlashImpliesNoReputation ==
  \A u \in Urls, c \in Cells :
    rows[u][c].status = "slashed" => rows[u][c].reputation = 0

\* Somebody will store a row of u that does not know of its slash: a refresh
\* that captured another object than a slashed one, or none, or a request that
\* holds such an object across its paid call.
MissedByRefresh(r, u) ==
  u \in fetching[r] /\ (Known(r, u) => ExistingRow(r, u).status # "slashed")
MissedByRequest(q, u) ==
  /\ phase[q] = "paying" /\ quoted[q] = u
  /\ rows[u][pinned[q]].status # "slashed"

\* How a slash can leave the table, completely (discovery.ts:4, :54, :62 and
\* index.ts:421): by a reset, by an answer without a price, or by a store of
\* something that was read before the slash.  A refresh that saw the slash
\* keeps it, whichever others overlap.
SlashLostOnlyToStale ==
  [][\A u \in Urls :
       HasRow(u) /\ CurrentRow(u).status = "slashed"
         => \/ HasRow(u)' /\ CurrentRow(u)'.status = "slashed"
            \/ \E w \in ResetWallets : Reset(w)
            \/ \E r \in Refreshers : \/ InfoBadPrice(r, u)
                                     \/ MissedByRefresh(r, u) /\ u \notin fetching'[r]
            \/ \E q \in Requests : MissedByRequest(q, u) /\ phase'[q] = "served"]_vars

\* "Slashed providers stay slashed even if live" (discovery.ts:4), by the router:
\* storing the object that it held across the paid call (index.ts:421) does not
\* undo a slash that happened during the call.
ServingKeepsSlash ==
  [][\A q \in Requests, u \in Urls :
       ProviderServes(q) /\ HasRow(u) /\ CurrentRow(u).status = "slashed"
         => CurrentRow(u)'.status = "slashed"]_vars

\* Reputation, stake and bond of a listed provider change only by a call of
\* one of the control endpoints, or when an object is stored back that is not
\* the table's any more: what is current, discovery copies and the router
\* keeps (discovery.ts:59-68, index.ts:420-421).
Standing(u) == <<CurrentRow(u).reputation, CurrentRow(u).stakeHbar,
                 CurrentRow(u).bondTokens, CurrentRow(u).bondStatus>>
StandingLostOnlyToStale ==
  [][\A u \in Urls :
       HasRow(u)
         => \/ HasRow(u)' /\ Standing(u)' = Standing(u)
            \/ Control
            \/ \E r \in Refreshers : /\ u \in fetching[r] \ fetching'[r]
                                     /\ existing[r][u] # providers[u]
            \/ \E q \in Requests : /\ phase[q] = "paying" /\ phase'[q] = "served"
                                   /\ quoted[q] = u /\ pinned[q] # providers[u]]_vars

\* A provider without a usable price is not routable (discovery.ts:49-51), but
\* for one case: a row object that is live without a price, in the table or held
\* by somebody who may store it back, was made so by a reset of a provider that
\* had been taken down (demo.ts:39); no refresh and no request makes one.
Unpriced(row) == row.status = "live" /\ row.price = 0
OnlyAResetUnprices ==
  [][\A u \in Urls, c \in Cells :
       Unpriced(rows'[u][c]) => \/ Unpriced(rows[u][c])
                               \/ \E w \in ResetWallets : Reset(w)]_vars

\* The exchange begins to pay no provider that its table shows as slashed:
\* /slash ejects it from routing (docs/exchange.md:151).
SlashedAreNotPaid ==
  [][\A q \in Requests, u \in Urls :
       phase[q] # "paying" /\ phase'[q] = "paying" /\ quoted'[q] = u
         => CurrentRow(u)'.status # "slashed"]_vars

\* requestsServed never counts a request twice, though objects are copied by
\* refreshes and stored back by requests that ran across them.
ServedNeverOvercounts ==
  \A u \in Urls : HasRow(u) =>
    CurrentRow(u).requestsServed
      <= Cardinality({q \in Requests : phase[q] = "served" /\ quoted[q] = u})

\* A request that found its row stale gets past the refresh it waits for.
StaleRequestsResume ==
  \A q \in Requests : phase[q] = "stale"
    ~> phase[q] \in {"paying", "served", "failed", "refused"}

\* A staged demo ends with the cheater's row slashed, its bond wiped to zero.
DemoEndsInSlash ==
  \A d \in Presses, w \in Wallets : staged[d] = w
    ~> \E u \in Urls : /\ WalletOf[u] = w /\ HasRow(u)
                        /\ CurrentRow(u).status = "slashed"
                        /\ CurrentRow(u).bondTokens = 0
=============================================================================
