------------------------ MODULE ProviderTableProofs ------------------------
(***************************************************************************)
(* Theorems about the routing table, for every set of providers, requests, *)
(* refreshes and inputs.  The inductive invariant says that a reference    *)
(* leads to a row object in use and that every such object, in the table   *)
(* or detached from it, is sane.                                           *)
(***************************************************************************)
EXTENDS ProviderTable, FiniteSetTheorems, TLAPS

SaneRow == {row \in Row : row.status = "slashed" => row.reputation = 0}

Shapes ==
  /\ rows \in [Urls -> [Cells -> SaneRow \cup {Unused}]]
  /\ providers \in [Urls -> Cells \cup {NoCell}]
  /\ order \in Seq(Urls)
  /\ hcsRegistrations \subseteq Urls
  /\ fetching \in [Refreshers -> SUBSET Urls]
  /\ existing \in [Refreshers -> [Urls -> Cells \cup {NoCell}]]
  /\ phase \in [Requests -> {"new", "gated", "stale", "refreshing", "paying",
                             "served", "failed", "refused"}]
  /\ quoted \in [Requests -> Urls \cup {NoUrl}]
  /\ pinned \in [Requests -> Cells \cup {NoCell}]
  /\ staged \in [Presses -> Wallets \cup {NoWallet}]

\* References are to objects in use; a quoted provider has a row.
References ==
  /\ \A u \in Urls : HasRow(u) => CurrentRow(u) \in SaneRow
  /\ \A r \in Refreshers, u \in Urls : Known(r, u) => ExistingRow(r, u) \in SaneRow
  /\ \A q \in Requests : quoted[q] # NoUrl => HasRow(quoted[q])
  /\ \A q \in Requests :
       pinned[q] # NoCell => /\ quoted[q] # NoUrl
                             /\ rows[quoted[q]][pinned[q]] \in SaneRow
  /\ \A q \in Requests : phase[q] = "paying" => pinned[q] # NoCell
  /\ \A q \in Requests : phase[q] \in {"new", "gated", "stale", "refreshing"}
                           => pinned[q] = NoCell
  /\ \A q \in Requests : fetching[q] # {} => phase[q] = "refreshing"

IInv == Shapes /\ References

LEMMA RowsAreRecords ==
  ASSUME NEW row \in SaneRow
  PROVE  /\ row \in Row
         /\ row.price \in Nat /\ row.status \in {"live", "down", "slashed"}
         /\ row.reputation \in 0..MaxReputation /\ row.stakeHbar \in Nat
         /\ row.requestsServed \in Nat /\ row.bondTokens \in Nat
         /\ row.bondStatus \in {"active", "frozen", "wiped"}
         /\ row # Unused
  BY DEF SaneRow, Row, Unused

LEMMA InitInv == Init => IInv
  BY UrlsAssumption, InfoAssumption
  DEF Init, IInv, Shapes, References, HasRow, Known, NoCell, NoUrl,
      Refreshers

\* Mutating the current row into another sane row.
LEMMA MutateRowInv ==
  ASSUME IInv, NEW u \in Urls, HasRow(u), NEW row \in SaneRow,
         MutateRow(u, row), UNCHANGED <<refreshVars, routerVars>>,
         staged' \in [Presses -> Wallets \cup {NoWallet}]
  PROVE  IInv'
<1>1. rows' = [rows EXCEPT ![u][providers[u]] = row] /\ providers[u] \in Cells
      /\ UNCHANGED <<providers, order>>
  BY DEF MutateRow, IInv, Shapes, HasRow
<1>2. \A v \in Urls, c \in Cells :
        rows'[v][c] = IF v = u /\ c = providers[u] THEN row ELSE rows[v][c]
  BY <1>1 DEF IInv, Shapes
<1>3. Shapes'
  BY <1>1 DEF IInv, Shapes, refreshVars, routerVars
<1>4. References'
  BY <1>1, <1>2 DEF IInv, Shapes, References, HasRow, CurrentRow, Known, ExistingRow,
     refreshVars, routerVars, Refreshers
<1>5. QED
  BY <1>3, <1>4 DEF IInv

-----------------------------------------------------------------------------
(* The steps that store or drop references.                                *)

LEMMA CollectKeeps ==
  ASSUME IInv, NEW u \in Urls,
         NEW new \in [Cells -> SaneRow \cup {Unused}], Collect(u, new)
  PROVE  /\ rows' \in [Urls -> [Cells -> SaneRow \cup {Unused}]]
         /\ \A v \in Urls : v # u => rows'[v] = rows[v]
         /\ \A c \in Cells : c \in Held(u)' => rows'[u][c] = new[c]
  BY DEF Collect, IInv, Shapes

\* Held(u) names the objects of u that the next state refers to.
LEMMA HeldNext ==
  ASSUME NEW u \in Urls
  PROVE  /\ providers'[u] \in Held(u)'
         /\ \A r \in Refreshers : existing'[r][u] \in Held(u)'
         /\ \A q \in Requests : quoted'[q] = u => pinned'[q] \in Held(u)'
  BY DEF Held

\* An answer of /info: what the refresh releases, and how its router goes on.
LEMMA ResumeTypes ==
  ASSUME IInv, NEW r \in Refreshers, NEW u \in Urls, u \in fetching[r],
         NEW next \in [Urls -> Cells \cup {NoCell}],
         \A v \in Urls : v # u => next[v] = providers[v],
         HasRow(u) => next[u] # NoCell,
         ResumeAfter(r, u, next)
  PROVE  /\ providers' = next
         /\ fetching' \in [Refreshers -> SUBSET Urls]
         /\ existing' \in [Refreshers -> [Urls -> Cells \cup {NoCell}]]
         /\ \A s \in Refreshers, v \in Urls :
              existing'[s][v] # NoCell => existing'[s][v] = existing[s][v]
         /\ phase' \in [Requests -> {"new", "gated", "stale", "refreshing",
                            "paying", "served", "failed", "refused"}]
         /\ pinned' \in [Requests -> Cells \cup {NoCell}]
         /\ UNCHANGED <<hcsRegistrations, quoted, staged>>
         /\ \A q \in Requests :
              \/ phase'[q] = phase[q] /\ pinned'[q] = pinned[q]
              \/ /\ phase'[q] = "paying" /\ quoted[q] # NoUrl
                 /\ pinned'[q] = providers'[quoted[q]]
              \/ /\ phase'[q] = "refused" /\ quoted[q] = NoUrl
                 /\ pinned'[q] = NoCell
         /\ \A q \in Requests : fetching'[q] # {} => /\ fetching[q] # {}
                                                   /\ phase'[q] = phase[q]
<1>1. CASE r \in Requests /\ fetching[r] = {u}
  <2>1. r \in Requests
    BY <1>1 DEF Refreshers
  <2>2. quoted[r] # NoUrl => quoted[r] \in Urls /\ next[quoted[r]] # NoCell
                             /\ next[quoted[r]] \in Cells
    BY <2>1 DEF IInv, Shapes, References, HasRow
  <2>3. CASE quoted[r] = NoUrl
    <3>1. /\ phase' = [phase EXCEPT ![r] = "refused"]
          /\ pinned' = [pinned EXCEPT ![r] = NoCell]
      BY <1>1, <2>3 DEF ResumeAfter
    <3>2. QED
      BY <1>1, <2>1, <2>3, <3>1 DEF ResumeAfter, IInv, Shapes
  <2>4. CASE quoted[r] # NoUrl
    <3>1. /\ phase' = [phase EXCEPT ![r] = "paying"]
          /\ pinned' = [pinned EXCEPT ![r] = next[quoted[r]]]
      BY <1>1, <2>2, <2>4 DEF ResumeAfter
    <3>2. QED
      BY <1>1, <2>1, <2>2, <2>4, <3>1 DEF ResumeAfter, IInv, Shapes
  <2>5. QED
    BY <2>3, <2>4
<1>2. CASE ~(r \in Requests /\ fetching[r] = {u})
  BY <1>2 DEF ResumeAfter, IInv, Shapes
<1>3. QED
  BY <1>1, <1>2

\* Once the references are known to be old ones or the one to the table's
\* object, the references of the next state are to objects in use.
LEMMA AnswerInv ==
  ASSUME IInv, NEW r \in Refreshers, NEW u \in Urls, u \in fetching[r],
         NEW next \in [Urls -> Cells \cup {NoCell}],
         \A v \in Urls : v # u => next[v] = providers[v],
         HasRow(u) => next[u] # NoCell,
         NEW new \in [Cells -> SaneRow \cup {Unused}],
         \A c \in Held(u) : c # NoCell => new[c] = rows[u][c],
         next[u] # NoCell => new[next[u]] \in SaneRow,
         order' \in Seq(Urls),
         ResumeAfter(r, u, next), Collect(u, new)
  PROVE  IInv'
<1>1. /\ providers' = next /\ UNCHANGED <<hcsRegistrations, quoted, staged>>
      /\ \A s \in Refreshers, v \in Urls :
           existing'[s][v] # NoCell => existing'[s][v] = existing[s][v]
      /\ \A q \in Requests :
           \/ phase'[q] = phase[q] /\ pinned'[q] = pinned[q]
           \/ /\ phase'[q] = "paying" /\ quoted[q] # NoUrl
              /\ pinned'[q] = providers'[quoted[q]]
           \/ /\ phase'[q] = "refused" /\ quoted[q] = NoUrl
              /\ pinned'[q] = NoCell
      /\ \A q \in Requests : fetching'[q] # {} => /\ fetching[q] # {}
                                                /\ phase'[q] = phase[q]
  BY ResumeTypes
<1>2. Shapes'
  <2>1. /\ fetching' \in [Refreshers -> SUBSET Urls]
        /\ existing' \in [Refreshers -> [Urls -> Cells \cup {NoCell}]]
        /\ phase' \in [Requests -> {"new", "gated", "stale", "refreshing",
                           "paying", "served", "failed", "refused"}]
        /\ pinned' \in [Requests -> Cells \cup {NoCell}]
    BY ResumeTypes
  <2>2. rows' \in [Urls -> [Cells -> SaneRow \cup {Unused}]]
    BY CollectKeeps
  <2>3. /\ hcsRegistrations' \subseteq Urls
        /\ quoted' \in [Requests -> Urls \cup {NoUrl}]
        /\ staged' \in [Presses -> Wallets \cup {NoWallet}]
        /\ providers' \in [Urls -> Cells \cup {NoCell}]
    BY <1>1 DEF IInv, Shapes
  <2>4. QED
    BY <2>1, <2>2, <2>3 DEF Shapes
<1>3. \A v \in Urls : HasRow(v)' => CurrentRow(v)' \in SaneRow
  <2>1. ASSUME NEW v \in Urls, HasRow(v)', v # u PROVE CurrentRow(v)' \in SaneRow
    BY <2>1, <1>1, CollectKeeps DEF IInv, References, HasRow, CurrentRow
  <2>2. ASSUME HasRow(u)' PROVE CurrentRow(u)' \in SaneRow
    BY <2>2, <1>1, CollectKeeps, HeldNext DEF HasRow, CurrentRow
  <2>3. QED
    BY <2>1, <2>2
<1>4. \A s \in Refreshers, v \in Urls : Known(s, v)' => ExistingRow(s, v)' \in SaneRow
  <2>1. ASSUME NEW s \in Refreshers, NEW v \in Urls, Known(s, v)', v # u
        PROVE  ExistingRow(s, v)' \in SaneRow
    BY <2>1, <1>1, CollectKeeps DEF IInv, References, Known, ExistingRow
  <2>2. ASSUME NEW s \in Refreshers, Known(s, u)'
        PROVE  ExistingRow(s, u)' \in SaneRow
    <3>1. existing'[s][u] = existing[s][u] /\ existing[s][u] \in Cells
          /\ existing[s][u] \in Held(u) /\ existing'[s][u] \in Held(u)'
      BY <2>2, <1>1, HeldNext DEF Known, IInv, Shapes, Held
    <3>2. QED
      BY <3>1, <2>2, CollectKeeps DEF Known, ExistingRow, IInv, References
  <2>3. QED
    BY <2>1, <2>2
<1>5. \A q \in Requests : quoted'[q] # NoUrl => providers'[quoted'[q]] # NoCell
  BY <1>1 DEF IInv, Shapes, References, HasRow
<1>6. \A q \in Requests :
        pinned'[q] # NoCell => /\ quoted'[q] # NoUrl
                               /\ rows'[quoted'[q]][pinned'[q]] \in SaneRow
  <2> SUFFICES ASSUME NEW q \in Requests, pinned'[q] # NoCell
               PROVE  /\ quoted'[q] # NoUrl
                      /\ rows'[quoted'[q]][pinned'[q]] \in SaneRow
    OBVIOUS
  <2>1. CASE phase'[q] = phase[q] /\ pinned'[q] = pinned[q] /\ quoted[q] # u
    BY <2>1, <1>1, CollectKeeps DEF IInv, Shapes, References
  <2>2. CASE phase'[q] = phase[q] /\ pinned'[q] = pinned[q] /\ quoted[q] = u
    <3>1. pinned[q] \in Cells /\ pinned[q] \in Held(u) /\ pinned'[q] \in Held(u)'
      BY <2>2, <1>1, HeldNext DEF IInv, Shapes, Held
    <3>2. QED
      BY <3>1, <2>2, <1>1, CollectKeeps DEF IInv, References
  <2>3. CASE quoted[q] # NoUrl /\ pinned'[q] = providers'[quoted[q]]
    BY <2>3, <1>1, <1>3, <1>5 DEF HasRow, CurrentRow, IInv, Shapes
  <2>4. QED
    BY <2>1, <2>2, <2>3, <1>1
<1>7. \A q \in Requests : phase'[q] = "paying" => pinned'[q] # NoCell
  BY <1>1, <1>5 DEF IInv, References
<1>8. \A q \in Requests : phase'[q] \in {"new", "gated", "stale", "refreshing"}
                           => pinned'[q] = NoCell
  BY <1>1 DEF IInv, References
<1>9. \A q \in Requests : fetching'[q] # {} => phase'[q] = "refreshing"
  BY <1>1 DEF IInv, References
<1>11. QED
  <2>1. References'
    BY <1>3, <1>4, <1>5, <1>6, <1>7, <1>8, <1>9 DEF References, HasRow
  <2>2. QED
    BY <1>2, <2>1 DEF IInv

LEMMA InstallRowInv ==
  ASSUME IInv, NEW r \in Refreshers, NEW u \in Urls, u \in fetching[r],
         NEW row \in SaneRow, InstallRow(r, u, row)
  PROVE  IInv'
<1>1. PICK c \in Cells \ Held(u) :
        /\ ResumeAfter(r, u, [providers EXCEPT ![u] = c])
        /\ order' = IF HasRow(u) THEN order ELSE Append(order, u)
        /\ Collect(u, [rows[u] EXCEPT ![c] = row])
  BY DEF InstallRow
<1> DEFINE next == [providers EXCEPT ![u] = c]
           new  == [rows[u] EXCEPT ![c] = row]
<1>2. /\ next \in [Urls -> Cells \cup {NoCell}] /\ next[u] = c /\ c # NoCell
      /\ \A v \in Urls : v # u => next[v] = providers[v]
  BY UrlsAssumption DEF IInv, Shapes, NoCell
<1>3. /\ new \in [Cells -> SaneRow \cup {Unused}] /\ new[c] = row
      /\ \A d \in Held(u) : d # NoCell => new[d] = rows[u][d]
  BY DEF IInv, Shapes
<1>4. order' \in Seq(Urls)
  BY <1>1 DEF IInv, Shapes
<1> HIDE DEF next, new
<1>5. ResumeAfter(r, u, next) /\ Collect(u, new)
  BY <1>1 DEF next, new
<1>6. QED
  BY <1>2, <1>3, <1>4, <1>5, AnswerInv

LEMMA KeepRowInv ==
  ASSUME IInv, NEW r \in Refreshers, NEW u \in Urls, u \in fetching[r],
         KeepRow(r, u)
  PROVE  IInv'
<1>1. rows[u] \in [Cells -> SaneRow \cup {Unused}] /\ order' \in Seq(Urls)
      /\ providers \in [Urls -> Cells \cup {NoCell}]
      /\ (providers[u] # NoCell => rows[u][providers[u]] \in SaneRow)
  BY DEF IInv, Shapes, References, KeepRow, HasRow, CurrentRow
<1>2. QED
  BY <1>1, AnswerInv DEF KeepRow, HasRow

-----------------------------------------------------------------------------
(* One lemma per action.                                                   *)

LEMMA RefreshBeginInv ==
  ASSUME IInv, NEW r \in Refreshers, RefreshBegin(r)
  PROVE  IInv'
<1>1. PICK new \in SUBSET OnTopic :
        LET known == SeedUrls \cup hcsRegistrations \cup new IN
        /\ hcsRegistrations' = hcsRegistrations \cup new
        /\ fetching' = [fetching EXCEPT ![r] = known]
        /\ existing' = [existing EXCEPT ![r] =
             [u \in Urls |-> IF u \in known THEN providers[u] ELSE NoCell]]
  BY DEF RefreshBegin
<1>2. UNCHANGED <<rows, providers, order, quoted, pinned, staged>>
  BY DEF RefreshBegin, tableVars
<1>3. phase' = IF r \in Rounds THEN phase ELSE [phase EXCEPT ![r] = "refreshing"]
  BY DEF RefreshBegin
<1>4. r \notin Rounds => r \in Requests /\ phase[r] = "stale" /\ phase'[r] = "refreshing"
  BY <1>3 DEF RefreshBegin, MayRefresh, Refreshers, IInv, Shapes
<1>5. Shapes'
  BY <1>1, <1>2, <1>3, <1>4, UrlsAssumption DEF IInv, Shapes
<1>6. \A s \in Refreshers, u \in Urls :
        existing'[s][u] # NoCell => existing'[s][u] \in {existing[s][u], providers[u]}
  BY <1>1 DEF IInv, Shapes
<1>7. \A q \in Requests : \/ phase'[q] = phase[q] /\ fetching'[q] = fetching[q]
                          \/ phase[q] = "stale" /\ phase'[q] = "refreshing"
  BY <1>1, <1>3, <1>4, InputsAssumption DEF IInv, Shapes, Refreshers
<1>8. \A s \in Refreshers, u \in Urls : Known(s, u)' => ExistingRow(s, u)' \in SaneRow
  BY <1>2, <1>6 DEF IInv, References, Known, ExistingRow, HasRow, CurrentRow
<1>9. \A q \in Requests :
        /\ phase'[q] = "paying" => pinned'[q] # NoCell
        /\ phase'[q] \in {"new", "gated", "stale", "refreshing"} => pinned'[q] = NoCell
        /\ fetching'[q] # {} => phase'[q] = "refreshing"
  BY <1>2, <1>7 DEF IInv, References
<1>10. References'
  BY <1>2, <1>8, <1>9 DEF IInv, References, HasRow, CurrentRow
<1>11. QED
  BY <1>5, <1>10 DEF IInv

LEMMA FreshRowIsSane ==
  ASSUME NEW price \in Nat, NEW status \in {"live", "down"}, NEW stake \in Nat
  PROVE  FreshRow(price, status, stake) \in SaneRow
  BY AmountsAssumption DEF FreshRow, SaneRow, Row

LEMMA InfoOkInv ==
  ASSUME IInv, NEW r \in Refreshers, NEW u \in Urls, NEW p \in Prices,
         InfoOk(r, u, p)
  PROVE  IInv'
<1>1. p \in Nat \ {0} /\ u \in fetching[r]
  BY AmountsAssumption DEF InfoOk
<1>2. CASE Known(r, u)
  <2> DEFINE was == ExistingRow(r, u)
             row == [was EXCEPT !.price = p, !.status =
                       IF was.status = "slashed" THEN "slashed" ELSE "live"]
  <2>1. was \in SaneRow
    BY <1>2 DEF IInv, References
  <2>2. row \in SaneRow
    BY <1>1, <2>1 DEF SaneRow, Row
  <2>3. InstallRow(r, u, row)
    BY <1>2 DEF InfoOk
  <2> QED
    BY <1>1, <2>2, <2>3, InstallRowInv
<1>3. CASE ~Known(r, u)
  <2> DEFINE row == FreshRow(p, "live",
                IF u \in hcsRegistrations THEN HcsStake[u] ELSE InitialStake)
  <2>1. row \in SaneRow
    BY <1>1, FreshRowIsSane, AmountsAssumption
  <2>2. InstallRow(r, u, row)
    BY <1>3 DEF InfoOk
  <2> QED
    BY <1>1, <2>1, <2>2, InstallRowInv
<1>4. QED
  BY <1>2, <1>3

LEMMA InfoBadPriceInv ==
  ASSUME IInv, NEW r \in Refreshers, NEW u \in Urls, InfoBadPrice(r, u)
  PROVE  IInv'
<1>1. u \in fetching[r]
  BY DEF InfoBadPrice
<1>2. CASE Known(r, u)
  <2> DEFINE row == [ExistingRow(r, u) EXCEPT !.price = 0, !.status = "down"]
  <2>1. ExistingRow(r, u) \in SaneRow
    BY <1>2 DEF IInv, References
  <2>2. row \in SaneRow
    BY <2>1 DEF SaneRow, Row
  <2>3. InstallRow(r, u, row)
    BY <1>2 DEF InfoBadPrice
  <2> QED
    BY <1>1, <2>2, <2>3, InstallRowInv
<1>3. CASE ~Known(r, u)
  <2>1. FreshRow(0, "down", InitialStake) \in SaneRow
    BY FreshRowIsSane, AmountsAssumption
  <2> QED
    BY <1>1, <1>3, <2>1, InstallRowInv DEF InfoBadPrice
<1>4. QED
  BY <1>2, <1>3

LEMMA InfoFailsInv ==
  ASSUME IInv, NEW r \in Refreshers, NEW u \in Urls, InfoFails(r, u)
  PROVE  IInv'
<1>1. u \in fetching[r]
  BY DEF InfoFails
<1>2. CASE /\ Known(r, u)
           /\ InstallRow(r, u, [ExistingRow(r, u) EXCEPT !.status = "down"])
  <2>1. ExistingRow(r, u) \in SaneRow
    BY <1>2 DEF IInv, References
  <2>2. [ExistingRow(r, u) EXCEPT !.status = "down"] \in SaneRow
    BY <2>1 DEF SaneRow, Row
  <2> QED
    BY <1>1, <1>2, <2>2, InstallRowInv
<1>3. CASE InstallRow(r, u, FreshRow(HcsPrice[u], "down", HcsStake[u]))
  <2>1. FreshRow(HcsPrice[u], "down", HcsStake[u]) \in SaneRow
    BY FreshRowIsSane, AmountsAssumption
  <2> QED
    BY <1>1, <1>3, <2>1, InstallRowInv
<1>4. CASE KeepRow(r, u)
  BY <1>1, <1>4, KeepRowInv
<1>5. QED
  BY <1>2, <1>3, <1>4 DEF InfoFails

\* The fields of a row that the control endpoints assign together.
LEMMA StandingFields ==
  ASSUME NEW row \in Row, NEW status \in {"live", "down", "slashed"},
         NEW rep \in 0..MaxReputation
  PROVE  /\ [row EXCEPT !.status = status, !.reputation = rep] \in Row
         /\ [row EXCEPT !.status = status, !.reputation = rep].status = status
         /\ [row EXCEPT !.status = status, !.reputation = rep].reputation = rep
  BY DEF Row

LEMMA StakeField ==
  ASSUME NEW row \in Row, NEW stake \in Nat
  PROVE  /\ [row EXCEPT !.stakeHbar = stake] \in Row
         /\ [row EXCEPT !.stakeHbar = stake].status = row.status
         /\ [row EXCEPT !.stakeHbar = stake].reputation = row.reputation
  BY DEF Row

LEMMA BondFields ==
  ASSUME NEW row \in Row, NEW status \in {"active", "frozen", "wiped"},
         NEW tokens \in Nat
  PROVE  /\ [row EXCEPT !.bondStatus = status, !.bondTokens = tokens] \in Row
         /\ [row EXCEPT !.bondStatus = status, !.bondTokens = tokens].status = row.status
         /\ [row EXCEPT !.bondStatus = status, !.bondTokens = tokens].reputation
              = row.reputation
  BY DEF Row

LEMMA SlashedIsSane ==
  ASSUME NEW row \in SaneRow, NEW amount \in Nat
  PROVE  Slashed(row, amount) \in SaneRow /\ Slashed(row, amount).status = "slashed"
<1> DEFINE standing == [row EXCEPT !.status = "slashed", !.reputation = 0]
           stake == AtLeastZero(row.stakeHbar - amount)
<1>1. row.stakeHbar \in Nat /\ row \in Row
  BY RowsAreRecords
<1>2. stake \in Nat
  BY <1>1 DEF AtLeastZero
<1>3. 0 \in 0..MaxReputation
  BY AmountsAssumption
<1>4. standing \in Row /\ standing.status = "slashed" /\ standing.reputation = 0
  BY <1>1, <1>3, StandingFields
<1>5. standing.stakeHbar = row.stakeHbar
  BY <1>1 DEF Row
<1>6. Slashed(row, amount) = [standing EXCEPT !.stakeHbar = stake]
  BY <1>5 DEF Slashed
<1> HIDE DEF standing, stake
<1>7. [standing EXCEPT !.stakeHbar = stake] \in Row
      /\ [standing EXCEPT !.stakeHbar = stake].reputation = 0
      /\ [standing EXCEPT !.stakeHbar = stake].status = "slashed"
  BY <1>2, <1>4, StakeField
<1>8. QED
  BY <1>6, <1>7 DEF SaneRow

\* What applyReset leaves in a row.
LEMMA ResetIsSane ==
  ASSUME NEW row \in SaneRow
  PROVE  [row EXCEPT !.status = "live",
            !.reputation = MaxReputation, !.stakeHbar = InitialStake,
            !.bondStatus = "active", !.bondTokens = BondAmount] \in SaneRow
<1> DEFINE standing == [row EXCEPT !.status = "live", !.reputation = MaxReputation]
           staked == [standing EXCEPT !.stakeHbar = InitialStake]
           bonded == [staked EXCEPT !.bondStatus = "active", !.bondTokens = BondAmount]
<1>1. row \in Row
  BY RowsAreRecords
<1>2. /\ MaxReputation \in 0..MaxReputation
      /\ InitialStake \in Nat /\ BondAmount \in Nat
  BY AmountsAssumption
<1>3. standing \in Row /\ standing.status = "live"
  BY <1>1, <1>2, StandingFields
<1>4. [row EXCEPT !.status = "live",
            !.reputation = MaxReputation, !.stakeHbar = InitialStake,
            !.bondStatus = "active", !.bondTokens = BondAmount] = bonded
  OBVIOUS
<1> HIDE DEF standing
<1>5. staked \in Row /\ staked.status = "live"
  BY <1>2, <1>3, StakeField
<1> HIDE DEF staked
<1>6. bonded \in Row /\ bonded.status = "live"
  BY <1>2, <1>5, BondFields
<1>7. bonded \in SaneRow
  BY <1>6 DEF SaneRow
<1>8. QED
  BY <1>4, <1>7

LEMMA ControlInv ==
  ASSUME IInv, Control
  PROVE  IInv'
<1>1. \A u \in Urls : HasRow(u) => CurrentRow(u) \in SaneRow /\ CurrentRow(u) \in Row
  BY RowsAreRecords DEF IInv, References
<1>2. UNCHANGED staged => staged' \in [Presses -> Wallets \cup {NoWallet}]
  BY DEF IInv, Shapes
<1>3. ASSUME NEW w \in Wallets, NEW a \in SlashAmounts, Slash(w, a) PROVE IInv'
  <2>1. PICK u \in Urls : HasRow(u) /\ MutateRow(u, Slashed(CurrentRow(u), a))
    BY <1>3 DEF Slash, IsFirstOfWallet, IsFirst
  <2>2. Slashed(CurrentRow(u), a) \in SaneRow
    BY <1>1, <2>1, SlashedIsSane, AmountsAssumption
  <2>3. QED
    BY <1>2, <1>3, <2>1, <2>2, MutateRowInv DEF Slash
<1>4. ASSUME NEW w \in Wallets, NEW e \in BondEvents, BondEvent(w, e) PROVE IInv'
  <2> DEFINE tokens(u) == IF e.bondTokens # {}
                          THEN AtLeastZero(CHOOSE n \in e.bondTokens : TRUE)
                          ELSE IF e.bondStatus = "wiped" THEN 0
                          ELSE CurrentRow(u).bondTokens
             row(u) == [CurrentRow(u) EXCEPT !.bondStatus = e.bondStatus,
                                             !.bondTokens = tokens(u)]
  <2>1. PICK u \in Urls : HasRow(u) /\ MutateRow(u, row(u))
    BY <1>4 DEF BondEvent, IsFirstOfWallet, IsFirst
  <2>2. /\ e.bondStatus \in {"active", "frozen", "wiped"}
        /\ e.bondTokens \in SUBSET Int
    BY InputsAssumption
  <2>3. tokens(u) \in Nat
    BY <1>1, <2>1, <2>2, RowsAreRecords DEF AtLeastZero
  <2>4. row(u) \in SaneRow
    BY <1>1, <2>1, <2>2, <2>3 DEF SaneRow, Row
  <2>5. QED
    BY <1>2, <1>4, <2>1, <2>4, MutateRowInv DEF BondEvent
<1>5. ASSUME NEW n, VerifyReport(n) PROVE IInv'
  <2> DEFINE row(u) == [CurrentRow(u) EXCEPT !.reputation =
                          IF @ < MaxReputation THEN @ + 1 ELSE @]
  <2>1. PICK u \in Urls : /\ HasRow(u) /\ CurrentRow(u).status = "live"
                         /\ MutateRow(u, row(u))
    BY <1>5 DEF VerifyReport, IsFirstOfName, IsFirst
  <2>2. row(u) \in SaneRow
    BY <1>1, <2>1, AmountsAssumption DEF SaneRow, Row
  <2>3. QED
    BY <1>2, <1>5, <2>1, <2>2, MutateRowInv DEF VerifyReport
<1>6. ASSUME NEW w \in Wallets, ResetRow(w),
             UNCHANGED <<refreshVars, routerVars>>,
             staged' \in [Presses -> Wallets \cup {NoWallet}]
      PROVE  IInv'
  <2> DEFINE row(u) == [CurrentRow(u) EXCEPT !.status = "live",
                          !.reputation = MaxReputation, !.stakeHbar = InitialStake,
                          !.bondStatus = "active", !.bondTokens = BondAmount]
  <2>1. PICK u \in Urls : HasRow(u) /\ MutateRow(u, row(u))
    BY <1>6 DEF ResetRow, IsFirstOfWallet, IsFirst
  <2>2. row(u) \in SaneRow
    BY <1>1, <1>6, <2>1, ResetIsSane
  <2>3. QED
    BY <1>6, <2>1, <2>2, MutateRowInv
<1>7. ASSUME NEW w \in ResetWallets, Reset(w) PROVE IInv'
  <2>1. w \in Wallets
    BY InputsAssumption
  <2>2. /\ ResetRow(w) /\ UNCHANGED <<refreshVars, routerVars>>
        /\ staged' \in [Presses -> Wallets \cup {NoWallet}]
    BY <1>2, <1>7, <2>1 DEF Reset, DemoReset, DemoSlashBegin, IInv, Shapes
  <2>3. QED
    BY <1>6, <1>7, <2>1, <2>2
<1>8. ASSUME NEW d \in Presses, DemoSlashEnd(d) PROVE IInv'
  <2> DEFINE row(u) == [Slashed(CurrentRow(u), DemoSlash)
                          EXCEPT !.bondStatus = "wiped", !.bondTokens = 0]
  <2>1. PICK u \in Urls : HasRow(u) /\ MutateRow(u, row(u))
    BY <1>8 DEF DemoSlashEnd, IsFirstOfWallet, IsFirst
  <2>2. Slashed(CurrentRow(u), DemoSlash) \in SaneRow
    BY <1>1, <2>1, SlashedIsSane, AmountsAssumption
  <2>3. row(u) \in SaneRow
    BY <2>2 DEF SaneRow, Row
  <2>4. /\ staged' \in [Presses -> Wallets \cup {NoWallet}]
        /\ UNCHANGED <<refreshVars, routerVars>>
    BY <1>8 DEF DemoSlashEnd, IInv, Shapes
  <2>5. QED
    BY <2>1, <2>3, <2>4, MutateRowInv
<1>9. QED
  BY <1>3, <1>4, <1>5, <1>7, <1>8 DEF Control

\* A quote names a provider that the table has.
LEMMA PickedHasRow ==
  ASSUME NEW m
  PROVE  PickProvider(m) # NoUrl => /\ PickProvider(m) \in Urls
                                    /\ HasRow(PickProvider(m))
<1>1. Cheapest(m) \subseteq {u \in Urls : HasRow(u)}
  BY DEF Cheapest, Candidates
<1>2. CASE Cheapest(m) = {}
  BY <1>2 DEF PickProvider
<1>3. CASE Cheapest(m) # {}
  <2>1. PICK u \in Cheapest(m) : TRUE
    BY <1>3
  <2>2. PickProvider(m) \in Cheapest(m)
    BY <2>1, <1>3 DEF PickProvider
  <2>3. QED
    BY <1>1, <2>2
<1>4. QED
  BY <1>2, <1>3

LEMMA GateInv ==
  ASSUME IInv, NEW q \in Requests, Gate(q) \/ QuoteExpires(q)
  PROVE  IInv'
<1> DEFINE url == IF phase[q] = "new" THEN PickProvider(ModelWanted[q]) ELSE NoUrl
<1>1. /\ phase[q] \in {"new", "gated"} /\ phase'[q] = "gated"
      /\ phase' = [phase EXCEPT ![q] = "gated"]
      /\ quoted' = [quoted EXCEPT ![q] = url]
      /\ UNCHANGED <<rows, providers, order, refreshVars, pinned, staged>>
  BY DEF Gate, QuoteExpires, tableVars, IInv, Shapes
<1>2. url # NoUrl => url \in Urls /\ HasRow(url)
  BY PickedHasRow
<1> HIDE DEF url
<1>3. Shapes'
  BY <1>1, <1>2 DEF IInv, Shapes, refreshVars
<1>4. References'
  BY <1>1, <1>2 DEF IInv, Shapes, References, refreshVars, HasRow, CurrentRow,
     Known, ExistingRow
<1>5. QED
  BY <1>3, <1>4 DEF IInv

LEMMA HandleInv ==
  ASSUME IInv, NEW q \in Requests, Handle(q)
  PROVE  IInv'
<1> DEFINE url == IF quoted[q] # NoUrl THEN quoted[q]
                                       ELSE PickProvider(ModelWanted[q])
<1>1. url # NoUrl => /\ url \in Urls /\ HasRow(url)
                     /\ providers[url] \in Cells /\ rows[url][providers[url]] \in SaneRow
  BY PickedHasRow DEF IInv, Shapes, References, HasRow, CurrentRow
<1>2. /\ phase[q] = "gated" /\ quoted' = [quoted EXCEPT ![q] = url]
      /\ UNCHANGED <<rows, providers, order, refreshVars, staged>>
      /\ \/ /\ url # NoUrl /\ phase' = [phase EXCEPT ![q] = "paying"]
            /\ pinned' = [pinned EXCEPT ![q] = providers[url]]
         \/ /\ phase' = [phase EXCEPT ![q] = "stale"]
            /\ UNCHANGED pinned
  BY DEF Handle, tableVars
<1> HIDE DEF url
<1>3. Shapes'
  BY <1>1, <1>2 DEF IInv, Shapes, refreshVars
<1>4. References'
  BY <1>1, <1>2 DEF IInv, Shapes, References, refreshVars, HasRow, CurrentRow,
     Known, ExistingRow, NoCell
<1>5. QED
  BY <1>3, <1>4 DEF IInv

LEMMA HeldAreSane ==
  ASSUME IInv, NEW u \in Urls, NEW c \in Held(u), c # NoCell
  PROVE  c \in Cells /\ rows[u][c] \in SaneRow
  BY DEF Held, IInv, Shapes, References, HasRow, CurrentRow, Known, ExistingRow

\* The end of a paid call, whatever it stores for the provider.
LEMMA ReleaseInv ==
  ASSUME IInv, NEW q \in Requests, NEW result \in {"served", "failed"},
         phase[q] = "paying", Release(q, result), NEW u \in Urls, quoted[q] = u,
         NEW new \in [Cells -> SaneRow \cup {Unused}],
         \A c \in Held(u) : c # NoCell => new[c] \in SaneRow,
         Collect(u, new), UNCHANGED order,
         providers' \in [Urls -> Cells \cup {NoCell}],
         \A v \in Urls : v # u => providers'[v] = providers[v],
         providers'[u] \in Held(u) \ {NoCell}
  PROVE  IInv'
<1>1. pinned[q] # NoCell
  BY DEF IInv, Shapes, References
<1>2. /\ phase' = [phase EXCEPT ![q] = result]
      /\ pinned' = [pinned EXCEPT ![q] = NoCell]
      /\ UNCHANGED <<hcsRegistrations, fetching, existing, quoted, staged>>
  BY DEF Release, refreshVars
<1>3. u # NoUrl
  BY UrlsAssumption DEF NoUrl
<1>4. /\ rows' \in [Urls -> [Cells -> SaneRow \cup {Unused}]]
      /\ \A v \in Urls : v # u => rows'[v] = rows[v]
      /\ \A c \in Cells : c \in Held(u)' => rows'[u][c] = new[c]
  BY CollectKeeps
<1>5. Shapes'
  BY <1>2, <1>4 DEF IInv, Shapes
<1>6. \A c \in Held(u)' : c # NoCell => c \in Held(u)
  BY <1>2 DEF Held, IInv, Shapes
<1>7. \A c \in Held(u)' : c # NoCell => rows'[u][c] \in SaneRow
  BY <1>4, <1>6, HeldAreSane
<1>8. \A v \in Urls : HasRow(v)' => CurrentRow(v)' \in SaneRow
  BY <1>4, <1>7, HeldNext DEF IInv, References, HasRow, CurrentRow
<1>9. \A r \in Refreshers, v \in Urls : Known(r, v)' => ExistingRow(r, v)' \in SaneRow
  BY <1>2, <1>4, <1>7, HeldNext DEF IInv, References, Known, ExistingRow
<1>10. \A p \in Requests :
         pinned'[p] # NoCell => /\ quoted'[p] # NoUrl
                                /\ rows'[quoted'[p]][pinned'[p]] \in SaneRow
  <2> SUFFICES ASSUME NEW p \in Requests, pinned'[p] # NoCell
               PROVE  /\ quoted'[p] # NoUrl
                      /\ rows'[quoted'[p]][pinned'[p]] \in SaneRow
    OBVIOUS
  <2>1. pinned'[p] = pinned[p] /\ quoted'[p] = quoted[p] /\ quoted[p] # NoUrl
        /\ quoted[p] \in Urls /\ rows[quoted[p]][pinned[p]] \in SaneRow
    BY <1>2 DEF IInv, Shapes, References
  <2>2. CASE quoted[p] = u
    BY <2>1, <2>2, <1>7, HeldNext
  <2>3. CASE quoted[p] # u
    BY <2>1, <2>3, <1>4
  <2>4. QED
    BY <2>2, <2>3
<1>11. \A p \in Requests : quoted'[p] # NoUrl => providers'[quoted'[p]] # NoCell
  BY <1>2 DEF IInv, Shapes, References, HasRow
<1>12. \A p \in Requests : p # q => phase'[p] = phase[p] /\ pinned'[p] = pinned[p]
  BY <1>2 DEF IInv, Shapes
<1>13. phase'[q] = result /\ fetching[q] = {}
  BY <1>2 DEF IInv, Shapes, References, Refreshers
<1>14. \A p \in Requests :
         /\ phase'[p] = "paying" => pinned'[p] # NoCell
         /\ phase'[p] \in {"new", "gated", "stale", "refreshing"} => pinned'[p] = NoCell
         /\ fetching'[p] # {} => phase'[p] = "refreshing"
  <2>1. fetching' = fetching /\ quoted' = quoted /\ result \notin {"paying", "new", "gated",
          "stale", "refreshing", "refused"}
    BY <1>2
  <2>2. QED
    BY <2>1, <1>12, <1>13 DEF IInv, References
<1>15. References'
  BY <1>8, <1>9, <1>10, <1>11, <1>14 DEF References, HasRow
<1>16. QED
  BY <1>5, <1>15 DEF IInv

LEMMA ProviderServesInv ==
  ASSUME IInv, NEW q \in Requests, ProviderServes(q)
  PROVE  IInv'
<1> DEFINE u   == quoted[q]
           c   == pinned[q]
           row == [rows[u][c] EXCEPT !.requestsServed = @ + 1]
           new == [rows[u] EXCEPT ![c] = row]
<1>1. /\ u \in Urls /\ c \in Cells /\ c # NoCell /\ rows[u][c] \in SaneRow
      /\ phase[q] = "paying"
  BY DEF ProviderServes, IInv, Shapes, References
<1>2. row \in SaneRow
  BY <1>1 DEF SaneRow, Row
<1>3. c \in Held(u)
  BY DEF Held
<1> HIDE DEF row
<1>4. new \in [Cells -> SaneRow \cup {Unused}]
      /\ \A d \in Held(u) : d # NoCell => new[d] \in SaneRow
  BY <1>1, <1>2, HeldAreSane DEF IInv, Shapes
<1>5. /\ Release(q, "served") /\ Collect(u, new) /\ UNCHANGED order
      /\ providers' = [providers EXCEPT ![u] = c]
  BY DEF ProviderServes, row
<1>6. /\ providers' \in [Urls -> Cells \cup {NoCell}] /\ providers'[u] = c
      /\ \A v \in Urls : v # u => providers'[v] = providers[v]
  BY <1>1, <1>5 DEF IInv, Shapes
<1> HIDE DEF new
<1>7. QED
  BY <1>1, <1>3, <1>4, <1>5, <1>6, ReleaseInv

LEMMA ProviderFailsInv ==
  ASSUME IInv, NEW q \in Requests, ProviderFails(q)
  PROVE  IInv'
<1>1. /\ quoted[q] \in Urls /\ HasRow(quoted[q]) /\ phase[q] = "paying"
      /\ providers[quoted[q]] \in Held(quoted[q])
      /\ rows[quoted[q]] \in [Cells -> SaneRow \cup {Unused}]
  BY DEF ProviderFails, IInv, Shapes, References, Held
<1>2. \A c \in Held(quoted[q]) : c # NoCell => rows[quoted[q]][c] \in SaneRow
  BY <1>1, HeldAreSane
<1>3. /\ Release(q, "failed") /\ Collect(quoted[q], rows[quoted[q]])
      /\ UNCHANGED <<providers, order>> /\ providers' \in [Urls -> Cells \cup {NoCell}]
  BY DEF ProviderFails, IInv, Shapes
<1>4. QED
  BY <1>1, <1>2, <1>3, ReleaseInv DEF HasRow

-----------------------------------------------------------------------------
LEMMA StepInv == IInv /\ [Next]_vars => IInv'
<1> SUFFICES ASSUME IInv, [Next]_vars PROVE IInv'
  OBVIOUS
<1>1. ASSUME NEW r \in Refreshers, Refresh(r) PROVE IInv'
  BY <1>1, RefreshBeginInv, InfoOkInv, InfoBadPriceInv, InfoFailsInv DEF Refresh
<1>2. CASE Control
  BY <1>2, ControlInv
<1>3. ASSUME NEW q \in Requests, Route(q) PROVE IInv'
  BY <1>3, GateInv, HandleInv, ProviderServesInv, ProviderFailsInv DEF Route
<1>4. CASE UNCHANGED vars
  BY <1>4 DEF vars, tableVars, refreshVars, routerVars, IInv, Shapes, References,
     HasRow, CurrentRow, Known, ExistingRow
<1>5. QED
  BY <1>1, <1>2, <1>3, <1>4 DEF Next

LEMMA Invariance == Spec => []IInv
  BY InitInv, StepInv, PTL DEF Spec

\* Every variable of the routing table keeps its shape, for any number of
\* providers, refreshes and requests (state.ts:7, types.ts ProviderRow).
THEOREM TypeCorrect == Spec => []TypeOK
<1>1. IInv => TypeOK
  BY DEF IInv, Shapes, TypeOK, SaneRow
<1>2. QED
  BY <1>1, Invariance, PTL

\* No interleaving of refreshes, in-place mutations and write-backs makes a
\* row that is slashed and still has reputation (slash.ts:27-28 sets both).
THEOREM SlashTakesReputation == Spec => []SlashImpliesNoReputation
<1>1. IInv => SlashImpliesNoReputation
  BY DEF IInv, Shapes, SlashImpliesNoReputation, SaneRow, Unused
<1>2. QED
  BY <1>1, Invariance, PTL

-----------------------------------------------------------------------------
(* What a step shows in the table: which rows change, and what they keep.  *)

RowStanding(row) == <<row.reputation, row.stakeHbar, row.bondTokens, row.bondStatus>>

LEMMA AnswerFrame ==
  ASSUME IInv, NEW r \in Refreshers, NEW u \in Urls, NEW next, ResumeAfter(r, u, next)
  PROVE  fetching'[r] = fetching[r] \ {u}
  BY DEF ResumeAfter, IInv, Shapes

LEMMA InstallRowShows ==
  ASSUME IInv, NEW r \in Refreshers, NEW u \in Urls,
         NEW row \in SaneRow, InstallRow(r, u, row)
  PROVE  /\ HasRow(u)' /\ CurrentRow(u)' = row
         /\ \A v \in Urls : v # u => /\ providers'[v] = providers[v]
                                     /\ CurrentRow(v)' = CurrentRow(v)
         /\ u \notin fetching'[r]
         /\ \A v \in Urls, d \in Cells :
              rows'[v][d] \in {row, Unused, rows[v][d]}
<1>1. PICK c \in Cells \ Held(u) :
        /\ ResumeAfter(r, u, [providers EXCEPT ![u] = c])
        /\ Collect(u, [rows[u] EXCEPT ![c] = row])
  BY DEF InstallRow
<1> DEFINE new == [rows[u] EXCEPT ![c] = row]
<1>2. /\ new \in [Cells -> SaneRow \cup {Unused}] /\ new[c] = row
      /\ \A d \in Cells : d # c => new[d] = rows[u][d]
  BY DEF IInv, Shapes
<1>3. /\ providers'[u] = c /\ c # NoCell
      /\ \A v \in Urls : v # u => providers'[v] = providers[v]
  BY <1>1, UrlsAssumption DEF ResumeAfter, IInv, Shapes, NoCell
<1> HIDE DEF new
<1>4. Collect(u, new)
  BY <1>1 DEF new
<1>5. /\ \A v \in Urls : v # u => rows'[v] = rows[v]
      /\ \A d \in Cells : d \in Held(u)' => rows'[u][d] = new[d]
      /\ \A d \in Cells : rows'[u][d] \in {new[d], Unused}
  BY <1>2, <1>4, CollectKeeps DEF Collect, IInv, Shapes
<1>6. rows'[u][c] = row
  BY <1>2, <1>3, <1>5, HeldNext
<1>7. \A v \in Urls, d \in Cells : rows'[v][d] \in {row, Unused, rows[v][d]}
  BY <1>2, <1>5
<1>8. u \notin fetching'[r]
  BY <1>1, AnswerFrame
<1>9. QED
  BY <1>3, <1>5, <1>6, <1>7, <1>8 DEF HasRow, CurrentRow

LEMMA KeepRowShows ==
  ASSUME IInv, NEW r \in Refreshers, NEW u \in Urls, KeepRow(r, u)
  PROVE  /\ UNCHANGED providers
         /\ \A v \in Urls : HasRow(v) => CurrentRow(v)' = CurrentRow(v)
         /\ \A v \in Urls, d \in Cells : rows'[v][d] \in {Unused, rows[v][d]}
<1>1. ResumeAfter(r, u, providers) /\ Collect(u, rows[u]) /\ UNCHANGED providers
  BY DEF KeepRow, ResumeAfter
<1>2. rows[u] \in [Cells -> SaneRow \cup {Unused}] /\ providers \in [Urls -> Cells \cup {NoCell}]
  BY DEF IInv, Shapes
<1>3. /\ \A v \in Urls : v # u => rows'[v] = rows[v]
      /\ \A d \in Cells : d \in Held(u)' => rows'[u][d] = rows[u][d]
      /\ \A d \in Cells : rows'[u][d] \in {rows[u][d], Unused}
  BY <1>1, <1>2, CollectKeeps DEF Collect, IInv, Shapes
<1>4. HasRow(u) => rows'[u][providers[u]] = rows[u][providers[u]]
  BY <1>1, <1>2, <1>3, HeldNext DEF HasRow
<1>5. QED
  BY <1>1, <1>3, <1>4 DEF HasRow, CurrentRow

LEMMA MutateRowShows ==
  ASSUME IInv, NEW u \in Urls, HasRow(u), NEW row, MutateRow(u, row)
  PROVE  /\ UNCHANGED providers /\ CurrentRow(u)' = row
         /\ \A v \in Urls : v # u => CurrentRow(v)' = CurrentRow(v)
         /\ \A v \in Urls, c \in Cells :
              \/ rows'[v][c] = rows[v][c]
              \/ rows'[v][c] = row /\ rows[v][c] = CurrentRow(u)
  BY DEF MutateRow, IInv, Shapes, HasRow, CurrentRow

LEMMA FreshRowIsPriced ==
  ASSUME NEW price, NEW status, NEW stake, status = "live" => price # 0
  PROVE  ~Unpriced(FreshRow(price, status, stake))
  BY DEF FreshRow, Unpriced

\* An answer of /info leaves the row alone or stores a row with the standing
\* of the one that the refresh captured.
Stores(r, u, row) ==
  /\ InstallRow(r, u, row) /\ ~Unpriced(row)
  /\ Known(r, u) =>
       /\ RowStanding(row) = RowStanding(ExistingRow(r, u))
       /\ ExistingRow(r, u).status = "slashed" => row.status = "slashed" \/ InfoBadPrice(r, u)

LEMMA AnswerStores ==
  ASSUME IInv, NEW r \in Refreshers, NEW u \in Urls, InfoAnswers(r, u)
  PROVE  u \in fetching[r] /\ (KeepRow(r, u) \/ \E row \in SaneRow : Stores(r, u, row))
<1>1. Known(r, u) => ExistingRow(r, u) \in SaneRow
  BY DEF IInv, References
<1>2. ASSUME NEW p \in Prices, InfoOk(r, u, p)
      PROVE  \E row \in SaneRow : Stores(r, u, row)
  <2>1. p \in Nat \ {0}
    BY AmountsAssumption
  <2>2. CASE Known(r, u)
    <3> DEFINE was == ExistingRow(r, u)
               row == [was EXCEPT !.price = p, !.status =
                         IF was.status = "slashed" THEN "slashed" ELSE "live"]
    <3>1. InstallRow(r, u, row)
      BY <1>2, <2>2 DEF InfoOk
    <3>2. row \in SaneRow /\ RowStanding(row) = RowStanding(was)
          /\ (was.status = "slashed" => row.status = "slashed") /\ ~Unpriced(row)
      BY <1>1, <2>1, <2>2 DEF SaneRow, Row, RowStanding, Unpriced
    <3> HIDE DEF row
    <3>3. QED
      BY <3>1, <3>2 DEF Stores
  <2>3. CASE ~Known(r, u)
    <3>1. PICK stake \in Nat : InstallRow(r, u, FreshRow(p, "live", stake))
      BY <1>2, <2>3, AmountsAssumption DEF InfoOk
    <3>2. FreshRow(p, "live", stake) \in SaneRow /\ ~Unpriced(FreshRow(p, "live", stake))
      BY <2>1, FreshRowIsSane, FreshRowIsPriced
    <3>3. QED
      BY <2>3, <3>1, <3>2 DEF Stores
  <2>4. QED
    BY <2>2, <2>3
<1>3. ASSUME InfoBadPrice(r, u) PROVE \E row \in SaneRow : Stores(r, u, row)
  <2>1. CASE Known(r, u)
    <3> DEFINE row == [ExistingRow(r, u) EXCEPT !.price = 0, !.status = "down"]
    <3>1. InstallRow(r, u, row)
      BY <1>3, <2>1 DEF InfoBadPrice
    <3>2. row \in SaneRow /\ RowStanding(row) = RowStanding(ExistingRow(r, u))
          /\ ~Unpriced(row)
      BY <1>1, <2>1 DEF SaneRow, Row, RowStanding, Unpriced
    <3> HIDE DEF row
    <3>3. QED
      BY <1>3, <3>1, <3>2 DEF Stores
  <2>2. CASE ~Known(r, u)
    <3> DEFINE row == FreshRow(0, "down", InitialStake)
    <3>1. InstallRow(r, u, row)
      BY <1>3, <2>2 DEF InfoBadPrice
    <3>2. row \in SaneRow /\ ~Unpriced(row)
      BY FreshRowIsSane, FreshRowIsPriced, AmountsAssumption
    <3> HIDE DEF row
    <3>3. QED
      BY <2>2, <3>1, <3>2 DEF Stores
  <2>3. QED
    BY <2>1, <2>2
<1>4. ASSUME InfoFails(r, u), ~KeepRow(r, u) PROVE \E row \in SaneRow : Stores(r, u, row)
  <2>1. CASE Known(r, u)
    <3> DEFINE row == [ExistingRow(r, u) EXCEPT !.status = "down"]
    <3>1. InstallRow(r, u, row) /\ ExistingRow(r, u).status # "slashed"
      BY <1>4, <2>1 DEF InfoFails
    <3>2. row \in SaneRow /\ RowStanding(row) = RowStanding(ExistingRow(r, u))
          /\ ~Unpriced(row)
      BY <1>1, <2>1 DEF SaneRow, Row, RowStanding, Unpriced
    <3> HIDE DEF row
    <3>3. QED
      BY <3>1, <3>2 DEF Stores
  <2>2. CASE ~Known(r, u)
    <3> DEFINE row == FreshRow(HcsPrice[u], "down", HcsStake[u])
    <3>1. InstallRow(r, u, row)
      BY <1>4, <2>2 DEF InfoFails
    <3>2. row \in SaneRow /\ ~Unpriced(row)
      BY FreshRowIsSane, FreshRowIsPriced, AmountsAssumption
    <3> HIDE DEF row
    <3>3. QED
      BY <2>2, <3>1, <3>2 DEF Stores
  <2>3. QED
    BY <2>1, <2>2
<1>5. u \in fetching[r]
  BY DEF InfoAnswers, InfoOk, InfoBadPrice, InfoFails
<1>6. QED
  BY <1>2, <1>3, <1>4, <1>5 DEF InfoAnswers

\* The parts of the three action properties, for one provider and one object.
SlashKept(u) ==
  HasRow(u) /\ CurrentRow(u).status = "slashed"
    => \/ HasRow(u)' /\ CurrentRow(u)'.status = "slashed"
       \/ \E w \in ResetWallets : Reset(w)
       \/ \E r \in Refreshers : \/ InfoBadPrice(r, u)
                                \/ MissedByRefresh(r, u) /\ u \notin fetching'[r]
       \/ \E q \in Requests : MissedByRequest(q, u) /\ phase'[q] = "served"

StandingKept(u) ==
  HasRow(u)
    => \/ HasRow(u)' /\ Standing(u)' = Standing(u)
       \/ Control
       \/ \E r \in Refreshers : /\ u \in fetching[r] \ fetching'[r]
                                /\ existing[r][u] # providers[u]
       \/ \E q \in Requests : /\ phase[q] = "paying" /\ phase'[q] = "served"
                              /\ quoted[q] = u /\ pinned[q] # providers[u]

PriceKept(u, c) ==
  Unpriced(rows'[u][c]) => Unpriced(rows[u][c]) \/ \E w \in ResetWallets : Reset(w)

AllKept == \A u \in Urls : /\ SlashKept(u) /\ StandingKept(u)
                           /\ \A c \in Cells : PriceKept(u, c)

LEMMA UnusedIsPriced == ~Unpriced(Unused)
  BY DEF Unpriced, Unused

\* Nothing that the table shows has changed.
LEMMA SameRows ==
  ASSUME UNCHANGED providers,
         \A v \in Urls : HasRow(v) => CurrentRow(v)' = CurrentRow(v),
         \A v \in Urls, d \in Cells : rows'[v][d] \in {Unused, rows[v][d]}
  PROVE  AllKept
  BY UnusedIsPriced DEF AllKept, SlashKept, StandingKept, PriceKept, HasRow, Standing

LEMMA AnswerKeeps ==
  ASSUME IInv, NEW r \in Refreshers, NEW u \in Urls, InfoAnswers(r, u)
  PROVE  AllKept
<1>1. CASE KeepRow(r, u)
  BY <1>1, KeepRowShows, SameRows
<1>2. ASSUME NEW row \in SaneRow, Stores(r, u, row) PROVE AllKept
  <2>1. InstallRow(r, u, row) /\ ~Unpriced(row) /\ u \in fetching[r]
    BY <1>2, AnswerStores DEF Stores
  <2>2. /\ HasRow(u)' /\ CurrentRow(u)' = row
        /\ \A v \in Urls : v # u => /\ providers'[v] = providers[v]
                                    /\ CurrentRow(v)' = CurrentRow(v)
        /\ u \notin fetching'[r]
        /\ \A v \in Urls, d \in Cells : rows'[v][d] \in {row, Unused, rows[v][d]}
    BY <2>1, InstallRowShows
  <2>3. \A v \in Urls : v # u => SlashKept(v) /\ StandingKept(v)
    BY <2>2 DEF SlashKept, StandingKept, HasRow, Standing
  <2>4. \A v \in Urls, c \in Cells : PriceKept(v, c)
    BY <2>1, <2>2, UnusedIsPriced DEF PriceKept
  <2>5. SlashKept(u)
    <3>1. CASE MissedByRefresh(r, u)
      BY <2>2, <3>1 DEF SlashKept
    <3>2. CASE ~MissedByRefresh(r, u)
      <4>1. row.status = "slashed" \/ InfoBadPrice(r, u)
        BY <1>2, <2>1, <3>2 DEF Stores, MissedByRefresh
      <4>2. QED
        BY <2>2, <4>1 DEF SlashKept
    <3>3. QED
      BY <3>1, <3>2
  <2>6. StandingKept(u)
    <3>1. CASE existing[r][u] # providers[u]
      BY <2>1, <2>2, <3>1 DEF StandingKept
    <3>2. CASE existing[r][u] = providers[u] /\ HasRow(u)
      <4>1. RowStanding(row) = RowStanding(CurrentRow(u))
        BY <1>2, <3>2 DEF Stores, Known, HasRow, ExistingRow, CurrentRow
      <4>2. Standing(u)' = Standing(u)
        BY <2>2, <4>1 DEF Standing, RowStanding
      <4>3. QED
        BY <2>2, <4>2 DEF StandingKept
    <3>3. QED
      BY <3>1, <3>2 DEF StandingKept
  <2>7. QED
    BY <2>3, <2>4, <2>5, <2>6 DEF AllKept
<1>3. QED
  BY <1>1, <1>2, AnswerStores

\* A control call keeps the rows of the table, its slashes and its prices
\* unless it resets.
LEMMA ControlKeeps ==
  ASSUME IInv, Control
  PROVE  AllKept
<1>1. \A u \in Urls : HasRow(u) => CurrentRow(u) \in SaneRow
  BY DEF IInv, References
<1>2. \A row \in SaneRow, a \in Nat : Slashed(row, a).status = "slashed"
  BY SlashedIsSane
<1>3. UNCHANGED providers
  BY DEF Control, Slash, BondEvent, VerifyReport, Reset, DemoReset, DemoSlashBegin,
     DemoSlashEnd, ResetRow, MutateRow
<1>4. ASSUME NEW w \in Wallets, NEW a \in SlashAmounts, Slash(w, a)
      PROVE  \E u \in Urls, row \in SaneRow :
               HasRow(u) /\ MutateRow(u, row) /\ row.status = "slashed"
  <2>1. PICK u \in Urls : HasRow(u) /\ MutateRow(u, Slashed(CurrentRow(u), a))
    BY <1>4 DEF Slash, IsFirstOfWallet, IsFirst
  <2>2. QED
    BY <1>1, <1>2, <2>1, SlashedIsSane, AmountsAssumption
<1>5. ASSUME NEW w \in Wallets, NEW e \in BondEvents, BondEvent(w, e)
      PROVE  \E u \in Urls : \E row :
               /\ HasRow(u) /\ MutateRow(u, row)
               /\ row.status = CurrentRow(u).status /\ row.price = CurrentRow(u).price
  <2> DEFINE tokens(u) == IF e.bondTokens # {}
                          THEN AtLeastZero(CHOOSE n \in e.bondTokens : TRUE)
                          ELSE IF e.bondStatus = "wiped" THEN 0
                          ELSE CurrentRow(u).bondTokens
             row(u) == [CurrentRow(u) EXCEPT !.bondStatus = e.bondStatus,
                                             !.bondTokens = tokens(u)]
  <2>1. PICK u \in Urls : HasRow(u) /\ MutateRow(u, row(u))
    BY <1>5 DEF BondEvent, IsFirstOfWallet, IsFirst
  <2> HIDE DEF tokens
  <2>2. row(u).status = CurrentRow(u).status /\ row(u).price = CurrentRow(u).price
    BY <1>1, <2>1 DEF SaneRow, Row
  <2>3. QED
    BY <2>1, <2>2
<1>6. ASSUME NEW n, VerifyReport(n)
      PROVE  \E u \in Urls : \E row :
               /\ HasRow(u) /\ MutateRow(u, row)
               /\ row.status = CurrentRow(u).status /\ row.price = CurrentRow(u).price
  <2> DEFINE row(u) == [CurrentRow(u) EXCEPT !.reputation =
                          IF @ < MaxReputation THEN @ + 1 ELSE @]
  <2>1. PICK u \in Urls : HasRow(u) /\ MutateRow(u, row(u))
    BY <1>6 DEF VerifyReport, IsFirstOfName, IsFirst
  <2>2. row(u).status = CurrentRow(u).status /\ row(u).price = CurrentRow(u).price
    BY <1>1, <2>1 DEF SaneRow, Row
  <2>3. QED
    BY <2>1, <2>2
<1>7. ASSUME NEW d \in Presses, DemoSlashEnd(d)
      PROVE  \E u \in Urls : \E row : HasRow(u) /\ MutateRow(u, row)
                                  /\ row.status = "slashed"
  <2> DEFINE was(u) == Slashed(CurrentRow(u), DemoSlash)
             row(u) == [was(u) EXCEPT !.bondStatus = "wiped", !.bondTokens = 0]
  <2>1. PICK u \in Urls : HasRow(u) /\ MutateRow(u, row(u))
    BY <1>7 DEF DemoSlashEnd, IsFirstOfWallet, IsFirst
  <2>2. was(u) \in SaneRow /\ was(u).status = "slashed"
    BY <1>1, <1>2, <2>1, SlashedIsSane, AmountsAssumption
  <2> HIDE DEF was
  <2>3. row(u).status = "slashed"
    BY <2>2 DEF SaneRow, Row
  <2>4. QED
    BY <2>1, <2>3
<1>8. \/ \E w \in ResetWallets : Reset(w)
      \/ \E u \in Urls : \E row :
           /\ HasRow(u) /\ MutateRow(u, row)
           /\ CurrentRow(u).status = "slashed" => row.status = "slashed"
           /\ Unpriced(row) => Unpriced(CurrentRow(u))
  BY <1>4, <1>5, <1>6, <1>7 DEF Control, Unpriced
<1>9. CASE \E w \in ResetWallets : Reset(w)
  BY <1>9 DEF AllKept, SlashKept, StandingKept, PriceKept
<1>10. ASSUME NEW u \in Urls, NEW row, HasRow(u), MutateRow(u, row),
              CurrentRow(u).status = "slashed" => row.status = "slashed",
              Unpriced(row) => Unpriced(CurrentRow(u))
       PROVE  AllKept
  <2>1. /\ CurrentRow(u)' = row
        /\ \A v \in Urls : v # u => CurrentRow(v)' = CurrentRow(v)
        /\ \A v \in Urls, c \in Cells :
             \/ rows'[v][c] = rows[v][c]
             \/ rows'[v][c] = row /\ rows[v][c] = CurrentRow(u)
    BY <1>10, MutateRowShows
  <2>2. \A v \in Urls : SlashKept(v)
    BY <1>3, <1>10, <2>1 DEF SlashKept, HasRow
  <2>3. \A v \in Urls, c \in Cells : PriceKept(v, c)
    BY <1>10, <2>1 DEF PriceKept
  <2>4. QED
    BY <2>2, <2>3 DEF AllKept, StandingKept
<1>11. QED
  BY <1>8, <1>9, <1>10

LEMMA ServesKeeps ==
  ASSUME IInv, NEW q \in Requests, ProviderServes(q)
  PROVE  AllKept
<1>0. PICK u \in Urls, c \in Cells : u = quoted[q] /\ c = pinned[q] /\ c # NoCell
  BY DEF ProviderServes, IInv, Shapes, References
<1> DEFINE row == [rows[u][c] EXCEPT !.requestsServed = @ + 1]
           new == [rows[u] EXCEPT ![c] = row]
<1>1. /\ rows[u][c] \in SaneRow
      /\ phase[q] = "paying" /\ phase'[q] = "served"
      /\ rows[u] \in [Cells -> SaneRow \cup {Unused}]
  BY <1>0 DEF ProviderServes, Release, IInv, Shapes, References
<1>2. /\ row \in SaneRow /\ row.status = rows[u][c].status
      /\ row.price = rows[u][c].price /\ RowStanding(row) = RowStanding(rows[u][c])
  BY <1>1 DEF SaneRow, Row, RowStanding
<1> HIDE DEF row
<1>3. /\ new \in [Cells -> SaneRow \cup {Unused}] /\ new[c] = row
      /\ \A d \in Cells : d # c => new[d] = rows[u][d]
  BY <1>1, <1>2
<1>4. Collect(u, new) /\ providers' = [providers EXCEPT ![u] = c]
  BY <1>0 DEF ProviderServes, row
<1>5. /\ providers'[u] = c /\ \A v \in Urls : v # u => providers'[v] = providers[v]
  BY <1>1, <1>4 DEF IInv, Shapes
<1> HIDE DEF new
<1>6. /\ \A v \in Urls : v # u => rows'[v] = rows[v]
      /\ \A d \in Cells : d \in Held(u)' => rows'[u][d] = new[d]
      /\ \A d \in Cells : rows'[u][d] \in {new[d], Unused}
  BY <1>1, <1>3, <1>4, CollectKeeps DEF Collect, IInv, Shapes
<1>7. HasRow(u)' /\ CurrentRow(u)' = row
  BY <1>0, <1>3, <1>5, <1>6, HeldNext DEF HasRow, CurrentRow
<1>8. \A v \in Urls : v # u => SlashKept(v) /\ StandingKept(v)
  BY <1>5, <1>6 DEF SlashKept, StandingKept, HasRow, CurrentRow, Standing
<1>9. \A v \in Urls, d \in Cells : PriceKept(v, d)
  <2> SUFFICES ASSUME NEW v \in Urls, NEW d \in Cells, Unpriced(rows'[v][d])
               PROVE  Unpriced(rows[v][d])
    BY DEF PriceKept
  <2>1. CASE v # u
    BY <1>6, <2>1
  <2>2. CASE v = u
    BY <1>2, <1>3, <1>6, <2>2, UnusedIsPriced DEF Unpriced
  <2>3. QED
    BY <2>1, <2>2
<1>10. SlashKept(u)
  <2>1. CASE rows[u][c].status = "slashed"
    BY <1>2, <1>7, <2>1 DEF SlashKept
  <2>2. CASE rows[u][c].status # "slashed"
    BY <1>0, <1>1, <2>2 DEF SlashKept, MissedByRequest
  <2>3. QED
    BY <2>1, <2>2
<1>11. StandingKept(u)
  <2>1. CASE c # providers[u]
    BY <1>0, <1>1, <2>1 DEF StandingKept
  <2>2. CASE c = providers[u]
    <3>1. Standing(u)' = Standing(u)
      BY <1>2, <1>7, <2>2 DEF Standing, RowStanding, CurrentRow
    <3>2. QED
      BY <1>7, <3>1 DEF StandingKept
  <2>3. QED
    BY <2>1, <2>2
<1>12. QED
  BY <1>8, <1>9, <1>10, <1>11 DEF AllKept

LEMMA FailsKeeps ==
  ASSUME IInv, NEW q \in Requests, ProviderFails(q)
  PROVE  AllKept
<1>0. PICK u \in Urls : u = quoted[q]
  BY DEF ProviderFails, IInv, Shapes, References
<1>1. /\ rows[u] \in [Cells -> SaneRow \cup {Unused}]
      /\ UNCHANGED providers /\ Collect(u, rows[u])
      /\ providers \in [Urls -> Cells \cup {NoCell}]
  BY <1>0 DEF ProviderFails, IInv, Shapes, References
<1>2. /\ \A v \in Urls : v # u => rows'[v] = rows[v]
      /\ \A d \in Cells : d \in Held(u)' => rows'[u][d] = rows[u][d]
      /\ \A d \in Cells : rows'[u][d] \in {rows[u][d], Unused}
  BY <1>1, CollectKeeps DEF Collect, IInv, Shapes
<1>3. HasRow(u) => rows'[u][providers[u]] = rows[u][providers[u]]
  BY <1>1, <1>2, HeldNext DEF HasRow
<1>4. QED
  BY <1>1, <1>2, <1>3, SameRows DEF HasRow, CurrentRow

LEMMA StepKeeps == IInv /\ [Next]_vars => AllKept \/ UNCHANGED vars
<1> SUFFICES ASSUME IInv, Next PROVE AllKept
  OBVIOUS
<1>1. ASSUME UNCHANGED <<rows, providers>> PROVE AllKept
  BY <1>1, SameRows DEF CurrentRow
<1>2. ASSUME NEW r \in Refreshers, Refresh(r) PROVE AllKept
  BY <1>1, <1>2, AnswerKeeps DEF Refresh, RefreshBegin, tableVars, InfoAnswers
<1>3. ASSUME NEW q \in Requests, Route(q) PROVE AllKept
  BY <1>1, <1>3, ServesKeeps, FailsKeeps DEF Route, Gate, QuoteExpires, Handle, tableVars
<1>4. QED
  BY <1>2, <1>3, ControlKeeps DEF Next

\* However many refreshes and requests overlap, a slash is lost in no other
\* way than by a reset, by an answer without a price, or to somebody who read
\* the row before it (discovery.ts:4, index.ts:421).
THEOREM SlashIsLostOnlyToStale == Spec => SlashLostOnlyToStale
<1>1. IInv /\ [Next]_vars =>
        [\A u \in Urls :
           HasRow(u) /\ CurrentRow(u).status = "slashed"
             => \/ HasRow(u)' /\ CurrentRow(u)'.status = "slashed"
                \/ \E w \in ResetWallets : Reset(w)
                \/ \E r \in Refreshers : \/ InfoBadPrice(r, u)
                                         \/ MissedByRefresh(r, u) /\ u \notin fetching'[r]
                \/ \E q \in Requests : MissedByRequest(q, u) /\ phase'[q] = "served"]_vars
  BY StepKeeps DEF AllKept, SlashKept
<1>2. QED
  BY <1>1, Invariance, PTL DEF Spec, SlashLostOnlyToStale

\* Likewise reputation, stake and bond: only a control call changes them, or
\* an object that is stored back although the table has another by then.
THEOREM StandingIsLostOnlyToStale == Spec => StandingLostOnlyToStale
<1>1. IInv /\ [Next]_vars =>
        [\A u \in Urls :
           HasRow(u)
             => \/ HasRow(u)' /\ Standing(u)' = Standing(u)
                \/ Control
                \/ \E r \in Refreshers : /\ u \in fetching[r] \ fetching'[r]
                                         /\ existing[r][u] # providers[u]
                \/ \E q \in Requests : /\ phase[q] = "paying" /\ phase'[q] = "served"
                                       /\ quoted[q] = u /\ pinned[q] # providers[u]]_vars
  BY StepKeeps DEF AllKept, StandingKept
<1>2. QED
  BY <1>1, Invariance, PTL DEF Spec, StandingLostOnlyToStale

\* No refresh, endpoint or store-back makes a row that is live without a
\* price; a reset does (discovery.ts:49-51, demo.ts:39).
THEOREM ResetsAloneUnprice == Spec => OnlyAResetUnprices
<1>1. IInv /\ [Next]_vars =>
        [\A u \in Urls, c \in Cells :
           Unpriced(rows'[u][c]) => \/ Unpriced(rows[u][c])
                                   \/ \E w \in ResetWallets : Reset(w)]_vars
  BY StepKeeps DEF AllKept, PriceKept
<1>2. QED
  BY <1>1, Invariance, PTL DEF Spec, OnlyAResetUnprices

-----------------------------------------------------------------------------
(* Counting what was served.                                               *)

ServedBy(u) == {q \in Requests : phase[q] = "served" /\ quoted[q] = u}

\* No object, in the table or held by somebody, has counted more requests than
\* its provider served.
CountsBounded ==
  \A u \in Urls, c \in Cells :
    rows[u][c] \in SaneRow => rows[u][c].requestsServed <= Cardinality(ServedBy(u))

LEMMA ServedIsFinite ==
  ASSUME NEW u
  PROVE  IsFiniteSet(ServedBy(u)) /\ Cardinality(ServedBy(u)) \in Nat
  BY UrlsAssumption, FS_Subset, FS_CardinalityType DEF ServedBy

\* A step that ends no request, and whose rows carry counts that were there.
LEMMA CountsCarried ==
  ASSUME CountsBounded,
         \A q \in Requests : phase'[q] = "served" <=> phase[q] = "served",
         \A q \in Requests : phase[q] = "served" => quoted'[q] = quoted[q],
         \A u \in Urls, c \in Cells : rows'[u][c] \in SaneRow =>
           \/ rows'[u][c].requestsServed = 0
           \/ \E d \in Cells : /\ rows[u][d] \in SaneRow
                               /\ rows'[u][c].requestsServed = rows[u][d].requestsServed
  PROVE  CountsBounded'
<1>1. \A u \in Urls : ServedBy(u)' = ServedBy(u)
  BY DEF ServedBy
<1> SUFFICES ASSUME NEW u \in Urls, NEW c \in Cells, rows'[u][c] \in SaneRow
             PROVE  rows'[u][c].requestsServed <= Cardinality(ServedBy(u)')
  BY DEF CountsBounded
<1>2. CASE rows'[u][c].requestsServed = 0
  BY <1>1, <1>2, ServedIsFinite
<1>3. ASSUME NEW d \in Cells, rows[u][d] \in SaneRow,
             rows'[u][c].requestsServed = rows[u][d].requestsServed
      PROVE  rows'[u][c].requestsServed <= Cardinality(ServedBy(u)')
  BY <1>1, <1>3 DEF CountsBounded
<1>4. QED
  BY <1>2, <1>3

\* What Collect leaves in the cells of a url.
LEMMA Collected ==
  ASSUME IInv, NEW u \in Urls, NEW new, Collect(u, new)
  PROVE  /\ \A v \in Urls : v # u => rows'[v] = rows[v]
         /\ \A c \in Cells : rows'[u][c] = new[c] \/ rows'[u][c] = Unused
  BY DEF Collect, IInv, Shapes

LEMMA UnusedIsNoRow == Unused \notin SaneRow
  BY RowsAreRecords

LEMMA CollectedCounts ==
  ASSUME IInv, CountsBounded, NEW u \in Urls, NEW new, Collect(u, new),
         \A q \in Requests : phase'[q] = "served" <=> phase[q] = "served",
         \A q \in Requests : phase[q] = "served" => quoted'[q] = quoted[q],
         \A c \in Cells : new[c] \in SaneRow =>
           \/ new[c].requestsServed = 0
           \/ \E d \in Cells : /\ rows[u][d] \in SaneRow
                               /\ new[c].requestsServed = rows[u][d].requestsServed
  PROVE  CountsBounded'
<1>1. \A v \in Urls, c \in Cells : rows'[v][c] \in SaneRow =>
        \/ rows'[v][c].requestsServed = 0
        \/ \E d \in Cells : /\ rows[v][d] \in SaneRow
                            /\ rows'[v][c].requestsServed = rows[v][d].requestsServed
  <2> SUFFICES ASSUME NEW v \in Urls, NEW c \in Cells, rows'[v][c] \in SaneRow
               PROVE  \/ rows'[v][c].requestsServed = 0
                      \/ \E d \in Cells :
                           /\ rows[v][d] \in SaneRow
                           /\ rows'[v][c].requestsServed = rows[v][d].requestsServed
    OBVIOUS
  <2>1. CASE v # u
    BY <2>1, Collected
  <2>2. CASE v = u
    <3>1. rows'[u][c] = new[c]
      BY <2>2, Collected, UnusedIsNoRow
    <3>2. QED
      BY <2>2, <3>1
  <2>3. QED
    BY <2>1, <2>2
<1>2. QED
  BY <1>1, CountsCarried

\* The answers of /info: a fresh object counts nothing, a copy what the
\* captured one counted.
LEMMA ResumeServesNobody ==
  ASSUME IInv, NEW r \in Refreshers, NEW u, NEW next, ResumeAfter(r, u, next),
         u \in fetching[r]
  PROVE  /\ \A q \in Requests : phase'[q] = "served" <=> phase[q] = "served"
         /\ \A q \in Requests : phase[q] = "served" => quoted'[q] = quoted[q]
<1>1. UNCHANGED quoted
  BY DEF ResumeAfter
<1>2. CASE r \in Requests /\ fetching[r] = {u}
  <2>1. r \in Requests /\ phase[r] = "refreshing"
    BY <1>2 DEF Refreshers, IInv, References
  <2>2. PICK p \in {"refused", "paying"} : phase' = [phase EXCEPT ![r] = p]
    BY <1>2 DEF ResumeAfter
  <2>3. QED
    BY <1>1, <2>1, <2>2 DEF IInv, Shapes
<1>3. CASE ~(r \in Requests /\ fetching[r] = {u})
  BY <1>1, <1>3 DEF ResumeAfter
<1>4. QED
  BY <1>2, <1>3

LEMMA InstallCounts ==
  ASSUME IInv, CountsBounded, NEW r \in Refreshers, NEW u \in Urls, u \in fetching[r],
         NEW row, InstallRow(r, u, row),
         \/ row.requestsServed = 0
         \/ Known(r, u) /\ row.requestsServed = ExistingRow(r, u).requestsServed
  PROVE  CountsBounded'
<1>1. PICK c \in Cells \ Held(u) :
        /\ ResumeAfter(r, u, [providers EXCEPT ![u] = c])
        /\ Collect(u, [rows[u] EXCEPT ![c] = row])
  BY DEF InstallRow
<1> DEFINE new == [rows[u] EXCEPT ![c] = row]
<1>2. new[c] = row /\ \A d \in Cells : d # c => new[d] = rows[u][d]
  BY DEF IInv, Shapes
<1>3. Known(r, u) => existing[r][u] \in Cells /\ rows[u][existing[r][u]] \in SaneRow
  BY DEF IInv, Shapes, References, Known, ExistingRow
<1>4. \A d \in Cells : new[d] \in SaneRow =>
        \/ new[d].requestsServed = 0
        \/ \E e \in Cells : /\ rows[u][e] \in SaneRow
                            /\ new[d].requestsServed = rows[u][e].requestsServed
  BY <1>2, <1>3 DEF ExistingRow
<1>5. Collect(u, new)
  BY <1>1
<1> HIDE DEF new
<1>6. QED
  BY <1>1, <1>4, <1>5, ResumeServesNobody, CollectedCounts

LEMMA RefreshCounts ==
  ASSUME IInv, CountsBounded, NEW r \in Refreshers, Refresh(r)
  PROVE  CountsBounded'
<1>1. CASE RefreshBegin(r)
  <2>1. UNCHANGED <<rows, quoted>>
    BY <1>1 DEF RefreshBegin, tableVars
  <2>2. phase' = IF r \in Rounds THEN phase ELSE [phase EXCEPT ![r] = "refreshing"]
    BY <1>1 DEF RefreshBegin
  <2>3. r \notin Rounds => phase[r] = "stale"
    BY <1>1 DEF RefreshBegin, MayRefresh
  <2>4. \A q \in Requests : phase'[q] = "served" <=> phase[q] = "served"
    BY <2>2, <2>3 DEF IInv, Shapes
  <2>5. QED
    BY <2>1, <2>4, CountsCarried
<1>2. ASSUME NEW u \in Urls, NEW p \in Prices, InfoOk(r, u, p) PROVE CountsBounded'
  <2>1. u \in fetching[r]
    BY <1>2 DEF InfoOk
  <2>2. CASE Known(r, u)
    <3> DEFINE was == ExistingRow(r, u)
               row == [was EXCEPT !.price = p, !.status =
                         IF was.status = "slashed" THEN "slashed" ELSE "live"]
    <3>1. InstallRow(r, u, row)
      BY <1>2, <2>2 DEF InfoOk
    <3>2. was \in SaneRow
      BY <2>2 DEF IInv, References
    <3>3. row.requestsServed = was.requestsServed
      BY <3>2 DEF SaneRow, Row
    <3> HIDE DEF row
    <3>4. QED
      BY <2>1, <2>2, <3>1, <3>3, InstallCounts
  <2>3. CASE ~Known(r, u)
    <3>1. PICK stake : InstallRow(r, u, FreshRow(p, "live", stake))
      BY <1>2, <2>3 DEF InfoOk
    <3>2. QED
      BY <2>1, <3>1, InstallCounts DEF FreshRow
  <2>4. QED
    BY <2>2, <2>3
<1>3. ASSUME NEW u \in Urls, InfoBadPrice(r, u) PROVE CountsBounded'
  <2>1. u \in fetching[r]
    BY <1>3 DEF InfoBadPrice
  <2>2. CASE Known(r, u)
    <3> DEFINE row == [ExistingRow(r, u) EXCEPT !.price = 0, !.status = "down"]
    <3>1. InstallRow(r, u, row)
      BY <1>3, <2>2 DEF InfoBadPrice
    <3>2. ExistingRow(r, u) \in SaneRow
      BY <2>2 DEF IInv, References
    <3>3. row.requestsServed = ExistingRow(r, u).requestsServed
      BY <3>2 DEF SaneRow, Row
    <3> HIDE DEF row
    <3>4. QED
      BY <2>1, <2>2, <3>1, <3>3, InstallCounts
  <2>3. CASE ~Known(r, u)
    <3>1. InstallRow(r, u, FreshRow(0, "down", InitialStake))
      BY <1>3, <2>3 DEF InfoBadPrice
    <3>2. QED
      BY <2>1, <3>1, InstallCounts DEF FreshRow
  <2>4. QED
    BY <2>2, <2>3
<1>4. ASSUME NEW u \in Urls, InfoFails(r, u) PROVE CountsBounded'
  <2>1. u \in fetching[r]
    BY <1>4 DEF InfoFails
  <2>2. CASE /\ Known(r, u)
             /\ InstallRow(r, u, [ExistingRow(r, u) EXCEPT !.status = "down"])
    <3> DEFINE row == [ExistingRow(r, u) EXCEPT !.status = "down"]
    <3>1. ExistingRow(r, u) \in SaneRow
      BY <2>2 DEF IInv, References
    <3>2. row.requestsServed = ExistingRow(r, u).requestsServed
      BY <3>1 DEF SaneRow, Row
    <3>3. InstallRow(r, u, row)
      BY <2>2
    <3> HIDE DEF row
    <3>4. QED
      BY <2>1, <2>2, <3>2, <3>3, InstallCounts
  <2>3. CASE InstallRow(r, u, FreshRow(HcsPrice[u], "down", HcsStake[u]))
    BY <2>1, <2>3, InstallCounts DEF FreshRow
  <2>4. CASE KeepRow(r, u)
    <3>1. ResumeAfter(r, u, providers) /\ Collect(u, rows[u])
      BY <2>4 DEF KeepRow
    <3>2. QED
      BY <2>1, <3>1, ResumeServesNobody, CollectedCounts
  <2>5. QED
    BY <1>4, <2>2, <2>3, <2>4 DEF InfoFails
<1>5. QED
  BY <1>1, <1>2, <1>3, <1>4 DEF Refresh

\* The endpoints mutate the current object and leave its count.
LEMMA MutateCounts ==
  ASSUME IInv, CountsBounded, NEW u \in Urls, HasRow(u), NEW row,
         row.requestsServed = CurrentRow(u).requestsServed,
         MutateRow(u, row), UNCHANGED <<phase, quoted>>
  PROVE  CountsBounded'
<1>1. /\ rows' = [rows EXCEPT ![u][providers[u]] = row]
      /\ providers[u] \in Cells /\ rows[u][providers[u]] \in SaneRow
  BY DEF MutateRow, HasRow, CurrentRow, IInv, Shapes, References
<1>2. \A v \in Urls, c \in Cells :
        rows'[v][c] = IF v = u /\ c = providers[u] THEN row ELSE rows[v][c]
  BY <1>1 DEF IInv, Shapes
<1>3. \A v \in Urls, c \in Cells : rows'[v][c] \in SaneRow =>
        \E d \in Cells : /\ rows[v][d] \in SaneRow
                         /\ rows'[v][c].requestsServed = rows[v][d].requestsServed
  BY <1>1, <1>2 DEF CurrentRow
<1>4. QED
  BY <1>3, CountsCarried

LEMMA ControlCounts ==
  ASSUME IInv, CountsBounded, Control
  PROVE  CountsBounded'
<1>1. \A u \in Urls : HasRow(u) => CurrentRow(u) \in SaneRow
  BY DEF IInv, References
<1>2. \A row \in SaneRow : \A a : Slashed(row, a).requestsServed = row.requestsServed
  BY DEF Slashed, SaneRow, Row
<1>3. UNCHANGED <<phase, quoted>>
  BY DEF Control, Slash, BondEvent, VerifyReport, Reset, DemoReset, DemoSlashBegin,
     DemoSlashEnd, routerVars
<1>4. ASSUME NEW w \in Wallets, NEW a \in SlashAmounts, Slash(w, a) PROVE CountsBounded'
  <2>1. PICK u \in Urls : HasRow(u) /\ MutateRow(u, Slashed(CurrentRow(u), a))
    BY <1>4 DEF Slash, IsFirstOfWallet, IsFirst
  <2>2. QED
    BY <1>1, <1>2, <1>3, <2>1, MutateCounts
<1>5. ASSUME NEW w \in Wallets, NEW e \in BondEvents, BondEvent(w, e) PROVE CountsBounded'
  <2> DEFINE tokens(u) == IF e.bondTokens # {}
                          THEN AtLeastZero(CHOOSE n \in e.bondTokens : TRUE)
                          ELSE IF e.bondStatus = "wiped" THEN 0
                          ELSE CurrentRow(u).bondTokens
             row(u) == [CurrentRow(u) EXCEPT !.bondStatus = e.bondStatus,
                                             !.bondTokens = tokens(u)]
  <2>1. PICK u \in Urls : HasRow(u) /\ MutateRow(u, row(u))
    BY <1>5 DEF BondEvent, IsFirstOfWallet, IsFirst
  <2>2. row(u).requestsServed = CurrentRow(u).requestsServed
    BY <1>1, <2>1 DEF SaneRow, Row
  <2>3. QED
    BY <1>3, <2>1, <2>2, MutateCounts
<1>6. ASSUME NEW n, VerifyReport(n) PROVE CountsBounded'
  <2> DEFINE row(u) == [CurrentRow(u) EXCEPT !.reputation =
                          IF @ < MaxReputation THEN @ + 1 ELSE @]
  <2>1. PICK u \in Urls : HasRow(u) /\ MutateRow(u, row(u))
    BY <1>6 DEF VerifyReport, IsFirstOfName, IsFirst
  <2>2. row(u).requestsServed = CurrentRow(u).requestsServed
    BY <1>1, <2>1 DEF SaneRow, Row
  <2>3. QED
    BY <1>3, <2>1, <2>2, MutateCounts
<1>7. ASSUME NEW w \in ResetWallets, Reset(w) PROVE CountsBounded'
  <2> DEFINE row(u) == [CurrentRow(u) EXCEPT !.status = "live",
                          !.reputation = MaxReputation, !.stakeHbar = InitialStake,
                          !.bondStatus = "active", !.bondTokens = BondAmount]
  <2>1. PICK u \in Urls : HasRow(u) /\ MutateRow(u, row(u))
    BY <1>7 DEF Reset, DemoReset, DemoSlashBegin, ResetRow, IsFirstOfWallet, IsFirst
  <2>2. row(u).requestsServed = CurrentRow(u).requestsServed
    BY <1>1, <2>1 DEF SaneRow, Row
  <2>3. QED
    BY <1>3, <2>1, <2>2, MutateCounts
<1>8. ASSUME NEW d \in Presses, DemoSlashEnd(d) PROVE CountsBounded'
  <2> DEFINE row(u) == [Slashed(CurrentRow(u), DemoSlash)
                          EXCEPT !.bondStatus = "wiped", !.bondTokens = 0]
  <2>1. PICK u \in Urls : HasRow(u) /\ MutateRow(u, row(u))
    BY <1>8 DEF DemoSlashEnd, IsFirstOfWallet, IsFirst
  <2>2. Slashed(CurrentRow(u), DemoSlash) \in SaneRow
    BY <1>1, <2>1, SlashedIsSane, AmountsAssumption
  <2>3. row(u).requestsServed = Slashed(CurrentRow(u), DemoSlash).requestsServed
    BY <2>2 DEF SaneRow, Row
  <2>4. QED
    BY <1>1, <1>2, <1>3, <2>1, <2>3, MutateCounts
<1>9. QED
  BY <1>4, <1>5, <1>6, <1>7, <1>8 DEF Control

\* Serving a request counts it in the object the request held.
LEMMA ProviderServesCounts ==
  ASSUME IInv, CountsBounded, NEW q \in Requests, ProviderServes(q)
  PROVE  CountsBounded'
<1> DEFINE u   == quoted[q]
           c   == pinned[q]
           row == [rows[u][c] EXCEPT !.requestsServed = @ + 1]
           new == [rows[u] EXCEPT ![c] = row]
           N(v) == Cardinality(ServedBy(v))
<1>1. /\ u \in Urls /\ c \in Cells /\ rows[u][c] \in SaneRow /\ phase[q] = "paying"
      /\ rows[u][c].requestsServed \in Nat /\ rows[u][c].requestsServed <= N(u)
  BY RowsAreRecords DEF ProviderServes, IInv, Shapes, References, CountsBounded
<1>2. /\ phase' = [phase EXCEPT ![q] = "served"] /\ UNCHANGED quoted
      /\ Collect(u, new)
  BY DEF ProviderServes, Release
<1>3. phase'[q] = "served" /\ \A p \in Requests : p # q => phase'[p] = phase[p]
  BY <1>2 DEF IInv, Shapes
<1>4. q \notin ServedBy(u) /\ \A v \in Urls : v = u => ServedBy(v)' = ServedBy(u) \cup {q}
  BY <1>1, <1>2, <1>3 DEF ServedBy
<1>5. N(u) \in Nat /\ \A v \in Urls : v = u => Cardinality(ServedBy(v)') = N(u) + 1
  BY <1>4, ServedIsFinite, FS_AddElement
<1>6. \A v \in Urls : v # u => ServedBy(v)' = ServedBy(v)
  BY <1>2, <1>3 DEF ServedBy
<1>7. row.requestsServed = rows[u][c].requestsServed + 1
  BY <1>1 DEF SaneRow, Row
<1>8. new[c] = row /\ \A d \in Cells : d # c => new[d] = rows[u][d]
  BY <1>1 DEF IInv, Shapes
<1> SUFFICES ASSUME NEW v \in Urls, NEW d \in Cells, rows'[v][d] \in SaneRow
             PROVE  rows'[v][d].requestsServed <= Cardinality(ServedBy(v)')
  BY DEF CountsBounded
<1> HIDE DEF row, new
<1>9. CASE v # u
  <2>1. rows'[v] = rows[v]
    BY <1>1, <1>2, <1>9, Collected
  <2>2. QED
    BY <1>6, <1>9, <2>1 DEF CountsBounded
<1>10. CASE v = u
  <2>1. rows'[v][d] = new[d]
    BY <1>1, <1>2, <1>10, Collected, UnusedIsNoRow
  <2>2. CASE d = c
    BY <1>1, <1>5, <1>7, <1>8, <1>10, <2>1, <2>2
  <2>3. CASE d # c
    <3>1. rows'[v][d] = rows[u][d] /\ rows[u][d] \in SaneRow
      BY <1>8, <1>10, <2>1, <2>3
    <3>2. rows[u][d].requestsServed \in Nat /\ rows[u][d].requestsServed <= N(u)
      BY <1>1, <3>1, RowsAreRecords DEF CountsBounded
    <3>3. QED
      BY <1>5, <1>10, <3>1, <3>2
  <2>4. QED
    BY <2>2, <2>3
<1>11. QED
  BY <1>9, <1>10

LEMMA RouteCounts ==
  ASSUME IInv, CountsBounded, NEW q \in Requests, Route(q)
  PROVE  CountsBounded'
<1>1. CASE Gate(q) \/ QuoteExpires(q)
  <2>1. /\ phase' = [phase EXCEPT ![q] = "gated"] \/ UNCHANGED phase
        /\ phase[q] # "served" /\ UNCHANGED rows
        /\ \E url : quoted' = [quoted EXCEPT ![q] = url]
    BY <1>1 DEF Gate, QuoteExpires, tableVars
  <2>2. /\ \A p \in Requests : phase'[p] = "served" <=> phase[p] = "served"
        /\ \A p \in Requests : phase[p] = "served" => quoted'[p] = quoted[p]
    BY <2>1 DEF IInv, Shapes
  <2>3. QED
    BY <2>1, <2>2, CountsCarried
<1>2. CASE Handle(q)
  <2>1. /\ \E p \in {"paying", "stale"} : phase' = [phase EXCEPT ![q] = p]
        /\ phase[q] # "served" /\ UNCHANGED rows
        /\ \E url : quoted' = [quoted EXCEPT ![q] = url]
    BY <1>2 DEF Handle, tableVars
  <2>2. /\ \A p \in Requests : phase'[p] = "served" <=> phase[p] = "served"
        /\ \A p \in Requests : phase[p] = "served" => quoted'[p] = quoted[p]
    BY <2>1 DEF IInv, Shapes
  <2>3. QED
    BY <2>1, <2>2, CountsCarried
<1>3. CASE ProviderFails(q)
  <2>1. /\ phase' = [phase EXCEPT ![q] = "failed"] /\ UNCHANGED quoted
        /\ phase[q] = "paying" /\ Collect(quoted[q], rows[quoted[q]])
    BY <1>3 DEF ProviderFails, Release
  <2>2. quoted[q] \in Urls
    BY <2>1 DEF IInv, Shapes, References
  <2>3. \A p \in Requests : phase'[p] = "served" <=> phase[p] = "served"
    BY <2>1 DEF IInv, Shapes
  <2>4. QED
    BY <2>1, <2>2, <2>3, CollectedCounts
<1>4. QED
  BY <1>1, <1>2, <1>3, ProviderServesCounts DEF Route

\* A row never counts a request twice, although discovery copies objects and
\* requests store back the ones they held (discovery.ts:59-61, index.ts:420).
THEOREM NoRequestCountsTwice == Spec => []ServedNeverOvercounts
<1>1. Init => CountsBounded
  BY UnusedIsNoRow DEF Init, CountsBounded
<1>2. ASSUME IInv, CountsBounded, [Next]_vars PROVE CountsBounded'
  <2>1. CASE UNCHANGED vars
    <3>1. UNCHANGED <<rows, phase, quoted>>
      BY <2>1 DEF vars, tableVars, routerVars
    <3>2. \A u \in Urls, c \in Cells : rows'[u][c] \in SaneRow =>
            \E d \in Cells : /\ rows[u][d] \in SaneRow
                             /\ rows'[u][c].requestsServed = rows[u][d].requestsServed
      BY <3>1
    <3>3. QED
      BY <1>2, <3>1, <3>2, CountsCarried
  <2>2. CASE Next
    BY <1>2, <2>2, RefreshCounts, ControlCounts, RouteCounts DEF Next
  <2>3. QED
    BY <1>2, <2>1, <2>2
<1>3. IInv /\ CountsBounded => ServedNeverOvercounts
  BY DEF IInv, Shapes, References, CountsBounded, ServedNeverOvercounts, ServedBy,
     HasRow, CurrentRow
<1>4. QED
  BY <1>1, <1>2, <1>3, Invariance, PTL DEF Spec
=============================================================================
