------------------------------ MODULE Verifier ------------------------------
(***************************************************************************)
(* The verifier: an audit loop that samples a served request, replays it   *)
(* against the provider that served it and a witness, and enforces on a    *)
(* divergence; and /demo/real-slash, which starts the same enforcement on  *)
(* demand.  An enforcement is a sequence of awaits on three other systems  *)
(* (Hedera, the HCS topics, the exchange), each of which may fail alone,   *)
(* and several enforcements may run at once.  Real mode with a bond token. *)
(*                                                                         *)
(* The exchange appears as what the verifier reads and writes of it: the   *)
(* status and the shown bond of each row, and the log of served requests.  *)
(* ProviderTable has the detail.  Left out: /demo/slash, which stages a     *)
(* slash and a wipe on the dashboard alone.                                *)
(***************************************************************************)
EXTENDS Integers, FiniteSets

CONSTANTS
  Urls,         \* endpoints, in the order of the table and of localeCompare
  Wallets, WalletOf, ModelOf, PriceOf,   \* what the rows say (functions on Urls)
  MayDiverge,   \* endpoints that may be started with CHEAT_MODE, or whose backend
                \* answers from the canned bank when it fails or has no key
  Strays,       \* what they may answer besides the advertised model's own text
  Requests,     \* requests that buyers make, each served at most once
  Attested,     \* those whose answer carries a verified TEE attestation
  Presses,      \* calls of /demo/real-slash
  PressTargets, \* the wallets that they name
  BondAmount,
  MaxRestarts   \* bound on restarts of the two processes together

NoUrl == 0
Audit == "audit"
Enforcers == {Audit} \cup Presses

ASSUME VerifierAssumption ==
  /\ Urls \subseteq Nat \ {0} /\ WalletOf \in [Urls -> Wallets]
  /\ PriceOf \in [Urls -> Nat] /\ MayDiverge \subseteq Urls
  /\ Strays \cap {"genuine", "short", "failed"} = {}
  /\ Attested \subseteq Requests /\ Audit \notin Presses
  /\ PressTargets \subseteq Wallets
  /\ BondAmount \in Nat \ {0} /\ MaxRestarts \in Nat

VARIABLES
  status,         \* exchange: the status of each row
  shownBond,      \* exchange: the bond that each row shows
  servedBy,       \* exchange: requests in the log, with the url that served them
  audited,        \* verifier: request ids already checked
  slashedWallets, \* verifier: payout accounts this verifier has slashed
  stage,          \* where the audit loop and each press are
  accused, witness,
  wipeTx, freezeTx,  \* what an enforcement was told of its two bond transactions
  straying,       \* providers: endpoints whose answers may be Strays
  stakeMoves,     \* chain: transfers of a wallet's stake from escrow to treasury
  bondHeld,       \* chain: bond tokens of a wallet
  restarts        \* of the exchange and of the verifier

exchangeVars == <<status, shownBond, servedBy>>
memoryVars   == <<audited, slashedWallets>>
taskVars     == <<accused, witness, wipeTx, freezeTx>>
chainVars    == <<stakeMoves, bondHeld>>
steady       == <<straying, restarts>>
vars == <<exchangeVars, memoryVars, stage, taskVars, chainVars, steady>>

Enforcing == {"stake", "delist", "wipe", "freeze", "post"}
Stages    == Enforcing \cup {"idle", "closing", "replaying", "divergent", "done"}
ActiveBond == [status |-> "active", tokens |-> BondAmount]

Init ==
  /\ status = [u \in Urls |-> "live"]
  /\ shownBond = [u \in Urls |-> ActiveBond]
  /\ servedBy = [r \in Requests |-> NoUrl]
  /\ audited = {} /\ slashedWallets = {}
  /\ stage = [e \in Enforcers |-> "idle"]
  /\ accused = [e \in Enforcers |-> NoUrl] /\ witness = NoUrl
  /\ wipeTx = [e \in Enforcers |-> FALSE] /\ freezeTx = [e \in Enforcers |-> FALSE]
  /\ straying \in SUBSET MayDiverge
  /\ stakeMoves = [w \in Wallets |-> 0]
  /\ bondHeld = [w \in Wallets |-> BondAmount]
  /\ restarts = [exchange |-> 0, verifier |-> 0]

Goto(e, s) == stage' = [stage EXCEPT ![e] = s]

\* An audit or an enforcement is over and forgets its task: the loop waits for
\* its next tick, a press has answered.
Finish(e) ==
  /\ Goto(e, IF e = Audit THEN "idle" ELSE "done")
  /\ accused' = [accused EXCEPT ![e] = NoUrl]
  /\ witness' = IF e = Audit THEN NoUrl ELSE witness
  /\ wipeTx' = [wipeTx EXCEPT ![e] = FALSE]
  /\ freezeTx' = [freezeTx EXCEPT ![e] = FALSE]

Target(e) == WalletOf[accused[e]]

\* providers.find(p => p.wallet === w)
IsFirstOfWallet(u, w) ==
  LET Rows == {v \in Urls : WalletOf[v] = w /\ status[v] # "absent"}
  IN  u \in Rows /\ \A v \in Rows : u <= v

-----------------------------------------------------------------------------
(* selectAuditCandidate: random order, the first candidate that has a      *)
(* witness, so any candidate that has one may be selected.                 *)

IsSlashed(u) == status[u] = "slashed" \/ WalletOf[u] \in slashedWallets

Eligible(r) == /\ servedBy[r] # NoUrl /\ r \notin audited
               /\ status[servedBy[r]] = "live" /\ ~IsSlashed(servedBy[r])

\* The same payout account is the accused with a second endpoint.
Witnesses(u) == {v \in Urls : /\ status[v] = "live" /\ ~IsSlashed(v)
                              /\ v # u /\ WalletOf[v] # WalletOf[u]
                              /\ ModelOf[v] = ModelOf[u]}

IsBestWitness(v, u) ==
  /\ v \in Witnesses(u)
  /\ \A x \in Witnesses(u) : \/ PriceOf[v] < PriceOf[x]
                             \/ PriceOf[v] = PriceOf[x] /\ v <= x

Auditable(r) == Eligible(r) /\ Witnesses(servedBy[r]) # {}

\* A tick claims request r before the replays; an attested answer is only
\* reported.
Select(r) ==
  /\ stage[Audit] = "idle" /\ Eligible(r)
  /\ \E v \in Urls : /\ IsBestWitness(v, servedBy[r])
                     /\ witness' = v
  /\ audited' = audited \cup {r}
  /\ accused' = [accused EXCEPT ![Audit] = servedBy[r]]
  /\ Goto(Audit, IF r \in Attested THEN "closing" ELSE "replaying")
  /\ UNCHANGED <<exchangeVars, slashedWallets, wipeTx, freezeTx, chainVars, steady>>

-----------------------------------------------------------------------------
(* Replays and the verdict.                                                *)

\* ask(): every failure of the transport is one outcome; an answer may be too
\* short to compare.  Not only a cheat strays: an honest provider on 0G whose
\* network fails, or on Groq without a key, answers 200 from the canned bank, and
\* the 0G broker serves a model of its own choice (Inference has the detail).
Replies(u) == {"failed", "short", "genuine"} \cup (IF u \in straying THEN Strays ELSE {})

\* Mutant: an answer that does not come counts as one that diverges.
Classify_SilenceDiverges(a, b) ==
  IF a = b THEN "passed" ELSE "divergent"

\* classifyReplayOutcomes: honest answers of one model are similar.
Classify(a, b) ==
  IF {a, b} \cap {"failed", "short"} # {} THEN "inconclusive"
  ELSE IF a = b THEN "passed" ELSE "divergent"

Replayed ==
  /\ stage[Audit] = "replaying"
  /\ \E a \in Replies(accused[Audit]), b \in Replies(witness) :
       LET verdict == Classify(a, b) IN
       \/ verdict = "inconclusive" /\ Finish(Audit)
       \/ verdict = "passed" /\ Goto(Audit, "closing") /\ UNCHANGED taskVars
       \/ verdict = "divergent" /\ Goto(Audit, "divergent") /\ UNCHANGED taskVars
  /\ UNCHANGED <<exchangeVars, memoryVars, chainVars, steady>>

\* The awaits that only report a good verdict have ended, or thrown.
Close ==
  /\ stage[Audit] = "closing"
  /\ Finish(Audit)
  /\ UNCHANGED <<exchangeVars, memoryVars, chainVars, steady>>

\* Mutant: the replays' divergence is enough.
ShouldEnforce_Always(w) == w \in Wallets
ShouldEnforce(w) == w \notin slashedWallets

\* The divergence has been reported: the wallet is claimed, before any await,
\* unless it is claimed already.
Claim ==
  /\ stage[Audit] = "divergent"
  /\ \/ /\ ShouldEnforce(Target(Audit))
        /\ slashedWallets' = slashedWallets \cup {Target(Audit)}
        /\ Goto(Audit, "stake") /\ UNCHANGED taskVars
     \/ /\ ~ShouldEnforce(Target(Audit))
        /\ Finish(Audit) /\ UNCHANGED slashedWallets
  /\ UNCHANGED <<exchangeVars, audited, chainVars, steady>>

\* Mutant: the early return keeps auditInFlight set.
ReportFails_KeepsInFlight ==
  /\ stage[Audit] = "divergent"
  /\ Goto(Audit, "done")
  /\ UNCHANGED <<exchangeVars, memoryVars, taskVars, chainVars, steady>>

\* POST /verify-report throws: the audit ends without a verdict.
ReportFails ==
  /\ stage[Audit] = "divergent"
  /\ Finish(Audit)
  /\ UNCHANGED <<exchangeVars, memoryVars, chainVars, steady>>

\* POST /demo/real-slash on the first row of w, whatever its status.
Press(d, w) ==
  /\ stage[d] = "idle"
  /\ \E u \in Urls : /\ IsFirstOfWallet(u, w)
                     /\ accused' = [accused EXCEPT ![d] = u]
  /\ slashedWallets' = slashedWallets \cup {w}
  /\ Goto(d, "stake")
  /\ UNCHANGED <<exchangeVars, audited, witness, wipeTx, freezeTx, chainVars, steady>>

-----------------------------------------------------------------------------
(* enforceRealSlash, one action per await; the verdict messages on HCS and *)
(* 0G, whose failure is swallowed, are part of MoveStake.                  *)

\* slashOnChain: the transfer is made or not, and failure is not an error.
MoveStake(e) ==
  /\ stage[e] = "stake"
  /\ \E n \in {0, 1} : stakeMoves' = [stakeMoves EXCEPT ![Target(e)] = @ + n]
  /\ Goto(e, "delist")
  /\ UNCHANGED <<exchangeVars, memoryVars, taskVars, bondHeld, steady>>

\* POST /slash marks the first row of the wallet, if there is one; if the
\* exchange cannot be reached the enforcement ends here.
Delist(e) ==
  /\ stage[e] = "delist"
  /\ \/ /\ status' = [u \in Urls |-> IF IsFirstOfWallet(u, Target(e))
                                     THEN "slashed" ELSE status[u]]
        /\ Goto(e, "wipe") /\ UNCHANGED taskVars
     \/ /\ Finish(e) /\ UNCHANGED status
  /\ UNCHANGED <<shownBond, servedBy, memoryVars, chainVars, steady>>

\* multiSigWipeBond needs the full bond; it lifts a freeze that is in the way,
\* which may fail as the wipe may, and its receipt may be lost.
Wipe(e) ==
  LET w == Target(e) IN
  /\ stage[e] = "wipe"
  /\ \/ /\ bondHeld[w] >= BondAmount
        /\ bondHeld' = [bondHeld EXCEPT ![w] = @ - BondAmount]
        /\ \E told \in BOOLEAN : wipeTx' = [wipeTx EXCEPT ![e] = told]
     \/ /\ wipeTx' = [wipeTx EXCEPT ![e] = FALSE]
        /\ UNCHANGED bondHeld
  /\ Goto(e, "freeze")
  /\ UNCHANGED <<exchangeVars, memoryVars, accused, witness, freezeTx, stakeMoves, steady>>

\* freezeBond, which nothing depends on but what is reported.
Freeze(e) ==
  /\ stage[e] = "freeze"
  /\ \E told \in BOOLEAN : freezeTx' = [freezeTx EXCEPT ![e] = told]
  /\ Goto(e, "post")
  /\ UNCHANGED <<exchangeVars, memoryVars, accused, witness, wipeTx, chainVars,
                 steady>>

\* Mutant: the wipe is announced whatever became of it.
Announced_Always(e) == [status |-> "wiped", tokens |-> 0]

\* What enforceBond reports: what it was told, not what it attempted.
Announced(e) ==
  [status |-> IF wipeTx[e] THEN "wiped" ELSE IF freezeTx[e] THEN "frozen" ELSE "active",
   tokens |-> IF wipeTx[e] THEN 0 ELSE BondAmount]

\* POST /bond-event to the first row of the wallet; a failure is swallowed.
PostBond(e) ==
  /\ stage[e] = "post"
  /\ \/ shownBond' = [u \in Urls |-> IF IsFirstOfWallet(u, Target(e))
                                     THEN Announced(e) ELSE shownBond[u]]
     \/ UNCHANGED shownBond
  /\ Finish(e)
  /\ UNCHANGED <<status, servedBy, memoryVars, chainVars, steady>>

-----------------------------------------------------------------------------
(* The exchange and the two processes.                                     *)

\* A buyer's request is served and logged; the row was live when it was quoted.
Serve(r, u) ==
  /\ servedBy[r] = NoUrl /\ r \notin audited /\ status[u] # "absent"
  /\ servedBy' = [servedBy EXCEPT ![r] = u]
  /\ UNCHANGED <<status, shownBond, memoryVars, stage, taskVars, chainVars, steady>>

\* Discovery, which may lose a slash (ProviderTable shows how).
Discover(u) ==
  /\ \E s \in {"live", "down"} : status' = [status EXCEPT ![u] = s]
  /\ UNCHANGED <<shownBond, servedBy, memoryVars, stage, taskVars, chainVars, steady>>

\* POST /demo/reset
DemoReset(u) ==
  /\ IsFirstOfWallet(u, WalletOf[u])
  /\ status' = [status EXCEPT ![u] = "live"]
  /\ shownBond' = [shownBond EXCEPT ![u] = ActiveBond]
  /\ UNCHANGED <<servedBy, memoryVars, stage, taskVars, chainVars, steady>>

MayRestart == restarts.exchange + restarts.verifier < MaxRestarts

\* The exchange restarts, and discovery adds fresh rows; log entries that are
\* restored from the trades topic name no url.
ExchangeRestart ==
  /\ MayRestart
  /\ restarts' = [restarts EXCEPT !.exchange = @ + 1]
  /\ status' = [u \in Urls |-> "absent"]
  /\ shownBond' = [u \in Urls |-> ActiveBond]
  /\ servedBy' = [r \in Requests |-> NoUrl]
  /\ UNCHANGED <<memoryVars, stage, taskVars, chainVars, straying>>

\* The verifier restarts: its memory and what it was doing are gone.
VerifierRestart ==
  /\ MayRestart
  /\ restarts' = [restarts EXCEPT !.verifier = @ + 1]
  /\ audited' = {} /\ slashedWallets' = {}
  /\ stage' = [e \in Enforcers |->
                 IF e = Audit \/ stage[e] = "idle" THEN "idle" ELSE "done"]
  /\ accused' = [e \in Enforcers |-> NoUrl] /\ witness' = NoUrl
  /\ wipeTx' = [e \in Enforcers |-> FALSE]
  /\ freezeTx' = [e \in Enforcers |-> FALSE]
  /\ UNCHANGED <<exchangeVars, chainVars, straying>>

-----------------------------------------------------------------------------
Enforce(e) == MoveStake(e) \/ Delist(e) \/ Wipe(e) \/ Freeze(e) \/ PostBond(e)

Verdict == Replayed \/ Close \/ Claim \/ ReportFails

Exchange == \/ \E r \in Requests, u \in Urls : Serve(r, u)
            \/ \E u \in Urls : Discover(u) \/ DemoReset(u)
            \/ ExchangeRestart

Next == \/ \E r \in Requests : Select(r)
        \/ Verdict
        \/ \E d \in Presses, w \in PressTargets : Press(d, w)
        \/ \E e \in Enforcers : Enforce(e)
        \/ Exchange
        \/ VerifierRestart

Spec == Init /\ [][Next]_vars

(***************************************************************************)
(* Fairness.  Replays are aborted after 20 s and the calls of an           *)
(* enforcement end, well or not.  Candidates are drawn at random on every  *)
(* tick, so one that can be drawn again and again is drawn: strong         *)
(* fairness of each Select.                                                *)
(***************************************************************************)
Fairness ==
  /\ WF_vars(Verdict) /\ WF_vars(Enforce(Audit))
  /\ \A r \in Requests : SF_vars(Select(r))

FairSpec == Spec /\ Fairness

-----------------------------------------------------------------------------
(* Properties.                                                             *)

TypeOK ==
  /\ status \in [Urls -> {"absent", "live", "down", "slashed"}]
  /\ shownBond \in [Urls -> [status : {"active", "frozen", "wiped"},
                             tokens : {0, BondAmount}]]
  /\ servedBy \in [Requests -> Urls \cup {NoUrl}]
  /\ audited \subseteq Requests /\ slashedWallets \subseteq Wallets
  /\ stage \in [Enforcers -> Stages]
  /\ accused \in [Enforcers -> Urls \cup {NoUrl}] /\ witness \in Urls \cup {NoUrl}
  /\ \A e \in Enforcers : stage[e] \notin {"idle", "done"} => accused[e] \in Urls
  /\ wipeTx \in [Enforcers -> BOOLEAN] /\ freezeTx \in [Enforcers -> BOOLEAN]
  /\ straying \subseteq Urls
  /\ stakeMoves \in [Wallets -> Nat] /\ bondHeld \in [Wallets -> {0, BondAmount}]
  /\ restarts \in [exchange : Nat, verifier : Nat]

\* The audit loop takes no second stake (index.ts:383-387): when it claims a
\* wallet, no stake of that wallet has moved in the verifier's life, though a
\* press may have slashed it while the replays were under way.
AuditSparesTheSlashed ==
  [][Claim /\ restarts.verifier = 0 /\ stage'[Audit] = "stake"
       => stakeMoves[Target(Audit)] = 0]_vars

\* Only two intact, comparable replies can slash (verification.ts:3), so nothing
\* that merely fails or stays silent is behind an enforcement of the audit loop:
\* one of the two endpoints cheats, or answers with something else than the model
\* it advertises because its backend failed.
SlashHasACause ==
  stage[Audit] \in Enforcing =>
    accused[Audit] \in straying \/ witness \in straying

\* The verifier never has the dashboard show a wipe that the chain did not
\* perform (index.ts:218-222), whatever fails, restarts or runs at once.
ShownWipeIsReal ==
  \A u \in Urls : shownBond[u].status = "wiped" => bondHeld[WalletOf[u]] = 0

\* No request stays auditable for ever: failed calls and repeated divergences
\* do not stop the loop (index.ts:53, 403).
AuditsGoOn == \A r \in Requests : []<>~Auditable(r)
=============================================================================
