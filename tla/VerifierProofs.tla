--------------------------- MODULE VerifierProofs ---------------------------
(***************************************************************************)
(* Theorems about Verifier, for any number of endpoints, wallets, requests *)
(* and presses.                                                            *)
(***************************************************************************)
EXTENDS Verifier, TLAPS

\* A stake that moved, or is about to, is the stake of a claimed wallet, as
\* long as the verifier has not restarted.
ClaimInv ==
  restarts.verifier = 0 =>
    /\ \A w \in Wallets : stakeMoves[w] # 0 => w \in slashedWallets
    /\ \A e \in Enforcers : stage[e] \in Enforcing => Target(e) \in slashedWallets

\* From the verdict on, one of the two that the audit compared may cheat or
\* answers from the canned bank.
VerdictInv ==
  stage[Audit] \in Enforcing \cup {"divergent"}
    => accused[Audit] \in straying \/ witness \in straying

\* An enforcement that was told of a wipe knows that the bond is gone.
WipeInv ==
  /\ \A e \in Enforcers : wipeTx[e] =>
       /\ stage[e] \in {"freeze", "post"} /\ accused[e] \in Urls
       /\ bondHeld[Target(e)] = 0
  /\ ShownWipeIsReal

IInv == TypeOK /\ ClaimInv /\ VerdictInv /\ WipeInv
-----------------------------------------------------------------------------
(* What the actions have in common.                                        *)

LEMMA EnforcersAreDistinct ==
  Audit \in Enforcers /\ \A d \in Presses : d \in Enforcers /\ d # Audit
BY VerifierAssumption DEF Enforcers

\* A task that is under way is about a wallet.
LEMMA TargetIsAWallet ==
  ASSUME TypeOK, NEW e \in Enforcers, stage[e] \notin {"idle", "done"}
  PROVE  accused[e] \in Urls /\ Target(e) \in Wallets
<1>1. accused[e] \in Urls
  BY DEF TypeOK
<1>2. QED
  BY <1>1, VerifierAssumption DEF Target

\* classifyReplayOutcomes finds a divergence only if somebody may answer with
\* something else than the model's own text.
LEMMA DivergenceHasACause ==
  ASSUME NEW u, NEW v, NEW a \in Replies(u), NEW b \in Replies(v),
         Classify(a, b) = "divergent"
  PROVE  u \in straying \/ v \in straying
BY DEF Replies, Classify

LEMMA InitHolds == Init => IInv
<1> SUFFICES ASSUME Init PROVE IInv
  OBVIOUS
<1>1. TypeOK
  BY VerifierAssumption DEF Init, TypeOK, Stages, Enforcing, ActiveBond
<1>2. ClaimInv /\ VerdictInv
  BY EnforcersAreDistinct DEF Init, ClaimInv, VerdictInv, Enforcing, steady
<1>3. WipeInv
  BY DEF Init, WipeInv, ShownWipeIsReal, ActiveBond
<1>4. QED
  BY <1>1, <1>2, <1>3 DEF IInv

-----------------------------------------------------------------------------
(* One lemma per group of actions.                                         *)

LEMMA SelectHolds ==
  ASSUME IInv, NEW r \in Requests, Select(r)
  PROVE  IInv'
<1> USE EnforcersAreDistinct, VerifierAssumption
<1>1. servedBy[r] \in Urls
  BY DEF IInv, TypeOK, Select, Eligible
<1>2. TypeOK'
  BY <1>1 DEF IInv, TypeOK, Select, Goto, Stages, Enforcing, exchangeVars, chainVars, steady
<1>3. ClaimInv'
  BY DEF IInv, TypeOK, ClaimInv, Select, Goto, Enforcing, Target, chainVars, steady
<1>4. VerdictInv'
  BY DEF IInv, TypeOK, VerdictInv, Select, Goto, Enforcing
<1>5. WipeInv'
  BY DEF IInv, TypeOK, WipeInv, ShownWipeIsReal, Select, Goto, Target, exchangeVars,
     chainVars, steady
<1>6. QED
  BY <1>2, <1>3, <1>4, <1>5 DEF IInv

\* A task that is forgotten leaves nothing to claim.
LEMMA FinishHolds ==
  ASSUME IInv, NEW e \in Enforcers, Finish(e), UNCHANGED <<memoryVars, chainVars, steady>>
  PROVE  /\ ClaimInv' /\ VerdictInv'
         /\ stage' \in [Enforcers -> Stages]
         /\ accused' \in [Enforcers -> Urls \cup {NoUrl}]
         /\ witness' \in Urls \cup {NoUrl}
         /\ \A f \in Enforcers : stage'[f] \notin {"idle", "done"} => accused'[f] \in Urls
         /\ wipeTx' \in [Enforcers -> BOOLEAN] /\ freezeTx' \in [Enforcers -> BOOLEAN]
         /\ \A f \in Enforcers : wipeTx'[f] =>
              /\ stage'[f] \in {"freeze", "post"} /\ accused'[f] \in Urls
              /\ bondHeld[WalletOf[accused'[f]]] = 0
<1> USE EnforcersAreDistinct DEF Finish, Goto
<1>1. ClaimInv'
  BY DEF IInv, TypeOK, ClaimInv, Enforcing, Target, memoryVars, chainVars, steady
<1>2. VerdictInv'
  BY DEF IInv, TypeOK, VerdictInv, Enforcing, steady
<1>3. QED
  BY <1>1, <1>2 DEF IInv, TypeOK, WipeInv, Target, Stages

LEMMA VerdictHolds ==
  ASSUME IInv, Verdict
  PROVE  IInv'
<1> USE EnforcersAreDistinct, VerifierAssumption
<1>1. ASSUME Finish(Audit), UNCHANGED <<exchangeVars, memoryVars, chainVars, steady>>
      PROVE  IInv'
  <2>1. TypeOK'
    BY <1>1, FinishHolds DEF IInv, TypeOK, exchangeVars, memoryVars, chainVars, steady
  <2>2. WipeInv'
    BY <1>1, FinishHolds DEF IInv, WipeInv, ShownWipeIsReal, Target, exchangeVars,
       chainVars, steady
  <2>3. QED
    BY <1>1, <2>1, <2>2, FinishHolds DEF IInv
<1>2. ASSUME Goto(Audit, "closing"), stage[Audit] = "replaying",
             UNCHANGED <<exchangeVars, memoryVars, taskVars, chainVars, steady>>
      PROVE  IInv'
  BY <1>2 DEF IInv, TypeOK, ClaimInv, VerdictInv, WipeInv, ShownWipeIsReal, Goto, Stages,
     Enforcing, Target, exchangeVars, memoryVars, taskVars, chainVars, steady
<1>3. ASSUME Goto(Audit, "divergent"), stage[Audit] = "replaying",
             accused[Audit] \in straying \/ witness \in straying,
             UNCHANGED <<exchangeVars, memoryVars, taskVars, chainVars, steady>>
      PROVE  IInv'
  BY <1>3 DEF IInv, TypeOK, ClaimInv, VerdictInv, WipeInv, ShownWipeIsReal, Goto, Stages,
     Enforcing, Target, exchangeVars, memoryVars, taskVars, chainVars, steady
<1>4. CASE Replayed
  BY <1>1, <1>2, <1>3, <1>4, DivergenceHasACause DEF Replayed
<1>5. CASE Close
  BY <1>1, <1>5 DEF Close
<1>6. CASE ReportFails
  BY <1>1, <1>6 DEF ReportFails
<1>7. CASE Claim
  <2>1. CASE ~ShouldEnforce(Target(Audit))
    BY <1>1, <1>7, <2>1 DEF Claim, memoryVars, steady
  <2>2. CASE ShouldEnforce(Target(Audit))
    <3>1. /\ stage[Audit] = "divergent" /\ Goto(Audit, "stake") /\ UNCHANGED taskVars
          /\ slashedWallets' = slashedWallets \cup {Target(Audit)}
          /\ UNCHANGED <<exchangeVars, audited, chainVars, steady>>
      BY <1>7, <2>2 DEF Claim
    <3>2. TypeOK'
      BY <3>1, TargetIsAWallet DEF IInv, TypeOK, Goto, Stages, Enforcing, Target,
         exchangeVars, taskVars,
         chainVars, steady
    <3>3. ClaimInv'
      BY <3>1 DEF IInv, TypeOK, ClaimInv, Goto, Enforcing, Target, taskVars, chainVars,
         steady
    <3>4. VerdictInv' /\ WipeInv'
      BY <3>1 DEF IInv, TypeOK, VerdictInv, WipeInv, ShownWipeIsReal, Goto, Enforcing,
         Target,
         exchangeVars, taskVars, chainVars, steady
    <3>5. QED
      BY <3>2, <3>3, <3>4 DEF IInv
  <2>3. QED
    BY <2>1, <2>2
<1>8. QED
  BY <1>4, <1>5, <1>6, <1>7 DEF Verdict

LEMMA PressHolds ==
  ASSUME IInv, NEW d \in Presses, NEW w \in PressTargets, Press(d, w)
  PROVE  IInv'
<1> USE EnforcersAreDistinct, VerifierAssumption
<1>1. PICK u \in Urls : WalletOf[u] = w /\ accused' = [accused EXCEPT ![d] = u]
  BY DEF Press, IsFirstOfWallet
<1>2. TypeOK'
  BY <1>1 DEF IInv, TypeOK, Press, Goto, Stages, Enforcing, exchangeVars, chainVars, steady
<1>3. ClaimInv'
  BY <1>1 DEF IInv, TypeOK, ClaimInv, Press, Goto, Enforcing, Target, chainVars, steady
<1>4. VerdictInv'
  BY <1>1 DEF IInv, TypeOK, VerdictInv, Press, Goto, Enforcing, steady
<1>5. WipeInv'
  BY <1>1 DEF IInv, TypeOK, WipeInv, ShownWipeIsReal, Press, Goto, Target, exchangeVars,
     chainVars, steady
<1>6. QED
  BY <1>2, <1>3, <1>4, <1>5 DEF IInv

LEMMA EnforceHolds ==
  ASSUME IInv, NEW e \in Enforcers, Enforce(e)
  PROVE  IInv'
<1> USE EnforcersAreDistinct, VerifierAssumption
<1>1. CASE MoveStake(e)
  <2>1. TypeOK'
    <3>1. Target(e) \in Wallets /\ accused[e] \in Urls
      BY <1>1, TargetIsAWallet DEF IInv, MoveStake
    <3>2. stakeMoves' \in [Wallets -> Nat]
      BY <1>1, <3>1 DEF IInv, TypeOK, MoveStake
    <3>3. QED
      BY <1>1, <3>1, <3>2 DEF IInv, TypeOK, MoveStake, Goto, Stages, Enforcing,
         exchangeVars,
         memoryVars, taskVars, steady
  <2>2. ClaimInv'
    BY <1>1 DEF IInv, TypeOK, ClaimInv, MoveStake, Goto, Enforcing, Target, memoryVars,
       taskVars, steady
  <2>3. VerdictInv' /\ WipeInv'
    BY <1>1 DEF IInv, TypeOK, VerdictInv, WipeInv, ShownWipeIsReal, MoveStake, Goto,
       Enforcing, Target, exchangeVars, taskVars, steady
  <2>4. QED
    BY <2>1, <2>2, <2>3 DEF IInv
<1>2. CASE Delist(e)
  <2>1. CASE Finish(e)
    BY <1>2, <2>1, FinishHolds DEF Delist, IInv, TypeOK, WipeInv, ShownWipeIsReal, Target,
       memoryVars, chainVars, steady
  <2>2. CASE Goto(e, "wipe") /\ UNCHANGED taskVars
    BY <1>2, <2>2 DEF Delist, IInv, TypeOK, ClaimInv, VerdictInv, WipeInv, ShownWipeIsReal,
       Goto, Stages, Enforcing, Target, memoryVars, taskVars, chainVars, steady
  <2>3. QED
    BY <1>2, <2>1, <2>2 DEF Delist
<1>3. CASE Wipe(e)
  <2>1. Target(e) \in Wallets /\ accused[e] \in Urls
    BY <1>3, TargetIsAWallet DEF IInv, Wipe
  <2>2. /\ bondHeld' \in [Wallets -> {0, BondAmount}]
        /\ \A w \in Wallets : bondHeld[w] = 0 => bondHeld'[w] = 0
        /\ wipeTx' \in [Enforcers -> BOOLEAN]
        /\ wipeTx'[e] => bondHeld'[Target(e)] = 0
        /\ \A f \in Enforcers \ {e} : wipeTx'[f] = wipeTx[f]
    <3>1. CASE /\ bondHeld[Target(e)] >= BondAmount
               /\ bondHeld' = [bondHeld EXCEPT ![Target(e)] = @ - BondAmount]
               /\ \E told \in BOOLEAN : wipeTx' = [wipeTx EXCEPT ![e] = told]
      <4>1. bondHeld[Target(e)] = BondAmount
        BY <2>1, <3>1 DEF IInv, TypeOK
      <4>2. bondHeld' = [bondHeld EXCEPT ![Target(e)] = 0]
        BY <3>1, <4>1
      <4>3. QED
        BY <2>1, <3>1, <4>2 DEF IInv, TypeOK
    <3>2. CASE wipeTx' = [wipeTx EXCEPT ![e] = FALSE] /\ UNCHANGED bondHeld
      BY <3>2 DEF IInv, TypeOK
    <3>3. QED
      BY <1>3, <3>1, <3>2 DEF Wipe
  <2>3. /\ stage[e] = "wipe" /\ Goto(e, "freeze")
        /\ UNCHANGED <<exchangeVars, memoryVars, accused, witness, freezeTx, stakeMoves,
                       steady>>
    BY <1>3 DEF Wipe
  <2>4. TypeOK'
    BY <2>1, <2>2, <2>3 DEF IInv, TypeOK, Goto, Stages, Enforcing, exchangeVars,
       memoryVars, steady
  <2>5. ClaimInv' /\ VerdictInv'
    BY <2>3 DEF IInv, TypeOK, ClaimInv, VerdictInv, Goto, Enforcing, Target, memoryVars,
       steady
  <2>6. WipeInv'
    <3>1. ShownWipeIsReal'
      BY <2>2, <2>3 DEF IInv, WipeInv, ShownWipeIsReal, exchangeVars, steady
    <3>2. ASSUME NEW f \in Enforcers, wipeTx'[f]
          PROVE  /\ stage'[f] \in {"freeze", "post"} /\ accused'[f] \in Urls
                 /\ bondHeld'[WalletOf[accused'[f]]] = 0
      <4>1. CASE f = e
        BY <2>1, <2>2, <2>3, <3>2, <4>1 DEF IInv, TypeOK, Goto, Target
      <4>2. CASE f # e
        BY <2>2, <2>3, <3>2, <4>2 DEF IInv, TypeOK, WipeInv, Goto, Target
      <4>3. QED
        BY <4>1, <4>2
    <3>3. QED
      BY <3>1, <3>2 DEF WipeInv, Target
  <2>7. QED
    BY <2>4, <2>5, <2>6 DEF IInv
<1>4. CASE Freeze(e)
  BY <1>4 DEF Freeze, IInv, TypeOK, ClaimInv, VerdictInv, WipeInv, ShownWipeIsReal, Goto,
     Stages, Enforcing, Target, exchangeVars, memoryVars, chainVars, steady
<1>5. CASE PostBond(e)
  <2>1. /\ Announced(e) \in [status : {"active", "frozen", "wiped"},
                              tokens : {0, BondAmount}]
        /\ Announced(e).status = "wiped" => bondHeld[Target(e)] = 0
    BY DEF Announced, IInv, WipeInv
  <2>2. TypeOK'
    BY <1>5, <2>1, FinishHolds DEF PostBond, IInv, TypeOK, memoryVars, chainVars, steady
  <2>3. WipeInv'
    BY <1>5, <2>1, FinishHolds DEF PostBond, IInv, TypeOK, WipeInv, ShownWipeIsReal, Target,
       IsFirstOfWallet, memoryVars, chainVars, steady
  <2>4. QED
    BY <1>5, <2>2, <2>3, FinishHolds DEF PostBond, IInv
<1>6. QED
  BY <1>1, <1>2, <1>3, <1>4, <1>5 DEF Enforce

LEMMA ExchangeHolds ==
  ASSUME IInv, Exchange
  PROVE  IInv'
<1> USE EnforcersAreDistinct, VerifierAssumption
<1>1. /\ UNCHANGED <<memoryVars, stage, taskVars, chainVars, straying>>
      /\ restarts' \in [exchange : Nat, verifier : Nat]
      /\ restarts'.verifier = restarts.verifier
  BY DEF IInv, TypeOK, Exchange, Serve, Discover, DemoReset, ExchangeRestart, steady
<1>2. ClaimInv' /\ VerdictInv'
  BY <1>1 DEF IInv, ClaimInv, VerdictInv, Target, memoryVars, taskVars, chainVars, steady
<1>3. /\ status' \in [Urls -> {"absent", "live", "down", "slashed"}]
      /\ servedBy' \in [Requests -> Urls \cup {NoUrl}]
      /\ shownBond' \in [Urls -> [status : {"active", "frozen", "wiped"},
                                  tokens : {0, BondAmount}]]
      /\ \A u \in Urls : shownBond'[u].status = "wiped" => shownBond[u].status = "wiped"
  <2>1. CASE \E r \in Requests, u \in Urls : Serve(r, u)
    BY <2>1 DEF IInv, TypeOK, Serve
  <2>2. CASE \E u \in Urls : Discover(u)
    BY <2>2 DEF IInv, TypeOK, Discover
  <2>3. CASE \E u \in Urls : DemoReset(u)
    BY <2>3 DEF IInv, TypeOK, DemoReset, ActiveBond
  <2>4. CASE ExchangeRestart
    BY <2>4 DEF IInv, TypeOK, ExchangeRestart, ActiveBond
  <2>5. QED
    BY <2>1, <2>2, <2>3, <2>4 DEF Exchange
<1>4. TypeOK'
  BY <1>1, <1>3 DEF IInv, TypeOK, memoryVars, taskVars, chainVars, steady
<1>5. WipeInv'
  BY <1>1, <1>3 DEF IInv, WipeInv, ShownWipeIsReal, Target, taskVars, chainVars, steady
<1>6. QED
  BY <1>2, <1>4, <1>5 DEF IInv

LEMMA VerifierRestartHolds ==
  ASSUME IInv, VerifierRestart
  PROVE  IInv'
<1> USE EnforcersAreDistinct, VerifierAssumption
<1>1. TypeOK'
  BY DEF IInv, TypeOK, VerifierRestart, Stages, exchangeVars, chainVars, steady
<1>2. ClaimInv'
  BY DEF IInv, TypeOK, ClaimInv, VerifierRestart
<1>3. VerdictInv' /\ WipeInv'
  BY DEF IInv, TypeOK, VerdictInv, WipeInv, ShownWipeIsReal, VerifierRestart, Enforcing,
     exchangeVars, chainVars, steady
<1>4. QED
  BY <1>1, <1>2, <1>3 DEF IInv

LEMMA StepHolds == IInv /\ [Next]_vars => IInv'
<1> SUFFICES ASSUME IInv, [Next]_vars PROVE IInv'
  OBVIOUS
<1>1. CASE UNCHANGED vars
  BY <1>1 DEF vars, IInv, TypeOK, ClaimInv, VerdictInv, WipeInv, ShownWipeIsReal, Target,
     exchangeVars, memoryVars, taskVars, chainVars, steady
<1>2. CASE Next
  BY <1>2, SelectHolds, VerdictHolds, PressHolds, EnforceHolds, ExchangeHolds,
     VerifierRestartHolds DEF Next
<1>3. QED
  BY <1>1, <1>2

LEMMA Invariance == Spec => []IInv
<1>1. QED
  BY InitHolds, StepHolds, PTL DEF Spec

-----------------------------------------------------------------------------
(* Theorems.                                                               *)

\* The variables keep their types; a task that is under way names its accused.
THEOREM TypeCorrect == Spec => []TypeOK
<1>1. IInv => TypeOK
  BY DEF IInv
<1>2. QED
  BY <1>1, Invariance, PTL

\* The audit loop enforces nothing on account of a provider that only fails or
\* stays silent, for any set of endpoints (verification.ts:3): one of the pair may
\* cheat, or answers from the canned bank, which the run AuditFallback shows to be
\* enough.
THEOREM EnforcementsHaveACause == Spec => []SlashHasACause
<1>1. IInv => SlashHasACause
  BY DEF IInv, VerdictInv, SlashHasACause
<1>2. QED
  BY <1>1, Invariance, PTL

\* A wipe is shown only if the chain performed it, with any number of presses
\* and restarts (index.ts:220).
THEOREM WipesAreReal == Spec => []ShownWipeIsReal
<1>1. IInv => ShownWipeIsReal
  BY DEF IInv, WipeInv
<1>2. QED
  BY <1>1, Invariance, PTL

\* The audit loop claims no wallet whose stake has moved, until the verifier
\* restarts (verification.ts:92).
THEOREM AuditTakesNoSecondStake == Spec => AuditSparesTheSlashed
<1>1. ASSUME IInv, Claim, restarts.verifier = 0, stage'[Audit] = "stake"
      PROVE  stakeMoves[Target(Audit)] = 0
  <2>1. stage[Audit] = "divergent"
    BY <1>1 DEF Claim
  <2>2. ShouldEnforce(Target(Audit))
    BY <1>1, EnforcersAreDistinct DEF Claim, Finish, Goto, IInv, TypeOK
  <2>3. Target(Audit) \in Wallets
    BY <1>1, <2>1, EnforcersAreDistinct, VerifierAssumption DEF Target, IInv, TypeOK
  <2>4. QED
    BY <1>1, <2>2, <2>3 DEF IInv, ClaimInv, ShouldEnforce
<1>2. IInv /\ [Next]_vars
        => [Claim /\ restarts.verifier = 0 /\ stage'[Audit] = "stake"
              => stakeMoves[Target(Audit)] = 0]_vars
  BY <1>1
<1>3. QED
  BY <1>2, Invariance, PTL DEF Spec, AuditSparesTheSlashed
=============================================================================
