-------------------------- MODULE MCProviderTable --------------------------
(***************************************************************************)
(* Small instances of ProviderTable.  Two providers; provider 2 exists on  *)
(* the registry topic only, if at all.  Stakes, slashes, bonds and full    *)
(* reputation are 1 each: what matters is whether any of it is left.       *)
(***************************************************************************)
EXTENDS ProviderTable, TLC

\* Two wallets, or one wallet behind both urls (a re-registered endpoint).
TwoWallets == <<"w1", "w2">>
OneWallet  == <<"w1", "w1">>
TwoNames   == <<"n1", "n2">>
OneModel   == <<"m", "m">>
BothPrice  == <<1, 1>>
OneStake   == <<1, 1>>
AllWantM   == [q \in Requests |-> "m"]

\* What the verifier posts after a failed wipe; and callers that leave the
\* count out.  (A wipe with the count 0 does what one without a count does.)
AnyBondEvents ==
  {[bondStatus |-> "frozen", bondTokens |-> {1}],
   [bondStatus |-> "wiped", bondTokens |-> {}],
   [bondStatus |-> "active", bondTokens |-> {}]}
NoBondEvents == {}

\* The names of rounds under way may be exchanged.
RoundsAreAlike == Permutations(Rounds)
=============================================================================
