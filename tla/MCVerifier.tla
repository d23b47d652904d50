----------------------------- MODULE MCVerifier -----------------------------
(***************************************************************************)
(* Small instances of Verifier.  Url 1, the cheapest, may cheat or fall    *)
(* back on the canned bank; url 2 always serves its model.                 *)
(***************************************************************************)
EXTENDS Verifier

TwoWallets == <<"w1", "w2">>
OneModel   == <<"m", "m">>
TwoPrices  == <<1, 2>>
=============================================================================
