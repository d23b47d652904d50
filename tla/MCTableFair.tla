---------------------------- MODULE MCTableFair ----------------------------
(***************************************************************************)
(* The instance for the liveness of the provider table.  Every /info       *)
(* answers with a price, except that the refresh a request started may     *)
(* find url 2, the wallet's second row, unpriced or unreachable.  A fair   *)
(* step is always left: whatever is being fetched may answer with a price. *)
(***************************************************************************)
EXTENDS MCProviderTable

FairTable ==
  /\ Init
  /\ [][/\ Next
        /\ \A r \in Refreshers, u \in Urls : u \in fetching[r] \ fetching'[r] =>
             \/ \E p \in Prices : InfoOk(r, u, p)
             \/ u = 2 /\ r \in Requests]_vars
  /\ Fairness
=============================================================================
