---------------------------- MODULE MCSettlement ----------------------------
(***************************************************************************)
(* Small instances of Settlement.  A price of 5 stands for any amount that *)
(* the fee of 10 % does not divide evenly: its fee is rounded up to 1.     *)
(***************************************************************************)
EXTENDS Settlement

\* Two buyers with the same body (an agent's retry, or two agents that ask the
\* same), and a third with its own.
TwoShare == [b \in Buyers |-> IF b = "b3" THEN "own" ELSE "same"]
SameBody == [b \in Buyers |-> "same"]
=============================================================================
