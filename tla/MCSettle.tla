------------------------------ MODULE MCSettle ------------------------------
(***************************************************************************)
(* Two instances in one run; a behaviour is one of them from its start.    *)
(* "two": the buyers with the same body, and quotes run out.  "three": all *)
(* buyers, and quotes do not run out.                                      *)
(***************************************************************************)
EXTENDS MCSettlement

VARIABLE scenario

SettleInit == Init /\ scenario \in {"two", "three"}

SettleSpec ==
  /\ SettleInit
  /\ [][/\ UNCHANGED scenario
        /\ \/ /\ scenario = "two"
              /\ Environment \/ \E b \in {c \in Buyers : BodyOf[c] = "same"} : Sale(b)
           \/ /\ scenario = "three"
              /\ \/ Environment /\ UNCHANGED expired
                 \/ \E b \in Buyers : Sale(b)]_<<vars, scenario>>
=============================================================================
