--------------------------- MODULE PaidInference ---------------------------
(***************************************************************************)
(* What the exchange promises a buyer (README, docs/exchange.md): money is *)
(* held, not taken, while the request is served; it is taken at most once, *)
(* only for a request that was served, and it is the amount the buyer      *)
(* signed.  A request that is not served costs the buyer nothing.          *)
(***************************************************************************)
EXTENDS Integers

CONSTANT Buyers

VARIABLES
  stage,     \* where each request is
  bid,       \* the amount that the buyer signed
  received   \* what the exchange has received from all buyers

Init ==
  /\ stage = [b \in Buyers |-> "open"]
  /\ bid = [b \in Buyers |-> 0]
  /\ received = 0

Move(b, from, to) ==
  /\ stage[b] = from
  /\ stage' = [stage EXCEPT ![b] = to]

Hold(b) ==
  /\ Move(b, "open", "held")
  /\ bid'[b] \in Nat /\ bid' = [bid EXCEPT ![b] = bid'[b]]
  /\ UNCHANGED received

Serve(b) == Move(b, "held", "served") /\ UNCHANGED <<bid, received>>

Release(b) == Move(b, "held", "released") /\ UNCHANGED <<bid, received>>

Charge(b) ==
  /\ Move(b, "served", "charged")
  /\ received' = received + bid[b]
  /\ UNCHANGED bid

Absorb(b) == Move(b, "served", "absorbed") /\ UNCHANGED <<bid, received>>

Next == \E b \in Buyers :
          Hold(b) \/ Serve(b) \/ Release(b) \/ Charge(b) \/ Absorb(b)

Spec == Init /\ [][Next]_<<stage, bid, received>>
=============================================================================
