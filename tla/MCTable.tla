------------------------------ MODULE MCTable ------------------------------
(***************************************************************************)
(* Two instances in one run; a behaviour is one of them from its start.    *)
(* "timer": the rounds of discovery overlap, under every answer of /info   *)
(* and every endpoint, and nothing is requested.  "router": requests and   *)
(* their refreshes beside one round at a time, slashes and resets; every   *)
(* /info answers, and nothing is on the registry topic.                    *)
(***************************************************************************)
EXTENDS MCProviderTable

VARIABLE scenario

InTime(r) == r \in Rounds => \A o \in Rounds \ {r} : fetching[o] = {}

TimerNext == Control \/ \E r \in Rounds : Refresh(r)

RouterNext ==
  \/ \E r \in Refreshers :
       /\ InTime(r)
       /\ \/ RefreshBegin(r) /\ hcsRegistrations' = {}
          \/ \E u \in Urls : \/ \E p \in Prices : InfoOk(r, u, p)
                             \/ InfoBadPrice(r, u)
  \/ \E w \in Wallets, a \in SlashAmounts : Slash(w, a)
  \/ \E w \in ResetWallets : DemoReset(w)
  \/ \E q \in Requests : Route(q)

TableInit == Init /\ scenario \in {"timer", "router"}

TableSpec ==
  /\ TableInit
  /\ [][/\ UNCHANGED scenario
        /\ \/ scenario = "timer" /\ TimerNext
           \/ scenario = "router" /\ RouterNext]_<<vars, scenario>>
=============================================================================
