------------------------------- MODULE MCParts -------------------------------
(***************************************************************************)
(* Small instances of six parts of the system that share no state: the     *)
(* exchange's mock paywall and its settlement feed, the agent's token and  *)
(* its model router, the onboarding of a provider, and a provider's        *)
(* answers under audit.  They are checked in one run, side by side: a      *)
(* behaviour picks a part and takes that part's steps, and the others keep *)
(* one fixed initial state, so the states of the parts add up and do not   *)
(* multiply.                                                               *)
(***************************************************************************)
EXTENDS MockPaywall, TradeFeed, AgenticId, ModelRouting, Inference, Onboarding

SameBody == [b \in Buyers |-> "b1"]
MCAsks == 1..2
\* t1 and t2 share a quote; that of t4 ran out between payment and handler.
MCBilled == [t \in Trade |-> CASE t \in {"t1", "t2"} -> "q1" [] t = "t3" -> "q2" [] OTHER -> "q4"]
MCPaid   == [t \in Trade |-> CASE t \in {"t1", "t2"} -> "q1" [] t = "t3" -> "q2" [] OTHER -> "q3"]
BoxAndContainer == [p \in Services |-> IF p = "s1" THEN "box" ELSE "cloud"]

VARIABLE part

partsVars == <<part, vars, feedVars, idVars, routeVars, replayVars, onboardVars>>

Chosen(p) == part = p

IdlePaywall == refundOnFailure = TRUE /\ listing = [p \in Providers |-> CHOOSE l \in Listing : TRUE]
IdleFeed == trades = << >>
IdleRouting == market = Unreachable /\ query = [hard |-> FALSE, short |-> FALSE] /\ pick = NoPick
IdleReplay ==
  /\ seller = [r \in Roles |-> [profile |-> Profile(Big, Big, "groq", FALSE),
                                env |-> [key |-> FALSE, broker |-> "off", verified |-> FALSE]]]
  /\ prompt = "default"

PartsInit ==
  /\ part \in {"paywall", "feed", "token", "routing", "audit", "onboarding"}
  /\ Chosen("paywall") \/ IdlePaywall
  /\ Init
  /\ Chosen("feed") \/ IdleFeed
  /\ FeedInit /\ IdInit /\ OnboardInit
  /\ Chosen("routing") \/ IdleRouting
  /\ RouteInit
  /\ Chosen("audit") \/ IdleReplay
  /\ ReplayInit

PartsNext ==
  /\ UNCHANGED part
  /\ \/ Chosen("paywall") /\ Next /\ UNCHANGED <<feedVars, idVars, routeVars, replayVars, onboardVars>>
     \/ Chosen("feed") /\ FeedNext /\ UNCHANGED <<vars, idVars, routeVars, replayVars, onboardVars>>
     \/ Chosen("token") /\ IdNext /\ UNCHANGED <<vars, feedVars, routeVars, replayVars, onboardVars>>
     \/ Chosen("routing") /\ RouteNext /\ UNCHANGED <<vars, feedVars, idVars, replayVars, onboardVars>>
     \/ Chosen("audit") /\ ReplayNext /\ UNCHANGED <<vars, feedVars, idVars, routeVars, onboardVars>>
     \/ Chosen("onboarding") /\ OnboardNext /\ UNCHANGED <<vars, feedVars, idVars, routeVars, replayVars>>

PartsSpec == PartsInit /\ [][PartsNext]_partsVars
================================================================================
