----------------------------- MODULE MCOnboarding -----------------------------
(***************************************************************************)
(* Small instances of Onboarding: a service on the box, whose .env and     *)
(* cache file it shares with the MCP server, and one in a container.       *)
(***************************************************************************)
EXTENDS Onboarding
BoxAndContainer == [p \in Services |-> IF p = "s1" THEN "box" ELSE "cloud"]
================================================================================
