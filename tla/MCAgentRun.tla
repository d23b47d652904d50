------------------------------ MODULE MCAgentRun ------------------------------
(*****************************************************************************)
(* Small instances of AgentRun: one budget that a run can exhaust and        *)
(* overrun, and one that is not valid; totals of one ask and of two.         *)
(*****************************************************************************)
EXTENDS AgentRun

MCCaps == {0, 2}
MCTotals == 1..2
================================================================================
