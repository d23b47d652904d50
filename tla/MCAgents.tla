------------------------------ MODULE MCAgents ------------------------------
(*****************************************************************************)
(* Two instances in one run; a behaviour is one of them from its start.      *)
(* "money": every cap and every total, one goal, one agent on the topic.     *)
(* "history": two goals and another agent's message, and one valid cap and   *)
(* one total, for the history does not depend on the amounts.                *)
(*****************************************************************************)
EXTENDS MCAgentRun

VARIABLE scenario

OneGoal == \A r \in Runs : run[r].goal \in {NoGoal, "g1"}
OneTotal == \A r \in Runs : run[r].quoted \in {0, 1} /\ ~run[r].requoted

AgentsInit ==
  /\ Init /\ scenario \in {"money", "history"}
  /\ scenario = "history" => cap = 2

AgentsSpec ==
  /\ AgentsInit
  /\ [][/\ UNCHANGED scenario
        /\ Next
        /\ scenario = "money" => OneGoal' /\ ~OthersPublish
        /\ scenario = "history" => OneTotal']_<<vars, scenario>>
  \* Whatever a run awaits, each scenario leaves it an answer and an error.
  /\ Fairness
================================================================================
