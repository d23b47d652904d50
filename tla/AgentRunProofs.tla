--------------------------- MODULE AgentRunProofs ---------------------------
(***************************************************************************)
(* Theorems about the agent server, for any number of runs, goals, budgets *)
(* and totals, and any number of restarts.                                 *)
(***************************************************************************)
EXTENDS AgentRun, FiniteSetTheorems, TLAPS

\* What a run knows about itself where it awaits.
ClosureInv ==
  \A r \in Runs :
    /\ run[r].pc \in {"buying", "paying"} => run[r].left >= 1
    /\ run[r].pc = "paying" => run[r].quoted \in Totals
    /\ run[r].pc \in Active => run[r].goal \in Goals
    /\ run[r].pc = "new" => run[r] = NewRun
    /\ r \in settling => /\ run[r].pc \in {"killed", "failed"}
                         /\ ~run[r].requoted => run[r].paid = run[r].spent

\* The goal that recordCall will read is the goal of the run that goes on.
GoalInv == \A r \in Runs : run[r].pc \in Active => state.goal = run[r].goal

IInv ==
  /\ TypeOK /\ ClosureInv /\ GoalInv
  /\ OneRunAtATime /\ BudgetTracksWallet /\ ShownBalanceNeverTooLow

-----------------------------------------------------------------------------
(* Types.                                                                  *)

LEMMA ClosureFields ==
  ASSUME run \in [Runs -> Closure], NEW r \in Runs
  PROVE  /\ run[r] \in Closure
         /\ run[r].pc \in Steps /\ run[r].goal \in Goals \cup {NoGoal}
         /\ run[r].left \in Nat /\ run[r].spent \in Nat /\ run[r].paid \in Nat
         /\ run[r].findings \in Nat /\ run[r].requoted \in BOOLEAN
         /\ run[r].quoted \in Totals \cup {0} /\ run[r].quoted \in Nat
<1>1. run[r] \in Closure
  OBVIOUS
<1>2. run[r].quoted \in Totals \cup {0}
  BY <1>1 DEF Closure
<1>3. run[r].quoted \in Nat
  <2>1. CASE run[r].quoted = 0
    BY <2>1
  <2>2. CASE run[r].quoted \in Totals
    BY <2>2, AmountsAssumption
  <2>3. QED
    BY <1>2, <2>1, <2>2
<1>4. QED
  BY <1>1, <1>2, <1>3 DEF Closure

\* A step that gives one run a new closure.
LEMMA ClosureReplaced ==
  ASSUME run \in [Runs -> Closure], NEW r \in Runs, NEW c \in Closure,
         run' = [run EXCEPT ![r] = c]
  PROVE  run' \in [Runs -> Closure]
OBVIOUS

LEMMA InitTypeOK == Init => TypeOK
BY AmountsAssumption
DEF Init, TypeOK, FreshState, NewRun, Closure, Steps, NoGoal

ServerState == [running : BOOLEAN, goal : Goals \cup {NoGoal}, balance : Int,
                budget : Nat, events : Seq(Event)]

\* Everything a step of the loop emits is an event.
LEMMA EmittedAreEvents ==
  /\ \A type \in {"route", "goal", "plan", "budget-exhausted", "synthesis", "done", "error"} :
       Ev(type) \in Event
  /\ \A t \in Totals : [type |-> "bought", cost |-> t] \in Event
  /\ \A left, spent : Exhausted(left, spent) \in Seq(Event)
<1>1. \A type \in {"route", "goal", "plan", "budget-exhausted", "synthesis", "done", "error"} :
        Ev(type) \in Event
  BY DEF Ev, Event
<1>2. \A t \in Totals : [type |-> "bought", cost |-> t] \in Event
  BY DEF Event
<1>3. ASSUME NEW left, NEW spent PROVE Exhausted(left, spent) \in Seq(Event)
  BY <1>1 DEF Exhausted
<1>4. QED
  BY <1>1, <1>2, <1>3

\* A failed run leaves a well-typed state.
LEMMA FailRunState ==
  ASSUME state \in ServerState, NEW r, FailRun(r)
  PROVE  state' \in ServerState
<1>1. Append(state.events, Ev("error")) \in Seq(Event)
  BY EmittedAreEvents DEF ServerState
<1>2. QED
  BY <1>1 DEF FailRun, ServerState

LEMMA DieTypeOK ==
  ASSUME TypeOK, NEW running \in [Runs -> Closure], Die(running)
  PROVE  TypeOK'
<1>1. run' \in [Runs -> Closure]
  BY DEF Die, Closure, Steps
<1>2. state' \in ServerState
  BY DEF Die, FreshState, ServerState
<1>3. QED
  BY <1>1, <1>2 DEF TypeOK, Die, ServerState

LEMMA BootTypeOK ==
  ASSUME TypeOK, Listen \/ BootDone \/ BootFails
  PROVE  TypeOK'
<1>1. CASE Listen
  BY <1>1, BoundsAssumption DEF TypeOK, Listen
<1>2. CASE BootDone
  <2>1. state' \in ServerState
    BY <1>2 DEF TypeOK, BootDone, ServerState
  <2>2. QED
    BY <1>2, <2>1 DEF TypeOK, BootDone, ServerState
<1>3. CASE BootFails
  BY <1>3 DEF TypeOK, BootFails
<1>4. QED
  BY <1>1, <1>2, <1>3

LEMMA PostRunTypeOK ==
  ASSUME TypeOK, NEW r \in Runs, NEW g \in Goals, PostRun(r, g)
  PROVE  TypeOK'
<1> DEFINE c == [run[r] EXCEPT !.pc = "routing", !.goal = g]
<1>1. run' \in [Runs -> Closure]
  <2>1. run \in [Runs -> Closure] /\ run[r] \in Closure
    BY ClosureFields DEF TypeOK
  <2>2. c \in Closure
    BY <2>1 DEF Closure, Steps
  <2>3. run' = [run EXCEPT ![r] = c]
    BY <2>1 DEF PostRun
  <2>4. QED
    BY <2>1, <2>2, <2>3, ClosureReplaced
<1>2. state' \in ServerState
  <2>1. state \in ServerState
    BY DEF TypeOK, ServerState
  <2>2. state' = [state EXCEPT !.running = TRUE, !.goal = g, !.events = << >>, !.budget = 0]
    BY DEF PostRun
  <2>3. << >> \in Seq(Event)
    OBVIOUS
  <2>4. QED
    BY <2>1, <2>2, <2>3 DEF ServerState
<1>3. QED
  BY <1>1, <1>2 DEF TypeOK, PostRun, ServerState

LEMMA PostRunWithoutBudgetTypeOK ==
  ASSUME TypeOK, NEW r \in Runs, PostRunWithoutBudget(r)
  PROVE  TypeOK'
<1>1. [run EXCEPT ![r].pc = "failed"] \in [Runs -> Closure]
  BY DEF TypeOK, Closure, Steps
<1>2. QED
  BY <1>1, DieTypeOK DEF PostRunWithoutBudget

LEMMA BoughtTypeOK ==
  ASSUME TypeOK, ClosureInv, NEW r \in Runs, NEW t \in Totals, Bought(r, t)
  PROVE  TypeOK'
<1> DEFINE quoted == run[r].quoted
           spent == run[r].spent + t
           left == run[r].left - 1
<1>1. run \in [Runs -> Closure] /\ state \in ServerState /\ state.events \in Seq(Event)
  BY DEF TypeOK, ServerState
<1>2. /\ t \in Nat /\ quoted \in Nat /\ left \in Nat /\ spent \in Nat
      /\ run[r].goal \in Goals
  BY <1>1, AmountsAssumption DEF Bought, ClosureInv, Closure, Active
<1>3. run' \in [Runs -> Closure]
  <2> DEFINE requoted == run[r].requoted \/ t # quoted
  <2>1. run[r].paid + quoted \in Nat /\ run[r].findings + 1 \in Nat /\ requoted \in BOOLEAN
    BY <1>1, <1>2 DEF Closure
  <2> HIDE DEF quoted, spent, left
  <2> DEFINE pc == IF Stop(left, spent) THEN "synth" ELSE "buying"
             c == [run[r] EXCEPT !.pc = pc, !.left = left, !.spent = spent,
                                 !.paid = @ + quoted, !.findings = @ + 1, !.requoted = requoted]
  <2>2. pc \in Steps
    BY DEF Steps
  <2>3. run' = [run EXCEPT ![r] = c]
    <3>1. run' = [run EXCEPT ![r] = [run[r] EXCEPT
               !.pc = IF Stop(left, spent) THEN "synth" ELSE "buying",
               !.left = left, !.spent = spent, !.paid = @ + quoted,
               !.findings = @ + 1, !.requoted = @ \/ t # quoted]]
      BY DEF Bought, quoted, spent, left
    <3>2. QED
      BY <1>1, <3>1
  <2>4. c \in Closure
    <3>1. run[r] \in Closure
      BY <1>1, ClosureFields
    <3> HIDE DEF pc, requoted
    <3>2. QED
      BY <1>2, <2>1, <2>2, <3>1 DEF Closure
  <2> HIDE DEF c
  <2>5. QED
    BY <1>1, <2>3, <2>4, ClosureReplaced
<1>4. state' \in ServerState
  <2>1. <<[type |-> "bought", cost |-> t]>> \in Seq(Event)
    BY <1>2, EmittedAreEvents
  <2>2. state.events \o <<[type |-> "bought", cost |-> t]>> \o Exhausted(left, spent) \in Seq(Event)
    BY <1>1, <2>1, EmittedAreEvents
  <2>3. state.balance - t \in Int
    BY <1>1, <1>2 DEF ServerState
  <2> HIDE DEF spent, left
  <2>4. state' = [state EXCEPT
               !.balance = @ - t, !.budget = spent,
               !.events = @ \o <<[type |-> "bought", cost |-> t]>> \o Exhausted(left, spent)]
    BY DEF Bought, spent, left
  <2>5. QED
    BY <1>1, <1>2, <2>2, <2>3, <2>4 DEF ServerState
<1>5. calls' \in Seq(Call) /\ outbox' \in SUBSET Call
  <2>1. PICK ref \in {refs + 1, Settled} :
          LET call == [goal |-> state.goal, question |-> run[r].goal, cost |-> t,
                       ref |-> ref, tx |-> refs + 1] IN
          /\ calls' = LET longer == Append(calls, call) IN
                      IF Len(longer) > CallsCap THEN Tail(longer) ELSE longer
          /\ outbox' = outbox \cup {call}
    BY DEF Bought
  <2> DEFINE call == [goal |-> state.goal, question |-> run[r].goal, cost |-> t,
                      ref |-> ref, tx |-> refs + 1]
  <2>2. call \in Call
    BY <1>1, <1>2, <2>1 DEF TypeOK, Call, ServerState, Settled
  <2>3. calls' = Append(calls, call) \/ calls' = Tail(Append(calls, call))
    BY <2>1
  <2>4. outbox' = outbox \cup {call}
    BY <2>1
  <2> HIDE DEF call
  <2>5. calls \in Seq(Call) /\ outbox \in SUBSET Call
    BY DEF TypeOK
  <2>6. Append(calls, call) \in Seq(Call) /\ Append(calls, call) # << >>
    <3>1. Append(calls, call) \in Seq(Call)
      BY <2>2, <2>5
    <3>2. Len(Append(calls, call)) = Len(calls) + 1 /\ Len(calls) \in Nat
      BY <2>2, <2>5
    <3>3. QED
      BY <3>1, <3>2
  <2>7. Tail(Append(calls, call)) \in Seq(Call)
    BY <2>6
  <2>8. QED
    BY <2>2, <2>3, <2>4, <2>5, <2>6, <2>7
<1>6. wallet' \in Int /\ refs' \in Nat
  BY <1>2 DEF TypeOK, Bought, Charge
<1>7. QED
  BY <1>3, <1>4, <1>5, <1>6 DEF TypeOK, Bought, ServerState

\* Any other step of a run.
LEMMA RunStepTypeOK ==
  ASSUME TypeOK, ClosureInv, NEW r \in Runs, RunStep(r)
  PROVE  TypeOK'
<1>1. run \in [Runs -> Closure] /\ state \in ServerState /\ state.events \in Seq(Event)
  BY DEF TypeOK, ServerState
<1>2. /\ run[r] \in Closure /\ run[r].spent \in Nat /\ run[r].paid \in Nat
      /\ run[r].quoted \in Nat
  BY <1>1, ClosureFields
<1>3. CASE Routed(r)
  <2>1. run' \in [Runs -> Closure]
    BY <1>1, <1>3 DEF Routed, Closure, Steps
  <2>2. state.events \o <<Ev("route"), Ev("goal")>> \in Seq(Event)
    BY <1>1, EmittedAreEvents
  <2>3. state' \in ServerState
    BY <1>1, <1>2, <1>3, <2>2 DEF Routed, ServerState
  <2>4. QED
    BY <1>3, <2>1, <2>3 DEF Routed, TypeOK, ServerState
<1>4. ASSUME NEW n \in 1..MaxQuestions, Planned(r, n) PROVE TypeOK'
  <2>1. n \in Nat
    BY BoundsAssumption
  <2> DEFINE pc == IF Stop(n, 0) THEN "synth" ELSE "buying"
             c == [run[r] EXCEPT !.pc = pc, !.left = n]
  <2>2. run' \in [Runs -> Closure]
    <3>1. pc \in Steps
      BY DEF Steps
    <3>2. run' = [run EXCEPT ![r] = c]
      BY <1>1, <1>4 DEF Planned
    <3> HIDE DEF pc
    <3>3. c \in Closure
      BY <1>2, <2>1, <3>1 DEF Closure
    <3>4. QED
      BY <1>1, <3>2, <3>3, ClosureReplaced
  <2>3. state.events \o <<Ev("plan")>> \o Exhausted(n, 0) \in Seq(Event)
    BY <1>1, EmittedAreEvents
  <2>4. state' \in ServerState
    BY <1>1, <1>4, <2>3 DEF Planned, ServerState
  <2>5. QED
    BY <1>4, <2>2, <2>4 DEF Planned, TypeOK, ServerState
<1>5. CASE PlanFails(r) \/ BuyFails(r) \/ SynthesisFails(r)
  <2>4. settling' \in SUBSET Runs
    BY <1>5 DEF PlanFails, BuyFails, SynthesisFails, TypeOK
  <2>1. run' \in [Runs -> Closure]
    <3>1. run' = [run EXCEPT ![r].pc = "failed"]
      BY <1>5 DEF PlanFails, BuyFails, SynthesisFails
    <3>2. QED
      BY <1>1, <1>2, <3>1 DEF Closure, Steps
  <2>2. state' \in ServerState
    BY <1>1, <1>5, FailRunState DEF PlanFails, BuyFails, SynthesisFails
  <2>3. QED
    BY <1>5, <2>1, <2>2, <2>4 DEF PlanFails, BuyFails, SynthesisFails, TypeOK, ServerState
<1>6. ASSUME NEW t \in Totals, Challenged(r, t) PROVE TypeOK'
  <2> DEFINE c == [run[r] EXCEPT !.pc = "paying", !.quoted = t]
  <2>1. run' \in [Runs -> Closure]
    <3>1. run' = [run EXCEPT ![r] = c]
      BY <1>1, <1>6 DEF Challenged
    <3>2. c \in Closure
      BY <1>2 DEF Closure, Steps
    <3>3. QED
      BY <1>1, <3>1, <3>2, ClosureReplaced
  <2>2. QED
    BY <1>6, <2>1 DEF Challenged, TypeOK
<1>7. CASE PaidInVain(r)
  <2> DEFINE paid == run[r].paid + run[r].quoted
             c == [run[r] EXCEPT !.pc = "failed", !.paid = paid]
  <2>1. paid \in Nat
    BY <1>2
  <2>2. run' \in [Runs -> Closure]
    <3>1. run' = [run EXCEPT ![r] = c]
      BY <1>1, <1>7 DEF PaidInVain
    <3> HIDE DEF paid
    <3>2. c \in Closure
      BY <1>2, <2>1 DEF Closure, Steps
    <3>3. QED
      BY <1>1, <3>1, <3>2, ClosureReplaced
  <2>3. state' \in ServerState
    BY <1>1, <1>7, FailRunState DEF PaidInVain
  <2>4. wallet' \in Int /\ refs' \in Nat
    BY <1>2, <1>7 DEF PaidInVain, Charge, TypeOK
  <2>5. QED
    BY <1>7, <2>2, <2>3, <2>4 DEF PaidInVain, TypeOK, ServerState
<1>8. CASE Synthesized(r)
  <2>1. run' \in [Runs -> Closure]
    BY <1>1, <1>8 DEF Synthesized, Closure, Steps
  <2>2. state.events \o <<Ev("synthesis"), Ev("done")>> \in Seq(Event)
    BY <1>1, EmittedAreEvents
  <2>3. state' \in ServerState
    BY <1>1, <1>8, <2>2 DEF Synthesized, ServerState
  <2>4. QED
    BY <1>8, <2>1, <2>3 DEF Synthesized, TypeOK, ServerState
<1>9. ASSUME NEW t \in Totals, Bought(r, t) PROVE TypeOK'
  BY <1>9, BoughtTypeOK
<1>10. QED
  BY <1>3, <1>4, <1>5, <1>6, <1>7, <1>8, <1>9 DEF RunStep

LEMMA OtherTypeOK ==
  ASSUME TypeOK, PublishStep \/ OthersPublish \/ \E r \in Runs : SettlesLate(r)
  PROVE  TypeOK'
<1>1. ASSUME NEW call \in outbox, Publishes(call) \/ PublishFails(call) PROVE TypeOK'
  <2>1. call \in Call /\ topic \in Seq(Call \cup {Foreign}) /\ outbox \in SUBSET Call
    BY DEF TypeOK
  <2>2. topic' \in Seq(Call \cup {Foreign}) /\ outbox' \in SUBSET Call
    BY <1>1, <2>1 DEF Publishes, PublishFails
  <2>3. QED
    BY <1>1, <2>2 DEF TypeOK, Publishes, PublishFails
<1>2. ASSUME NEW r \in Runs, SettlesLate(r) PROVE TypeOK'
  <2> DEFINE paid == run[r].paid + run[r].quoted
             c == [run[r] EXCEPT !.paid = paid]
  <2>1. run \in [Runs -> Closure] /\ run[r] \in Closure /\ run[r].quoted \in Nat /\ paid \in Nat
    BY ClosureFields DEF TypeOK
  <2>2. run' \in [Runs -> Closure]
    <3>1. run' = run \/ run' = [run EXCEPT ![r] = c]
      BY <1>2, <2>1 DEF SettlesLate
    <3> HIDE DEF paid
    <3>2. c \in Closure
      BY <2>1 DEF Closure
    <3>3. QED
      BY <2>1, <3>1, <3>2, ClosureReplaced
  <2>3. wallet' \in Int /\ refs' \in Nat
    BY <1>2, <2>1 DEF SettlesLate, TypeOK
  <2>4. QED
    BY <1>2, <2>2, <2>3 DEF SettlesLate, TypeOK
<1>3. CASE OthersPublish
  <2>1. topic' \in Seq(Call \cup {Foreign})
    BY <1>3 DEF TypeOK, OthersPublish
  <2>2. QED
    BY <1>3, <2>1 DEF TypeOK, OthersPublish
<1>4. QED
  BY <1>1, <1>2, <1>3 DEF PublishStep, Publishes, PublishFails

-----------------------------------------------------------------------------
(* One step of the loop: what every step of a run has in common.           *)

LoopStep(r) ==
  /\ run[r].pc \in Active
  /\ \A s \in Runs : s # r => run'[s] = run[s]
  /\ up' = up /\ cap' = cap
  /\ settling' = settling \/ (settling' = settling \cup {r} /\ run'[r].pc = "failed"
                             /\ (~run'[r].requoted => run'[r].paid = run'[r].spent))
  /\ state'.goal = state.goal /\ run'[r].goal = run[r].goal
  /\ state'.running <=> run'[r].pc \in Active
  /\ run[r].requoted => run'[r].requoted
  /\ ~run'[r].requoted => state'.balance - wallet' >= state.balance - wallet
  /\ run'[r].pc \in Active \cup {"done", "failed"}
  /\ run'[r].pc \in {"buying", "paying"} => run'[r].left >= 1
  /\ run'[r].pc = "paying" => run'[r].quoted \in Totals
  /\ run'[r].pc \in Active => state'.budget = run'[r].spent
  /\ run'[r].spent > 0 => run'[r].spent <= cap
  /\ ~run'[r].requoted =>
       /\ run'[r].pc \in Active \cup {"done"} => run'[r].paid = run'[r].spent
       /\ run'[r].paid - run'[r].spent \in {0, run'[r].quoted}

\* The values that a run's step reads.
LEMMA LoopReads ==
  ASSUME IInv, NEW r \in Runs, run[r].pc \in Active
  PROVE  /\ run \in [Runs -> Closure] /\ run[r] \in Closure
         /\ state \in ServerState /\ wallet \in Int /\ cap \in Int
         /\ state.running /\ state.budget = run[r].spent
         /\ run[r].spent \in Nat /\ run[r].paid \in Nat /\ run[r].quoted \in Nat
         /\ run[r].left \in Nat /\ run[r].requoted \in BOOLEAN
         /\ ~run[r].requoted => run[r].paid = run[r].spent
         /\ run[r].spent > 0 => run[r].spent <= cap
<1>1. /\ run \in [Runs -> Closure] /\ state \in ServerState /\ wallet \in Int /\ cap \in Int
  BY AmountsAssumption DEF IInv, TypeOK, ServerState
<1>2. r \in Going
  BY DEF Going
<1>3. state.running
  BY <1>2 DEF IInv, OneRunAtATime
<1>4. /\ state.budget = run[r].spent /\ (~run[r].requoted => run[r].paid = run[r].spent)
      /\ run[r].spent > 0 => run[r].spent <= cap
  BY DEF IInv, BudgetTracksWallet
<1>5. /\ run[r] \in Closure /\ run[r].spent \in Nat /\ run[r].quoted \in Nat
      /\ run[r].left \in Nat /\ run[r].paid \in Nat /\ run[r].requoted \in BOOLEAN
  BY <1>1, ClosureFields
<1>6. QED
  BY <1>1, <1>3, <1>4, <1>5

LEMMA FailingIsALoopStep ==
  ASSUME IInv, NEW r \in Runs, PlanFails(r) \/ BuyFails(r) \/ SynthesisFails(r)
  PROVE  LoopStep(r)
<1>1. run[r].pc \in Active
  BY DEF PlanFails, BuyFails, SynthesisFails, Active
<1>2. /\ run' = [run EXCEPT ![r].pc = "failed"]
      /\ state' = [state EXCEPT !.running = FALSE, !.events = Append(@, Ev("error"))]
      /\ up' = up /\ cap' = cap /\ wallet' = wallet
      /\ settling' = settling \/ settling' = settling \cup {r}
  BY DEF PlanFails, BuyFails, SynthesisFails, FailRun
<1>3. /\ run'[r].pc = "failed" /\ run'[r].goal = run[r].goal
      /\ run'[r].spent = run[r].spent /\ run'[r].paid = run[r].paid
      /\ run'[r].requoted = run[r].requoted
      /\ \A s \in Runs : s # r => run'[s] = run[s]
  BY <1>1, <1>2, LoopReads DEF Closure
<1>4. state'.goal = state.goal /\ state'.running = FALSE /\ state'.balance = state.balance
  BY <1>1, <1>2, LoopReads DEF ServerState
<1>5. state.balance \in Int
  BY <1>1, LoopReads DEF ServerState
<1>6. /\ ~run[r].requoted => run[r].paid = run[r].spent
      /\ run[r].spent \in Nat /\ run[r].paid \in Nat /\ wallet \in Int
      /\ run[r].spent > 0 => run[r].spent <= cap
  BY <1>1, LoopReads
<1>7. state'.balance - wallet' >= state.balance - wallet
  BY <1>2, <1>4, <1>5, <1>6
<1>8. ~run'[r].requoted => run'[r].paid = run'[r].spent /\ run'[r].paid - run'[r].spent = 0
  BY <1>3, <1>6
<1>9. "failed" \notin Active \cup {"done"}
  BY DEF Active
<1>10. QED
  BY <1>1, <1>2, <1>3, <1>4, <1>6, <1>7, <1>8, <1>9 DEF LoopStep

\* The steps that only go on, without money.
LEMMA GoingOnIsALoopStep ==
  ASSUME IInv, NEW r \in Runs,
         \/ Routed(r) \/ Synthesized(r)
         \/ \E n \in 1..MaxQuestions : Planned(r, n)
         \/ \E t \in Totals : Challenged(r, t)
  PROVE  LoopStep(r)
<1>1. run[r].pc \in Active
  BY DEF Routed, Synthesized, Planned, Challenged, Active
<1>2. /\ run \in [Runs -> Closure] /\ run[r] \in Closure /\ state \in ServerState
      /\ wallet \in Int /\ state.budget = run[r].spent
      /\ (~run[r].requoted => run[r].paid = run[r].spent) /\ run[r].spent \in Nat
      /\ run[r].spent > 0 => run[r].spent <= cap
  BY <1>1, LoopReads
<1>3. /\ up' = up /\ cap' = cap /\ settling' = settling /\ wallet' = wallet
      /\ state.balance \in Int /\ run[r].left \in Nat
      /\ ~run[r].requoted => run[r].paid - run[r].spent = 0
  <2>1. up' = up /\ cap' = cap /\ settling' = settling /\ wallet' = wallet
    BY DEF Routed, Synthesized, Planned, Challenged
  <2>2. run[r].left \in Nat /\ run[r].paid \in Nat
    BY <1>1, LoopReads
  <2>3. QED
    BY <1>2, <2>1, <2>2 DEF ServerState
<1>4. state.running
  BY <1>1, LoopReads
<1>5. CASE Routed(r)
  <2>1. /\ run'[r].pc = "planning" /\ run'[r].goal = run[r].goal
        /\ run'[r].spent = run[r].spent /\ run'[r].paid = run[r].paid
        /\ run'[r].requoted = run[r].requoted
        /\ \A s \in Runs : s # r => run'[s] = run[s]
    BY <1>2, <1>5 DEF Routed, Closure
  <2>2. /\ state'.goal = state.goal /\ state'.running = state.running
        /\ state'.balance = state.balance /\ state'.budget = run[r].spent
    BY <1>2, <1>5 DEF Routed, ServerState
  <2>3. "planning" \in Active \ {"buying", "paying"}
    BY DEF Active
  <2>4. QED
    BY <1>1, <1>2, <1>3, <1>4, <2>1, <2>2, <2>3 DEF LoopStep
<1>6. CASE Synthesized(r)
  <2>1. /\ run'[r].pc = "done" /\ run'[r].goal = run[r].goal
        /\ run'[r].spent = run[r].spent /\ run'[r].paid = run[r].paid
        /\ run'[r].requoted = run[r].requoted
        /\ \A s \in Runs : s # r => run'[s] = run[s]
    BY <1>2, <1>6 DEF Synthesized, Closure
  <2>2. /\ state'.goal = state.goal /\ state'.running = FALSE /\ state'.balance = state.balance
    BY <1>2, <1>6 DEF Synthesized, ServerState
  <2>3. "done" \notin Active
    BY DEF Active
  <2>4. QED
    BY <1>1, <1>2, <1>3, <2>1, <2>2, <2>3 DEF LoopStep
<1>7. ASSUME NEW n \in 1..MaxQuestions, Planned(r, n) PROVE LoopStep(r)
  <2>1. /\ run'[r].pc = IF Stop(n, 0) THEN "synth" ELSE "buying"
        /\ run'[r].goal = run[r].goal /\ run'[r].left = n
        /\ run'[r].spent = run[r].spent /\ run'[r].paid = run[r].paid
        /\ run'[r].requoted = run[r].requoted
        /\ \A s \in Runs : s # r => run'[s] = run[s]
    BY <1>2, <1>7 DEF Planned, Closure
  <2>2. /\ state'.goal = state.goal /\ state'.running = state.running
        /\ state'.balance = state.balance /\ state'.budget = run[r].spent
    BY <1>2, <1>7 DEF Planned, ServerState
  <2>3. {"synth", "buying"} \subseteq Active \ {"paying"} /\ n >= 1
    BY DEF Active
  <2>4. QED
    BY <1>1, <1>2, <1>3, <1>4, <2>1, <2>2, <2>3 DEF LoopStep
<1>8. ASSUME NEW t \in Totals, Challenged(r, t) PROVE LoopStep(r)
  <2>1. /\ run'[r].pc = "paying" /\ run'[r].goal = run[r].goal /\ run'[r].left = run[r].left
        /\ run'[r].spent = run[r].spent /\ run'[r].paid = run[r].paid /\ run'[r].quoted = t
        /\ run'[r].requoted = run[r].requoted
        /\ \A s \in Runs : s # r => run'[s] = run[s]
    BY <1>2, <1>8 DEF Challenged, Closure
  <2>2. run[r].left >= 1 /\ state' = state
    BY <1>8 DEF Challenged, IInv, ClosureInv
  <2>3. "paying" \in Active
    BY DEF Active
  <2>4. QED
    BY <1>1, <1>2, <1>3, <1>4, <2>1, <2>2, <2>3 DEF LoopStep
<1>9. QED
  BY <1>5, <1>6, <1>7, <1>8

LEMMA BuyingIsALoopStep ==
  ASSUME IInv, NEW r \in Runs, NEW t \in Totals, Bought(r, t)
  PROVE  LoopStep(r)
<1> DEFINE quoted == run[r].quoted
           spent == run[r].spent + t
           left == run[r].left - 1
<1>1. run[r].pc \in Active /\ t \in Nat
  BY AmountsAssumption DEF Bought, Active
<1>2. /\ run \in [Runs -> Closure] /\ run[r] \in Closure /\ state \in ServerState
      /\ wallet \in Int /\ cap \in Int /\ quoted \in Nat /\ run[r].left \in Nat
      /\ run[r].spent \in Nat /\ run[r].paid \in Nat /\ run[r].requoted \in BOOLEAN
      /\ ~run[r].requoted => run[r].paid = run[r].spent
  BY <1>1, LoopReads
<1>3. /\ up' = up /\ cap' = cap /\ settling' = settling /\ wallet' = wallet - quoted
      /\ state.balance \in Int
  BY <1>2 DEF Bought, Charge, ServerState
<1>4. state.running
  BY <1>1, LoopReads
<1>5. t > 0 /\ t <= cap - run[r].spent
  BY DEF Bought, Recordable, CanAfford
<1>6. spent \in Nat /\ spent <= cap
  BY <1>1, <1>2, <1>5
<1>7. /\ run'[r].pc = IF Stop(left, spent) THEN "synth" ELSE "buying"
      /\ run'[r].goal = run[r].goal /\ run'[r].left = left
      /\ run'[r].spent = spent /\ run'[r].paid = run[r].paid + quoted
      /\ run'[r].requoted = (run[r].requoted \/ t # quoted)
      /\ \A s \in Runs : s # r => run'[s] = run[s]
  BY <1>2 DEF Bought, Closure
<1>8. /\ state'.goal = state.goal /\ state'.running = state.running
      /\ state'.balance = state.balance - t /\ state'.budget = spent
  BY <1>2 DEF Bought, ServerState
<1>9. {"synth", "buying"} \subseteq Active \ {"paying"}
  BY DEF Active
<1>10. run'[r].pc = "buying" => left >= 1
  <2>1. run[r].left >= 1
    BY DEF Bought, IInv, ClosureInv
  <2>2. QED
    BY <1>2, <1>7, <2>1 DEF Stop
<1>11. ASSUME ~run'[r].requoted
       PROVE  /\ state'.balance - wallet' >= state.balance - wallet
              /\ run'[r].paid = run'[r].spent /\ run'[r].paid - run'[r].spent = 0
  <2>1. t = quoted /\ ~run[r].requoted
    BY <1>7, <1>11
  <2>2. run'[r].paid = run'[r].spent /\ run'[r].spent \in Nat
    BY <1>2, <1>6, <1>7, <2>1
  <2>3. QED
    BY <1>1, <1>2, <1>3, <1>8, <2>1, <2>2
<1> HIDE DEF spent, left, quoted
<1>12. run[r].requoted => run'[r].requoted
  BY <1>7
<1>13. QED
  BY <1>1, <1>3, <1>4, <1>6, <1>7, <1>8, <1>9, <1>10, <1>11, <1>12 DEF LoopStep

LEMMA PayingIsALoopStep ==
  ASSUME IInv, NEW r \in Runs, PaidInVain(r)
  PROVE  LoopStep(r)
<1> DEFINE t == run[r].quoted
<1>1. run[r].pc \in Active
  BY DEF PaidInVain, Active
<1>2. /\ run \in [Runs -> Closure] /\ run[r] \in Closure /\ state \in ServerState
      /\ wallet \in Int /\ cap \in Int /\ t \in Nat
      /\ run[r].spent \in Nat /\ run[r].paid \in Nat
      /\ ~run[r].requoted => run[r].paid = run[r].spent
      /\ run[r].spent > 0 => run[r].spent <= cap
  BY <1>1, LoopReads
<1>3. /\ up' = up /\ cap' = cap /\ settling' = settling /\ wallet' = wallet - t
      /\ state.balance \in Int
  BY <1>2 DEF PaidInVain, Charge, ServerState
<1>4. /\ run'[r].pc = "failed" /\ run'[r].goal = run[r].goal
      /\ run'[r].spent = run[r].spent /\ run'[r].paid = run[r].paid + t /\ run'[r].quoted = t
      /\ run'[r].requoted = run[r].requoted
      /\ \A s \in Runs : s # r => run'[s] = run[s]
  BY <1>2 DEF PaidInVain, Closure
<1>5. state'.goal = state.goal /\ state'.running = FALSE /\ state'.balance = state.balance
  BY <1>2 DEF PaidInVain, FailRun, ServerState
<1>6. "failed" \notin Active \cup {"done"}
  BY DEF Active
<1> HIDE DEF t
<1>7. ~run'[r].requoted => run'[r].paid - run'[r].spent = run'[r].quoted
  BY <1>2, <1>4
<1>8. state'.balance - wallet' >= state.balance - wallet
  BY <1>2, <1>3, <1>5
<1>9. QED
  BY <1>1, <1>2, <1>3, <1>4, <1>5, <1>6, <1>7, <1>8 DEF LoopStep

LEMMA RunStepIsALoopStep ==
  ASSUME IInv, NEW r \in Runs, RunStep(r)
  PROVE  LoopStep(r)
BY FailingIsALoopStep, GoingOnIsALoopStep, BuyingIsALoopStep, PayingIsALoopStep DEF RunStep

\* A step of the loop keeps what the other runs and the server rely on.
LEMMA LoopStepHolds ==
  ASSUME IInv, NEW r \in Runs, LoopStep(r), TypeOK'
  PROVE  IInv'
<1>1. \A s \in Runs : run[s].pc \in Active => s = r
  BY DEF IInv, OneRunAtATime, Going, LoopStep
<1>2. Active \cap {"new", "killed", "done", "failed"} = {}
  BY DEF Active
<1>3. \A s \in Runs : s # r => run'[s] = run[s] /\ run[s].pc \notin Active
  BY <1>1 DEF LoopStep
<1>4. ClosureInv'
  <2>1. r \notin settling
    BY <1>2 DEF IInv, ClosureInv, LoopStep
  <2>2. run[r].goal \in Goals
    BY DEF IInv, ClosureInv, LoopStep
  <2>3. run'[r].pc # "new"
    BY <1>2 DEF LoopStep
  <2>4. r \in settling' => run'[r].pc = "failed" /\ (~run'[r].requoted => run'[r].paid = run'[r].spent)
    BY <2>1 DEF LoopStep
  <2>5. \A s \in Runs : s # r /\ s \in settling' => s \in settling
    BY DEF LoopStep
  <2>6. QED
    BY <1>3, <2>2, <2>3, <2>4, <2>5 DEF IInv, ClosureInv, LoopStep
<1>5. GoalInv'
  BY <1>3 DEF IInv, GoalInv, LoopStep
<1>6. OneRunAtATime'
  <2>1. Going' = IF run'[r].pc \in Active THEN {r} ELSE {}
    BY <1>3 DEF Going
  <2>2. QED
    BY <2>1 DEF OneRunAtATime, LoopStep
<1>7. BudgetTracksWallet'
  <2>1. ASSUME NEW s \in Runs, s # r
        PROVE  /\ run'[s].pc \notin Active
               /\ (run[s].spent > 0 => run[s].spent <= cap)'
               /\ (~run[s].requoted =>
                     /\ run[s].pc \in Active \cup {"done"} => run[s].paid = run[s].spent
                     /\ run[s].paid - run[s].spent \in {0, run[s].quoted})'
    BY <1>3, <2>1 DEF IInv, BudgetTracksWallet, LoopStep
  <2>2. QED
    BY <2>1 DEF BudgetTracksWallet, LoopStep
<1>8. ShownBalanceNeverTooLow'
  <2>1. state.balance \in Int /\ wallet \in Int /\ state'.balance \in Int /\ wallet' \in Int
    BY DEF IInv, TypeOK
  <2>2. ASSUME \A s \in Runs : ~run'[s].requoted PROVE \A s \in Runs : ~run[s].requoted
    BY <1>3, <2>2 DEF LoopStep
  <2>3. QED
    BY <2>1, <2>2 DEF IInv, ShownBalanceNeverTooLow, LoopStep
<1>9. QED
  BY <1>4, <1>5, <1>6, <1>7, <1>8 DEF IInv

-----------------------------------------------------------------------------
(* The steps outside of the loop.                                          *)

LEMMA InitHolds == Init => IInv
<1> SUFFICES ASSUME Init PROVE IInv
  OBVIOUS
<1>1. \A r \in Runs : run[r] = NewRun
  BY DEF Init
<1>2. NewRun.pc = "new" /\ NewRun.paid = 0 /\ NewRun.spent = 0 /\ NewRun.quoted = 0
  BY DEF NewRun
<1>3. settling = {} /\ up = "down" /\ state.running = FALSE
  BY DEF Init, FreshState
<1>4. "new" \notin Active \cup {"buying", "paying", "done", "killed"}
  BY DEF Active
<1>5. ClosureInv /\ GoalInv
  BY <1>1, <1>2, <1>3, <1>4 DEF ClosureInv, GoalInv
<1>6. OneRunAtATime
  BY <1>1, <1>2, <1>3, <1>4 DEF OneRunAtATime, Going
<1>7. BudgetTracksWallet
  <2>1. \A r \in Runs : run[r].paid - run[r].spent = 0
    BY <1>1, <1>2
  <2>2. QED
    BY <1>1, <1>2, <1>4, <2>1 DEF BudgetTracksWallet
<1>8. ShownBalanceNeverTooLow
  BY <1>3 DEF ShownBalanceNeverTooLow
<1>9. QED
  BY <1>5, <1>6, <1>7, <1>8, InitTypeOK DEF IInv

LEMMA BootHolds ==
  ASSUME IInv, Listen \/ BootDone \/ BootFails
  PROVE  IInv'
<1>1. TypeOK'
  BY BootTypeOK DEF IInv
<1>2. /\ run' = run /\ settling' = settling /\ wallet' = wallet /\ cap' = cap
      /\ state'.running = state.running /\ state'.goal = state.goal /\ state'.budget = state.budget
  BY DEF Listen, BootDone, BootFails, IInv, TypeOK
<1>3. ClosureInv' /\ GoalInv' /\ OneRunAtATime'
  BY <1>2 DEF IInv, ClosureInv, GoalInv, OneRunAtATime, Going
<1>4. BudgetTracksWallet'
  BY <1>2 DEF IInv, BudgetTracksWallet
<1>5. ShownBalanceNeverTooLow'
  <2>1. CASE BootDone
    <3>1. state'.balance = wallet
      BY <2>1 DEF BootDone, IInv, TypeOK
    <3>2. wallet \in Int
      BY DEF IInv, TypeOK
    <3>3. QED
      BY <1>2, <3>1, <3>2 DEF ShownBalanceNeverTooLow
  <2>2. CASE Listen \/ BootFails
    BY <2>2 DEF Listen, BootFails, ShownBalanceNeverTooLow
  <2>3. QED
    BY <2>1, <2>2
<1>6. QED
  BY <1>1, <1>3, <1>4, <1>5 DEF IInv

\* A process dies with its runs as they are, or with one that just ended.
LEMMA DieHolds ==
  ASSUME IInv, NEW running \in [Runs -> Closure], Die(running),
         \A r \in Runs : \/ running[r] = run[r]
                         \/ /\ running[r].pc = "failed" /\ running[r].paid = 0
                            /\ running[r].spent = 0 /\ r \notin settling
                            /\ run[r].pc = "new"
  PROVE  IInv'
<1>1. TypeOK'
  BY DieTypeOK DEF IInv
<1>2. \A r \in Runs :
        /\ run'[r].pc = IF running[r].pc \in Active THEN "killed" ELSE running[r].pc
        /\ run'[r].paid = running[r].paid /\ run'[r].spent = running[r].spent
        /\ run'[r].quoted = running[r].quoted /\ run'[r].requoted = running[r].requoted
        /\ running[r].pc \notin Active => run'[r] = running[r]
  BY DEF Die, Closure
<1>3. /\ cap' = cap /\ settling' = settling \cup {r \in Runs : running[r].pc = "paying"}
      /\ state'.running = FALSE /\ up' = "down"
  BY DEF Die, FreshState
<1>4. Active \cap {"new", "killed", "done", "failed"} = {} /\ {"buying", "paying"} \subseteq Active
  BY DEF Active
<1>5. \A r \in Runs : run'[r].pc \notin Active
  BY <1>2, <1>4
<1>6. ClosureInv'
  <2>1. ASSUME NEW r \in Runs, run'[r].pc = "new" PROVE run'[r] = NewRun
    BY <1>2, <1>4, <2>1 DEF IInv, ClosureInv
  <2>2. ASSUME NEW r \in Runs, r \in settling'
        PROVE  /\ run'[r].pc \in {"killed", "failed"}
               /\ ~run'[r].requoted => run'[r].paid = run'[r].spent
    <3>1. CASE r \in settling
      BY <1>2, <1>4, <3>1 DEF IInv, ClosureInv
    <3>2. CASE running[r].pc = "paying"
      <4>1. running[r] = run[r]
        BY <3>2
      <4>2. ~run[r].requoted => run[r].paid = run[r].spent
        BY <1>4, <3>2, <4>1 DEF IInv, BudgetTracksWallet
      <4>3. QED
        BY <1>2, <1>4, <3>2, <4>1, <4>2
    <3>3. QED
      BY <1>3, <2>2, <3>1, <3>2
  <2>3. QED
    BY <1>4, <1>5, <2>1, <2>2 DEF ClosureInv
<1>7. GoalInv' /\ OneRunAtATime' /\ ShownBalanceNeverTooLow'
  BY <1>3, <1>5 DEF GoalInv, OneRunAtATime, Going, ShownBalanceNeverTooLow
<1>8. BudgetTracksWallet'
  <2>1. ASSUME NEW r \in Runs, running[r] = run[r]
        PROVE  /\ (run[r].spent > 0 => run[r].spent <= cap)'
               /\ (~run[r].requoted =>
                     /\ run[r].pc \in Active \cup {"done"} => run[r].paid = run[r].spent
                     /\ run[r].paid - run[r].spent \in {0, run[r].quoted})'
    BY <1>2, <1>3, <1>4, <2>1 DEF IInv, BudgetTracksWallet
  <2>2. ASSUME NEW r \in Runs, running[r] # run[r]
        PROVE  /\ (run[r].spent > 0 => run[r].spent <= cap)'
               /\ (~run[r].requoted =>
                     /\ run[r].pc \in Active \cup {"done"} => run[r].paid = run[r].spent
                     /\ run[r].paid - run[r].spent \in {0, run[r].quoted})'
    <3>1. run'[r].paid = 0 /\ run'[r].spent = 0
      BY <1>2, <2>2
    <3>2. run'[r].paid - run'[r].spent = 0 /\ ~(run'[r].spent > 0)
      BY <3>1
    <3>3. QED
      BY <3>1, <3>2
  <2>3. QED
    BY <1>5, <2>1, <2>2 DEF BudgetTracksWallet
<1>9. QED
  BY <1>1, <1>6, <1>7, <1>8 DEF IInv

LEMMA PostRunHolds ==
  ASSUME IInv, NEW r \in Runs, NEW g \in Goals, PostRun(r, g)
  PROVE  IInv'
<1>1. TypeOK'
  BY PostRunTypeOK DEF IInv
<1>2. /\ run \in [Runs -> Closure] /\ run[r] \in Closure /\ state \in ServerState
      /\ run[r] = NewRun
  BY ClosureFields DEF IInv, TypeOK, ServerState, PostRun, ClosureInv
<1>3. \A s \in Runs : run[s].pc \notin Active
  BY DEF IInv, OneRunAtATime, Going, PostRun, MayRun
<1>4. /\ run'[r].pc = "routing" /\ run'[r].goal = g
      /\ run'[r].spent = 0 /\ run'[r].paid = 0 /\ run'[r].quoted = 0
      /\ run'[r].requoted = FALSE
      /\ \A s \in Runs : s # r => run'[s] = run[s]
  BY <1>2 DEF PostRun, Closure, NewRun
<1>5. /\ state'.goal = g /\ state'.running = TRUE /\ state'.budget = 0
      /\ state'.balance = state.balance
  BY <1>2 DEF PostRun, ServerState
<1>6. up' = up /\ cap' = cap /\ settling' = settling /\ wallet' = wallet
  BY DEF PostRun
<1>7. "routing" \in Active \ {"buying", "paying"}
  BY DEF Active
<1>8. ClosureInv'
  <2>1. r \notin settling
    BY DEF IInv, ClosureInv, PostRun
  <2>2. QED
    BY <1>4, <1>6, <1>7, <2>1 DEF IInv, ClosureInv
<1>9. GoalInv'
  BY <1>3, <1>4, <1>5 DEF GoalInv
<1>10. OneRunAtATime'
  <2>1. Going' = {r}
    BY <1>3, <1>4, <1>7 DEF Going
  <2>2. QED
    BY <1>5, <2>1 DEF OneRunAtATime
<1>11. BudgetTracksWallet'
  <2>1. run'[r].paid - run'[r].spent = 0 /\ ~(run'[r].spent > 0)
    BY <1>4
  <2>2. ASSUME NEW s \in Runs, s # r
        PROVE  /\ run'[s].pc \notin Active
               /\ (run[s].spent > 0 => run[s].spent <= cap)'
               /\ (~run[s].requoted =>
                     /\ run[s].pc \in Active \cup {"done"} => run[s].paid = run[s].spent
                     /\ run[s].paid - run[s].spent \in {0, run[s].quoted})'
    BY <1>3, <1>4, <1>6, <2>2 DEF IInv, BudgetTracksWallet
  <2>3. QED
    BY <1>4, <1>5, <1>7, <2>1, <2>2 DEF BudgetTracksWallet
<1>12. ShownBalanceNeverTooLow'
  <2>1. \A s \in Runs : ~run'[s].requoted => ~run[s].requoted
    BY <1>2, <1>4 DEF NewRun
  <2>2. QED
    BY <1>5, <1>6, <2>1 DEF IInv, ShownBalanceNeverTooLow
<1>13. QED
  BY <1>1, <1>8, <1>9, <1>10, <1>11, <1>12 DEF IInv

LEMMA SettlesLateHolds ==
  ASSUME IInv, NEW r \in Runs, SettlesLate(r)
  PROVE  IInv'
<1>1. TypeOK'
  BY OtherTypeOK DEF IInv
<1>2. /\ run \in [Runs -> Closure] /\ run[r] \in Closure /\ run[r].paid \in Nat
      /\ run[r].spent \in Nat /\ run[r].quoted \in Nat
  BY ClosureFields DEF IInv, TypeOK
<1>3. /\ r \in settling /\ run[r].pc \in {"killed", "failed"}
      /\ ~run[r].requoted => run[r].paid = run[r].spent
  BY DEF IInv, ClosureInv, SettlesLate
<1>4. /\ \A s \in Runs : s # r => run'[s] = run[s]
      /\ run'[r].pc = run[r].pc /\ run'[r].spent = run[r].spent /\ run'[r].quoted = run[r].quoted
      /\ run'[r].requoted = run[r].requoted
      /\ run'[r].paid = run[r].paid \/ run'[r].paid = run[r].paid + run[r].quoted
  BY <1>2 DEF SettlesLate, Closure
<1>5. state' = state /\ up' = up /\ cap' = cap /\ settling' = settling \ {r} /\ wallet' <= wallet
  <2>1. wallet \in Int
    BY DEF IInv, TypeOK
  <2>2. QED
    BY <1>2, <2>1 DEF SettlesLate
<1>6. {"killed", "failed"} \cap (Active \cup {"buying", "paying", "new", "done"}) = {}
  BY DEF Active
<1>7. ClosureInv'
  BY <1>3, <1>4, <1>5, <1>6 DEF IInv, ClosureInv
<1>8. GoalInv'
  BY <1>3, <1>4, <1>5, <1>6 DEF IInv, GoalInv
<1>9. OneRunAtATime'
  <2>1. Going' = Going
    BY <1>3, <1>4, <1>6 DEF Going
  <2>2. QED
    BY <1>5, <2>1 DEF IInv, OneRunAtATime
<1>10. BudgetTracksWallet'
  <2>1. ~run'[r].requoted => run'[r].paid - run'[r].spent \in {0, run'[r].quoted}
    BY <1>2, <1>3, <1>4
  <2>2. run'[r].spent > 0 => run'[r].spent <= cap'
    BY <1>4, <1>5 DEF IInv, BudgetTracksWallet
  <2>3. ASSUME NEW s \in Runs, s # r
        PROVE  /\ (run[s].pc \in Active => state.budget = run[s].spent)'
               /\ (run[s].spent > 0 => run[s].spent <= cap)'
               /\ (~run[s].requoted =>
                     /\ run[s].pc \in Active \cup {"done"} => run[s].paid = run[s].spent
                     /\ run[s].paid - run[s].spent \in {0, run[s].quoted})'
    BY <1>4, <1>5, <2>3 DEF IInv, BudgetTracksWallet
  <2>4. QED
    BY <1>3, <1>4, <1>6, <2>1, <2>2, <2>3 DEF BudgetTracksWallet
<1>11. ShownBalanceNeverTooLow'
  <2>1. state.balance \in Int /\ wallet \in Int /\ wallet' \in Int
    BY <1>1 DEF IInv, TypeOK
  <2>2. QED
    BY <1>4, <1>5, <2>1 DEF IInv, ShownBalanceNeverTooLow
<1>12. QED
  BY <1>1, <1>7, <1>8, <1>9, <1>10, <1>11 DEF IInv

\* Steps of which the invariant says nothing.
LEMMA PublishingHolds ==
  ASSUME IInv, PublishStep \/ OthersPublish \/ UNCHANGED vars
  PROVE  IInv'
<1>1. TypeOK'
  BY OtherTypeOK DEF IInv, TypeOK, vars
<1>2. /\ run' = run /\ state' = state /\ settling' = settling /\ wallet' = wallet
      /\ cap' = cap /\ up' = up
  BY DEF PublishStep, Publishes, PublishFails, OthersPublish, vars
<1>3. ClosureInv' /\ GoalInv' /\ OneRunAtATime' /\ BudgetTracksWallet' /\ ShownBalanceNeverTooLow'
  BY <1>2 DEF IInv, ClosureInv, GoalInv, OneRunAtATime, Going, BudgetTracksWallet,
     ShownBalanceNeverTooLow
<1>4. QED
  BY <1>1, <1>3 DEF IInv

LEMMA StepHolds ==
  ASSUME IInv, [Next]_vars
  PROVE  IInv'
<1>1. CASE Listen \/ BootDone \/ BootFails
  BY <1>1, BootHolds
<1>2. CASE Crash
  <2>1. run \in [Runs -> Closure] /\ Die(run)
    BY <1>2 DEF IInv, TypeOK, Crash
  <2>2. QED
    BY <2>1, DieHolds
<1>3. ASSUME NEW r \in Runs, NEW g \in Goals, PostRun(r, g) PROVE IInv'
  BY <1>3, PostRunHolds
<1>4. ASSUME NEW r \in Runs, PostRunWithoutBudget(r) PROVE IInv'
  <2> DEFINE running == [run EXCEPT ![r].pc = "failed"]
  <2>1. run \in [Runs -> Closure] /\ run[r] = NewRun /\ r \notin settling
    BY <1>4 DEF IInv, TypeOK, ClosureInv, PostRunWithoutBudget
  <2>2. running \in [Runs -> Closure]
    BY <2>1 DEF Closure, Steps
  <2>3. \A s \in Runs : s # r => running[s] = run[s]
    BY <2>1
  <2>4. running[r].pc = "failed" /\ running[r].paid = 0 /\ running[r].spent = 0
    BY <2>1 DEF NewRun
  <2>5. Die(running)
    BY <1>4 DEF PostRunWithoutBudget
  <2> HIDE DEF running
  <2>6. QED
    BY <2>1, <2>2, <2>3, <2>4, <2>5, DieHolds DEF NewRun
<1>5. ASSUME NEW r \in Runs, RunStep(r) PROVE IInv'
  BY <1>5, RunStepIsALoopStep, LoopStepHolds, RunStepTypeOK DEF IInv
<1>6. ASSUME NEW r \in Runs, SettlesLate(r) PROVE IInv'
  BY <1>6, SettlesLateHolds
<1>7. CASE PublishStep \/ OthersPublish \/ UNCHANGED vars
  BY <1>7, PublishingHolds
<1>8. QED
  BY <1>1, <1>2, <1>3, <1>4, <1>5, <1>6, <1>7 DEF Next

LEMMA InvariantHolds == Spec => []IInv
<1>1. Init => IInv
  BY InitHolds
<1>2. IInv /\ [Next]_vars => IInv'
  BY StepHolds
<1>3. QED
  BY <1>1, <1>2, PTL DEF Spec

\* The server's variables keep their types, with any number of runs and
\* restarts; in particular a run has no question left over and no amount below
\* zero (loop.ts:71-89).
THEOREM TypeCorrect == Spec => []TypeOK
BY InvariantHolds, PTL DEF IInv

\* No two loops are under way in one process, and the running flag is up
\* exactly while one is: it is lowered on every path out of a run
\* (server.ts:339-378).
THEOREM OneLoopAtATime == Spec => []OneRunAtATime
BY InvariantHolds, PTL DEF IInv

\* What GET /state shows as budget is what the run recorded and stays within the
\* cap; it is what the wallet paid as long as every answer names the total that
\* was signed, and at most one purchase behind it once the run has failed
\* (budget.ts, loop.ts:77-78).
THEOREM BudgetAgreesWithWallet == Spec => []BudgetTracksWallet
BY InvariantHolds, PTL DEF IInv

\* As long as every answer names the total that was signed, the balance that is
\* shown is never too low, whatever fails, restarts or settles late
\* (server.ts:117, 140).
THEOREM ShownBalanceIsAnUpperBound == Spec => []ShownBalanceNeverTooLow
BY InvariantHolds, PTL DEF IInv

-----------------------------------------------------------------------------
(* The records of the calls.                                               *)

Recorded == Shown \cup outbox

\* The places of the agent's own calls on the topic.
OwnPlaces == {i \in DOMAIN topic : topic[i] # Foreign}

\* A settlement is recorded by one call; the buffer and the topic hold it once,
\* and it is published once.
RecordInv ==
  /\ \A c \in Recorded : c.goal = c.question /\ c.tx <= refs
                         /\ (ReceiptsReadable => c.ref = c.tx)
  /\ \A c, d \in Recorded : c.tx = d.tx => c = d
  /\ \A i, j \in DOMAIN calls : calls[i].tx = calls[j].tx => i = j
  /\ \A i, j \in OwnPlaces : topic[i].tx = topic[j].tx => i = j
  /\ \A c \in outbox, i \in OwnPlaces : c.tx # topic[i].tx

\* The buffer after recordCall: the new call last, and perhaps without its
\* first.
LEMMA BufferGrows ==
  ASSUME NEW s \in Seq(Call), NEW c \in Call, NEW t,
         t = Append(s, c) \/ t = Tail(Append(s, c)),
         \A i \in DOMAIN s : s[i].tx # c.tx,
         \A i, j \in DOMAIN s : s[i].tx = s[j].tx => i = j
  PROVE  /\ \A i \in DOMAIN t : t[i] = c \/ \E j \in DOMAIN s : t[i] = s[j]
         /\ \A i, j \in DOMAIN t : t[i].tx = t[j].tx => i = j
<1> DEFINE a == Append(s, c)
<1>1. /\ a \in Seq(Call) /\ Len(a) = Len(s) + 1 /\ Len(s) \in Nat
      /\ DOMAIN a = 1..(Len(s) + 1) /\ DOMAIN s = 1..Len(s)
      /\ a[Len(s) + 1] = c /\ \A i \in 1..Len(s) : a[i] = s[i]
  OBVIOUS
<1> HIDE DEF a
<1>2. \A i \in DOMAIN a : a[i] = c \/ \E j \in DOMAIN s : a[i] = s[j]
  BY <1>1
<1>3. \A i, j \in DOMAIN a : a[i].tx = a[j].tx => i = j
  <2> SUFFICES ASSUME NEW i \in DOMAIN a, NEW j \in DOMAIN a, a[i].tx = a[j].tx
               PROVE  i = j
    OBVIOUS
  <2>1. CASE i \in DOMAIN s /\ j \in DOMAIN s
    BY <1>1, <2>1
  <2>2. CASE i = Len(s) + 1 /\ j = Len(s) + 1
    BY <2>2
  <2>3. CASE i \in DOMAIN s /\ j = Len(s) + 1
    BY <1>1, <2>3
  <2>4. CASE j \in DOMAIN s /\ i = Len(s) + 1
    BY <1>1, <2>4
  <2>5. QED
    BY <1>1, <2>1, <2>2, <2>3, <2>4
<1>4. CASE t = Tail(a)
  <2>1. /\ DOMAIN t = 1..Len(s)
        /\ \A i \in DOMAIN t : i + 1 \in DOMAIN a /\ t[i] = a[i + 1]
    <3>1. a # << >>
      BY <1>1
    <3>2. Len(t) = Len(s) /\ t \in Seq(Call) /\ DOMAIN t = 1..Len(t)
      BY <1>1, <1>4, <3>1
    <3>3. ASSUME NEW i \in 1..Len(s) PROVE t[i] = a[i + 1]
      BY <1>1, <1>4, <3>1, <3>2
    <3>4. \A i \in 1..Len(s) : i + 1 \in 1..(Len(s) + 1)
      BY <1>1
    <3>5. DOMAIN t = 1..Len(s)
      BY <3>2
    <3>6. QED
      BY <1>1, <3>3, <3>4, <3>5
  <2>2. \A i \in DOMAIN t : t[i] = c \/ \E j \in DOMAIN s : t[i] = s[j]
    BY <1>2, <2>1
  <2>3. ASSUME NEW i \in DOMAIN t, NEW j \in DOMAIN t, t[i].tx = t[j].tx PROVE i = j
    <3>1. i + 1 = j + 1
      BY <1>3, <2>1, <2>3
    <3>2. i \in 1..Len(s) /\ j \in 1..Len(s)
      BY <2>1, Zenon
    <3>3. QED
      BY <3>1, <3>2
  <2>4. QED
    BY <2>2, <2>3
<1>5. QED
  BY <1>2, <1>3, <1>4 DEF a

LEMMA RecordedAreCalls ==
  ASSUME TypeOK
  PROVE  \A c \in Recorded : c \in Call /\ c.tx \in Nat
<1>1. \A c \in Recorded : c \in Call
  BY DEF TypeOK, Recorded, Shown
<1>2. \A c \in Call : c.tx \in Nat
  BY DEF Call
<1>3. QED
  BY <1>1, <1>2

LEMMA BoughtIsRecorded ==
  ASSUME IInv, RecordInv, NEW r \in Runs, NEW t \in Totals, Bought(r, t)
  PROVE  RecordInv'
<1>1. PICK ref \in (IF ReceiptsReadable THEN {refs + 1} ELSE {refs + 1, Settled}) :
        LET call == [goal |-> state.goal, question |-> run[r].goal, cost |-> t,
                     ref |-> ref, tx |-> refs + 1] IN
        /\ calls' = LET longer == Append(calls, call) IN
                    IF Len(longer) > CallsCap THEN Tail(longer) ELSE longer
        /\ outbox' = outbox \cup {call}
  BY DEF Bought
<1> DEFINE c == [goal |-> state.goal, question |-> run[r].goal, cost |-> t,
                 ref |-> ref, tx |-> refs + 1]
<1>2. /\ calls \in Seq(Call) /\ topic \in Seq(Call \cup {Foreign}) /\ outbox \in SUBSET Call /\ refs \in Nat
      /\ run[r].goal \in Goals /\ state.goal = run[r].goal
  BY DEF IInv, TypeOK, ClosureInv, GoalInv, Bought, Active
<1>3. /\ c \in Call /\ c.tx = refs + 1 /\ c.goal = c.question
      /\ ReceiptsReadable => c.ref = c.tx
  BY <1>1, <1>2 DEF Call, Settled
<1>4. /\ calls' = Append(calls, c) \/ calls' = Tail(Append(calls, c))
      /\ outbox' = outbox \cup {c} /\ topic' = topic /\ refs' = refs + 1
  BY <1>1 DEF Bought, Charge
<1> HIDE DEF c
<1>5. \A d \in Recorded : d.tx # c.tx /\ d.tx <= refs
  <2>1. \A d \in Recorded : d.tx \in Nat
    BY RecordedAreCalls DEF IInv
  <2>2. QED
    BY <1>2, <1>3, <2>1 DEF RecordInv
<1>6. /\ \A i \in DOMAIN calls' : calls'[i] = c \/ \E j \in DOMAIN calls : calls'[i] = calls[j]
      /\ \A i, j \in DOMAIN calls' : calls'[i].tx = calls'[j].tx => i = j
  <2>1. \A i \in DOMAIN calls : calls[i].tx # c.tx
    BY <1>5 DEF Recorded, Shown
  <2>2. \A i, j \in DOMAIN calls : calls[i].tx = calls[j].tx => i = j
    BY DEF RecordInv
  <2>3. QED
    BY <1>2, <1>3, <1>4, <2>1, <2>2, BufferGrows
<1>7. \A d \in Recorded' : d = c \/ d \in Recorded
  BY <1>4, <1>6 DEF Recorded, Shown
<1>8. \A d \in Recorded' : d.goal = d.question /\ d.tx <= refs' /\ (ReceiptsReadable => d.ref = d.tx)
  <2>1. c.tx <= refs' /\ \A d \in Recorded : d.tx <= refs'
    <3>1. \A d \in Recorded : d.tx \in Nat
      BY RecordedAreCalls DEF IInv
    <3>2. QED
      BY <1>2, <1>3, <1>4, <1>5, <3>1
  <2>2. QED
    BY <1>3, <1>7, <2>1 DEF RecordInv
<1>9. \A d, e \in Recorded' : d.tx = e.tx => d = e
  BY <1>5, <1>7 DEF RecordInv
<1>10. /\ \A i, j \in OwnPlaces' : topic'[i].tx = topic'[j].tx => i = j
       /\ \A d \in outbox', i \in OwnPlaces' : d.tx # topic'[i].tx
  <2>1. \A i \in OwnPlaces : topic[i].tx # c.tx
    BY <1>5 DEF Recorded, Shown, OwnPlaces
  <2>2. OwnPlaces' = OwnPlaces
    BY <1>4 DEF OwnPlaces
  <2>3. QED
    BY <1>4, <2>1, <2>2 DEF RecordInv
<1>11. QED
  BY <1>6, <1>8, <1>9, <1>10 DEF RecordInv

LEMMA PublishedOnce ==
  ASSUME TypeOK, RecordInv, NEW c \in outbox, Publishes(c)
  PROVE  RecordInv'
<1>1. /\ topic \in Seq(Call \cup {Foreign}) /\ c \in Call
      /\ topic' = Append(topic, c) /\ outbox' = outbox \ {c} /\ calls' = calls /\ refs' = refs
  BY DEF TypeOK, Publishes
<1>2. /\ Len(topic) \in Nat /\ DOMAIN topic = 1..Len(topic) /\ DOMAIN topic' = 1..(Len(topic) + 1)
      /\ topic'[Len(topic) + 1] = c /\ \A i \in 1..Len(topic) : topic'[i] = topic[i]
  BY <1>1
<1>3. \A i \in OwnPlaces' : i = Len(topic) + 1 \/ (i \in OwnPlaces /\ topic'[i] = topic[i])
  BY <1>2 DEF OwnPlaces
<1>4. c \in Recorded /\ \A i \in OwnPlaces : topic[i].tx # c.tx /\ topic[i] \in Recorded
  BY DEF RecordInv, Recorded, Shown, OwnPlaces
<1>5. \A d \in Recorded' : d \in Recorded
  <2>1. Shown' = {calls[i] : i \in DOMAIN calls} \cup {topic'[i] : i \in OwnPlaces'}
    BY <1>1 DEF Shown, OwnPlaces
  <2>2. \A i \in OwnPlaces' : topic'[i] \in Recorded
    BY <1>2, <1>3, <1>4
  <2>3. QED
    BY <1>1, <2>1, <2>2 DEF Recorded, Shown
<1>6. \A i, j \in OwnPlaces' : topic'[i].tx = topic'[j].tx => i = j
  BY <1>2, <1>3, <1>4 DEF RecordInv
<1>7. ASSUME NEW d \in outbox', NEW i \in OwnPlaces' PROVE d.tx # topic'[i].tx
  <2>1. d \in Recorded /\ d \in outbox /\ d # c
    BY <1>1 DEF Recorded
  <2>2. d.tx # c.tx
    BY <1>4, <2>1 DEF RecordInv
  <2>3. QED
    BY <1>2, <1>3, <2>1, <2>2 DEF RecordInv
<1>8. QED
  BY <1>1, <1>5, <1>6, <1>7 DEF RecordInv

\* A foreign message changes nothing that the agent has recorded.
LEMMA ForeignIsNoRecord ==
  ASSUME TypeOK, RecordInv, OthersPublish
  PROVE  RecordInv'
<1>1. /\ topic \in Seq(Call \cup {Foreign}) /\ topic' = Append(topic, Foreign)
      /\ outbox' = outbox /\ calls' = calls /\ refs' = refs
  BY DEF TypeOK, OthersPublish
<1>2. /\ Len(topic) \in Nat /\ DOMAIN topic = 1..Len(topic) /\ DOMAIN topic' = 1..(Len(topic) + 1)
      /\ topic'[Len(topic) + 1] = Foreign /\ \A i \in 1..Len(topic) : topic'[i] = topic[i]
  BY <1>1
<1>3. OwnPlaces' = OwnPlaces /\ \A i \in OwnPlaces : topic'[i] = topic[i]
  BY <1>2 DEF OwnPlaces
<1>4. Recorded' = Recorded
  <2>1. Shown = {calls[i] : i \in DOMAIN calls} \cup {topic[i] : i \in OwnPlaces}
    BY DEF Shown, OwnPlaces
  <2>2. Shown' = {calls[i] : i \in DOMAIN calls} \cup {topic'[i] : i \in OwnPlaces'}
    BY <1>1 DEF Shown, OwnPlaces
  <2>3. QED
    BY <1>1, <1>3, <2>1, <2>2 DEF Recorded
<1>5. ASSUME NEW i \in OwnPlaces', NEW j \in OwnPlaces', topic'[i].tx = topic'[j].tx PROVE i = j
  <2>1. i \in OwnPlaces /\ j \in OwnPlaces
    BY <1>3
  <2>2. topic[i].tx = topic[j].tx
    BY <1>3, <1>5, <2>1
  <2>3. QED
    BY <2>1, <2>2 DEF RecordInv
<1>6. ASSUME NEW c \in outbox', NEW i \in OwnPlaces' PROVE c.tx # topic'[i].tx
  <2>1. i \in OwnPlaces /\ topic'[i] = topic[i] /\ c \in outbox
    BY <1>1, <1>3
  <2>2. QED
    BY <2>1 DEF RecordInv
<1>7. QED
  BY <1>1, <1>4, <1>5, <1>6 DEF RecordInv

LEMMA RecordStep ==
  ASSUME IInv, RecordInv, [Next]_vars
  PROVE  RecordInv'
<1>1. ASSUME calls' = calls \/ calls' = << >>, outbox' \subseteq outbox, topic' = topic,
             refs' \in Nat, refs' >= refs
      PROVE  RecordInv'
  <2>1. Recorded' \subseteq Recorded
    BY <1>1 DEF Recorded, Shown
  <2>2. \A d \in Recorded : d.tx \in Nat
    BY RecordedAreCalls DEF IInv
  <2>3. \A d \in Recorded' : d.tx <= refs'
    BY <1>1, <2>1, <2>2 DEF RecordInv, IInv, TypeOK
  <2>4. OwnPlaces' = OwnPlaces
    BY <1>1 DEF OwnPlaces
  <2>5. QED
    BY <1>1, <2>1, <2>3, <2>4 DEF RecordInv
<1>2. refs \in Nat /\ refs + 1 >= refs
  BY DEF IInv, TypeOK
<1>3. CASE Listen \/ BootDone \/ BootFails \/ UNCHANGED vars
  BY <1>1, <1>2, <1>3 DEF Listen, BootDone, BootFails, vars
<1>4. CASE Crash
  BY <1>1, <1>2, <1>4 DEF Crash, Die
<1>5. ASSUME NEW r \in Runs, (\E g \in Goals : PostRun(r, g)) \/ PostRunWithoutBudget(r)
             \/ SettlesLate(r)
      PROVE  RecordInv'
  <2>1. CASE \E g \in Goals : PostRun(r, g)
    BY <1>1, <1>2, <2>1 DEF PostRun
  <2>2. CASE PostRunWithoutBudget(r)
    BY <1>1, <1>2, <2>2 DEF PostRunWithoutBudget, Die
  <2>3. CASE SettlesLate(r)
    <3>1. calls' = calls /\ outbox' = outbox /\ topic' = topic
      BY <2>3 DEF SettlesLate
    <3>2. refs' = refs \/ refs' = refs + 1
      BY <2>3 DEF SettlesLate
    <3>3. QED
      BY <1>1, <1>2, <3>1, <3>2
  <2>4. QED
    BY <1>5, <2>1, <2>2, <2>3
<1>6. ASSUME NEW r \in Runs, RunStep(r) PROVE RecordInv'
  <2>1. ASSUME NEW t \in Totals, Bought(r, t) PROVE RecordInv'
    BY <2>1, BoughtIsRecorded
  <2>2. CASE PaidInVain(r)
    BY <1>1, <1>2, <2>2 DEF PaidInVain, Charge
  <2>3. CASE \/ Routed(r) \/ PlanFails(r) \/ BuyFails(r) \/ Synthesized(r) \/ SynthesisFails(r)
             \/ \E n \in 1..MaxQuestions : Planned(r, n)
             \/ \E t \in Totals : Challenged(r, t)
    <3>1. calls' = calls /\ outbox' = outbox /\ topic' = topic /\ refs' = refs
      BY <2>3
      DEF Routed, PlanFails, BuyFails, Synthesized, SynthesisFails, Planned, Challenged
    <3>2. QED
      BY <1>1, <1>2, <3>1
  <2>4. QED
    BY <1>6, <2>1, <2>2, <2>3 DEF RunStep
<1>7. ASSUME NEW c \in outbox, Publishes(c) PROVE RecordInv'
  BY <1>7, PublishedOnce DEF IInv
<1>8. ASSUME NEW c \in outbox, PublishFails(c) PROVE RecordInv'
  BY <1>1, <1>2, <1>8 DEF PublishFails
<1>9. CASE OthersPublish
  BY <1>9, ForeignIsNoRecord DEF IInv
<1>10. QED
  BY <1>3, <1>4, <1>5, <1>6, <1>7, <1>8, <1>9 DEF Next, PublishStep

LEMMA RecordsHold == Spec => [](IInv /\ RecordInv)
<1>1. Init => IInv /\ RecordInv
  <2>1. Init => Recorded = {} /\ outbox = {} /\ DOMAIN calls = {} /\ DOMAIN topic = {}
    BY DEF Init, Recorded, Shown
  <2>2. QED
    BY <2>1, InitHolds DEF RecordInv, OwnPlaces
<1>2. IInv /\ RecordInv /\ [Next]_vars => (IInv /\ RecordInv)'
  BY StepHolds, RecordStep
<1>3. QED
  BY <1>1, <1>2, PTL DEF Spec

\* A call carries the goal that its question was planned for, in the buffer, on
\* the way to the topic and on it (server.ts:158).
THEOREM CallsKeepTheirGoal == Spec => []CallsCarryTheirGoal
<1>1. RecordInv => CallsCarryTheirGoal
  BY DEF RecordInv, Recorded, CallsCarryTheirGoal
<1>2. QED
  BY <1>1, RecordsHold, PTL

\* What was read and what is buffered is all in the merge: with every settlement
\* held once, no call of either list is hidden behind another one.
LEMMA MergeIsWhatWasRead ==
  ASSUME TypeOK, RecordInv, ReceiptsReadable
  PROVE  /\ \A i \in DOMAIN calls : calls[i] \in CallsMerged
         /\ \A i \in TopicRead : topic[i] \in CallsMerged
         /\ CallsMerged \subseteq Shown
<1>1. /\ TopicRead \subseteq OwnPlaces
      /\ \A i \in DOMAIN calls : calls[i] \in Recorded /\ calls[i].ref = calls[i].tx
      /\ \A i \in OwnPlaces : topic[i] \in Recorded /\ topic[i].ref = topic[i].tx
  BY DEF RecordInv, Recorded, Shown, TopicRead, OwnPlaces
<1>2. DOMAIN calls \subseteq Int /\ TopicRead \subseteq Int
  BY DEF TypeOK, TopicRead
<1>3. ASSUME NEW i \in DOMAIN calls PROVE calls[i] \in CallsMerged
  <2>1. \A j \in DOMAIN calls : calls[j].ref = calls[i].ref => j <= i
    BY <1>1, <1>2 DEF RecordInv
  <2>2. QED
    BY <2>1 DEF CallsMerged
<1>4. ASSUME NEW i \in TopicRead PROVE topic[i] \in CallsMerged
  <2>1. CASE \E j \in DOMAIN calls : calls[j].ref = topic[i].ref
    <3>1. PICK j \in DOMAIN calls : calls[j].ref = topic[i].ref
      BY <2>1
    <3>2. calls[j] = topic[i]
      BY <1>1, <3>1 DEF RecordInv
    <3>3. QED
      BY <1>3, <3>2
  <2>2. CASE \A j \in DOMAIN calls : calls[j].ref # topic[i].ref
    <3>1. \A j \in TopicRead : topic[j].ref = topic[i].ref => i <= j
      BY <1>1, <1>2 DEF RecordInv
    <3>2. topic[i].ref \notin {calls[j].ref : j \in DOMAIN calls}
      BY <2>2
    <3>3. QED
      BY <3>1, <3>2 DEF CallsMerged
  <2>3. QED
    BY <2>1, <2>2
<1>5. CallsMerged \subseteq Shown
  BY DEF CallsMerged, Shown, TopicRead
<1>6. QED
  BY <1>3, <1>4, <1>5

LEMMA RangeIsFinite ==
  ASSUME NEW S, NEW s \in Seq(S)
  PROVE  IsFiniteSet({s[i] : i \in DOMAIN s})
<1> DEFINE T == {s[i] : i \in DOMAIN s}
<1>1. DOMAIN s = 1..Len(s) /\ Len(s) \in Int
  OBVIOUS
<1>2. IsFiniteSet(DOMAIN s)
  BY <1>1, FS_Interval
<1>3. s \in [DOMAIN s -> T]
  OBVIOUS
<1>4. s \in Surjection(DOMAIN s, T)
  BY <1>3 DEF Surjection
<1> HIDE DEF T
<1>5. IsFiniteSet(T)
  BY <1>2, <1>4, FS_Surjection
<1>6. QED
  BY <1>5 DEF T

\* The cut to the newest `Limit` calls takes none that fewer known calls follow.
LEMMA CutTakesTheOldest ==
  ASSUME TypeOK, CallsMerged \subseteq Shown, NEW c \in CallsMerged,
         Cardinality({d \in Shown : d.tx > c.tx}) < Limit
  PROVE  c \in CallsListed
<1> DEFINE later == {d \in Shown : d.tx > c.tx}
           merged == {d \in CallsMerged : d.tx > c.tx}
<1>1. IsFiniteSet(Shown)
  <2> DEFINE B == {calls[i] : i \in DOMAIN calls}
             T == {topic[i] : i \in DOMAIN topic}
  <2>1. IsFiniteSet(B) /\ IsFiniteSet(T)
    <3>1. calls \in Seq(Call) /\ topic \in Seq(Call \cup {Foreign})
      BY DEF TypeOK
    <3>2. QED
      BY <3>1, RangeIsFinite
  <2> HIDE DEF B, T
  <2>2. IsFiniteSet(B \cup T)
    BY <2>1, FS_Union
  <2>3. Shown \in SUBSET (B \cup T)
    BY DEF Shown, B, T
  <2>4. QED
    BY <2>2, <2>3, FS_Subset
<1>2. later \in SUBSET Shown /\ merged \in SUBSET later
  OBVIOUS
<1> HIDE DEF later, merged
<1>3. IsFiniteSet(later)
  BY <1>1, <1>2, FS_Subset
<1>4. IsFiniteSet(merged) /\ Cardinality(merged) <= Cardinality(later)
  BY <1>2, <1>3, FS_Subset
<1>5. Cardinality(merged) \in Nat /\ Cardinality(later) \in Nat /\ Limit \in Nat
  BY <1>3, <1>4, FS_CardinalityType, BoundsAssumption
<1>6. Cardinality(later) < Limit
  BY DEF later
<1>7. Cardinality(merged) < Limit
  BY <1>4, <1>5, <1>6
<1>8. QED
  BY <1>7 DEF CallsListed, merged

\* GET /calls leaves out a call only when `Limit` later ones are known, or when
\* the call is on the topic alone and `Limit` messages follow it there, and it
\* lists none twice: after any number of evictions and restarts, in whatever
\* order publications arrive, with any messages of others between them, as long
\* as receipts can be read (server.ts:224-255).
THEOREM HistoryKeepsTheNewest == Spec => []HistoryListsTheNewest
<1>1. ASSUME TypeOK, RecordInv PROVE HistoryListsTheNewest
  <2> SUFFICES ASSUME ReceiptsReadable
               PROVE  /\ \A i \in DOMAIN calls :
                           Cardinality({d \in Shown : d.tx > calls[i].tx}) < Limit
                             => calls[i] \in CallsListed
                      /\ \A i \in TopicRead :
                           Cardinality({d \in Shown : d.tx > topic[i].tx}) < Limit
                             => topic[i] \in CallsListed
                      /\ \A c, d \in CallsListed : c.tx = d.tx => c = d
    BY DEF HistoryListsTheNewest
  <2>1. /\ \A i \in DOMAIN calls : calls[i] \in CallsMerged
        /\ \A i \in TopicRead : topic[i] \in CallsMerged
        /\ CallsMerged \subseteq Shown
    BY <1>1, MergeIsWhatWasRead
  <2>2. \A c \in CallsMerged :
          Cardinality({d \in Shown : d.tx > c.tx}) < Limit => c \in CallsListed
    BY <1>1, <2>1, CutTakesTheOldest
  <2>3. \A c \in CallsListed : c \in Recorded
    BY <2>1 DEF CallsListed, Recorded
  <2>4. \A c, d \in CallsListed : c.tx = d.tx => c = d
    BY <1>1, <2>3 DEF RecordInv
  <2>5. QED
    BY <2>1, <2>2, <2>4
<1>2. IInv /\ RecordInv => HistoryListsTheNewest
  BY <1>1 DEF IInv
<1>3. QED
  BY <1>2, RecordsHold, PTL
=============================================================================
