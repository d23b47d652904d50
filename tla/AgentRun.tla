------------------------------- MODULE AgentRun -------------------------------
(***************************************************************************)
(* The agent server (packages/agent/src/server.ts) and the reasoning loop  *)
(* it runs (loop.ts, budget.ts, buy.ts, payer.ts, brain.ts).               *)
(*                                                                         *)
(* POST /run answers at once and leaves a run behind it: route the goal to *)
(* a model, plan its questions, buy an answer to each one through the      *)
(* exchange, synthesize.  Every await of that run is a step here, so the   *)
(* server's other handlers, the publishing of records and a crash of the   *)
(* process come between.  A run keeps its own closure (goal, questions,    *)
(* Budget); `state`, the buffer of calls and the wallet are shared.        *)
(*                                                                         *)
(* The mode is the real one: the payer signs what the 402 asks for (mock   *)
(* mode mirrors it) and the exchange settles a served request.             *)
(*                                                                         *)
(* Amounts are integers; one unit is the step between two asks.  A run     *)
(* identifier stands for one accepted POST /run, so Runs also bounds their *)
(* number; MaxBoots bounds restarts.                                       *)
(***************************************************************************)
EXTENDS Integers, Sequences, FiniteSets

CONSTANTS
  Runs,          \* the accepted runs
  Goals,         \* goals a client may ask for
  Caps,          \* values of AGENT_BUDGET a process may be started with
  Ask,           \* EXCHANGE_ASK, what the loop expects a call to cost
  Totals,        \* totals the exchange may quote for a call
  MaxQuestions,  \* AGENT_MAX_QUESTIONS
  CallsCap,      \* CALLS_CAP, length of the buffer of calls
  Limit,         \* calls GET /calls lists, at most (50, or ?limit= up to 200)
  Foreign,       \* a message of another agent on the agentCalls topic
  MaxForeign,    \* such messages, at most
  Deposit,       \* the wallet's first balance
  MaxBoots,      \* processes started, at most
  ReceiptsReadable  \* whether the exchange's settlement receipt can be read

ASSUME RunsAssumption == IsFiniteSet(Runs)
ASSUME AmountsAssumption ==
  /\ Caps \subseteq Int /\ Totals \subseteq Nat
  /\ Ask \in Nat /\ Deposit \in Int
ASSUME BoundsAssumption ==
  /\ MaxQuestions \in Nat \ {0} /\ CallsCap \in Nat \ {0} /\ MaxBoots \in Nat
  /\ Limit \in Nat \ {0} /\ MaxForeign \in Nat
ASSUME ReceiptsAssumption == ReceiptsReadable \in BOOLEAN

VARIABLES
  up,       \* "down" | "booting" | "ready" | "failed": the process, bootError
  boots,    \* processes started so far
  cap,      \* this process's AGENT_BUDGET
  state,    \* the server's `state`: running, goal, balance, budget, events
  calls,    \* the buffer of the calls bought, oldest first
  outbox,   \* calls whose publication to the agentCalls topic is under way
  topic,    \* the agentCalls topic, oldest first
  wallet,   \* the AGENT account's balance on chain
  settling, \* runs with a signed payment that the exchange may settle yet
  run,      \* per run: the closure of runGoal and where it awaits
  refs      \* settlement transactions made so far

vars == <<up, boots, cap, state, calls, outbox, topic, wallet, settling, run, refs>>

NoGoal == "none"
Settled == 0    \* payer.ts: the reference when no receipt can be read
Steps == {"new", "routing", "planning", "buying", "paying", "synth", "done", "failed", "killed"}
Active == {"routing", "planning", "buying", "paying", "synth"}

\* A record of the agentCalls history: the goal written on it, the question
\* it answers (a question belongs to the goal it was planned for), the cost
\* and the payment reference; tx is the settlement it really was, and so the
\* order of the times that are written on the calls.
Call == [goal : Goals \cup {NoGoal}, question : Goals, cost : Totals, ref : Nat, tx : Nat]
Event == [type : {"route", "goal", "plan", "bought", "budget-exhausted",
                  "synthesis", "done", "error"}, cost : Totals \cup {0}]
\* `quoted` is what the 402 asked for and the wallet signed, `spent` what the
\* Budget recorded, `paid` what the wallet was charged; `requoted` remembers that
\* an answer named another total than was signed.
Closure == [pc : Steps, goal : Goals \cup {NoGoal}, left : Nat, spent : Nat,
            paid : Nat, quoted : Totals \cup {0}, findings : Nat, requoted : BOOLEAN]

NewRun == [pc |-> "new", goal |-> NoGoal, left |-> 0, spent |-> 0,
           paid |-> 0, quoted |-> 0, findings |-> 0, requoted |-> FALSE]
FreshState(balance) ==
  [running |-> FALSE, goal |-> NoGoal, balance |-> balance,
   budget |-> 0, events |-> << >>]
Ev(type) == [type |-> type, cost |-> 0]

Init ==
  /\ up = "down" /\ boots = 0
  /\ cap \in Caps
  /\ state = FreshState(0)
  /\ calls = << >> /\ outbox = {} /\ topic = << >>
  /\ wallet = Deposit /\ settling = {}
  /\ run = [r \in Runs |-> NewRun]
  /\ refs = 0

--------------------------------------------------------------------------------
(* Boot: listen first, then the network.  A failure leaves bootError.      *)

Listen ==
  /\ up = "down" /\ boots < MaxBoots
  /\ up' = "booting" /\ boots' = boots + 1
  /\ UNCHANGED <<cap, state, calls, outbox, topic, wallet, settling, run, refs>>

\* Mutant: the balance is not read when the process boots.
BootDone_KeepsBalance ==
  /\ up = "booting"
  /\ up' = "ready"
  /\ UNCHANGED <<boots, cap, state, calls, outbox, topic, wallet, settling, run, refs>>

BootDone ==
  /\ up = "booting"
  /\ up' = "ready"
  /\ state' = [state EXCEPT !.balance = wallet]
  /\ UNCHANGED <<boots, cap, calls, outbox, topic, wallet, settling, run, refs>>

BootFails ==
  /\ up = "booting"
  /\ up' = "failed"
  /\ UNCHANGED <<boots, cap, state, calls, outbox, topic, wallet, settling, run, refs>>

\* A process that dies takes its memory along; a purchase it had signed stays
\* with the exchange, which settles it or not.
Die(running) ==
  /\ up' = "down"
  /\ state' = FreshState(0)
  /\ calls' = << >> /\ outbox' = {}
  /\ run' = [r \in Runs |->
               IF running[r].pc \in Active
               THEN [running[r] EXCEPT !.pc = "killed"] ELSE running[r]]
  /\ settling' = settling \cup {r \in Runs : running[r].pc = "paying"}
  /\ UNCHANGED <<boots, cap, topic, wallet, refs>>

Crash == up # "down" /\ boots < MaxBoots /\ Die(run)

\* The exchange settles, or does not, a payment whose answer nobody waits for
\* any more: the process died, or the response was lost.
SettlesLate(r) ==
  /\ r \in settling
  /\ settling' = settling \ {r}
  /\ \/ /\ wallet' = wallet - run[r].quoted
        /\ run' = [run EXCEPT ![r].paid = @ + run[r].quoted]
        /\ refs' = refs + 1
     \/ UNCHANGED <<wallet, run, refs>>
  /\ UNCHANGED <<up, boots, cap, state, calls, outbox, topic>>

--------------------------------------------------------------------------------
(* POST /run *)

\* Mutant: a run in progress does not keep another one out.
MayRun_WhenReady == up = "ready"

\* Accepted only when the server is ready and no run is in progress.  The
\* check and the assignment are one synchronous piece of the handler.
MayRun == up = "ready" /\ ~state.running

PostRun(r, g) ==
  /\ run[r].pc = "new" /\ MayRun
  /\ cap > 0
  /\ state' = [state EXCEPT !.running = TRUE, !.goal = g, !.events = << >>, !.budget = 0]
  /\ run' = [run EXCEPT ![r].pc = "routing", ![r].goal = g]
  /\ UNCHANGED <<up, boots, cap, calls, outbox, topic, wallet, settling, refs>>

\* `new Budget` throws when the cap is not positive.  The handler is async
\* and express 4 does not await it: an unhandled rejection ends the process.
PostRunWithoutBudget(r) ==
  /\ run[r].pc = "new" /\ MayRun
  /\ ~(cap > 0)
  /\ Die([run EXCEPT ![r].pc = "failed"])

\* The model has been chosen; runGoal emits the goal and starts to plan.
Routed(r) ==
  /\ run[r].pc = "routing"
  /\ run' = [run EXCEPT ![r].pc = "planning"]
  /\ state' = [state EXCEPT !.events = @ \o <<Ev("route"), Ev("goal")>>, !.budget = run[r].spent]
  /\ UNCHANGED <<up, boots, cap, calls, outbox, topic, wallet, settling, refs>>

CanAfford(spent, amount) == amount <= cap - spent

\* The loop's top, reached with `left` questions to go: where the run awaits next.
Stop(left, spent) == left = 0 \/ ~CanAfford(spent, Ask)
Exhausted(left, spent) ==
  IF left > 0 /\ ~CanAfford(spent, Ask) THEN <<Ev("budget-exhausted")>> ELSE << >>

Planned(r, n) ==
  /\ run[r].pc = "planning"
  /\ run' = [run EXCEPT ![r].pc = IF Stop(n, 0) THEN "synth" ELSE "buying",
                        ![r].left = n]
  /\ state' = [state EXCEPT !.events = @ \o <<Ev("plan")>> \o Exhausted(n, 0)]
  /\ UNCHANGED <<up, boots, cap, calls, outbox, topic, wallet, settling, refs>>

\* Mutant: no `finally`: a failed run leaves the running flag up.
FailRun_KeepsRunning(r) ==
  /\ state' = [state EXCEPT !.events = Append(@, Ev("error"))]

\* A rejection anywhere in runGoal: the error is an event, the run is over.
FailRun(r) ==
  /\ state' = [state EXCEPT !.running = FALSE, !.events = Append(@, Ev("error"))]

PlanFails(r) ==
  /\ run[r].pc = "planning"
  /\ run' = [run EXCEPT ![r].pc = "failed"]
  /\ FailRun(r)
  /\ UNCHANGED <<up, boots, cap, calls, outbox, topic, wallet, settling, refs>>

\* paidPost, first leg: the exchange answers 402 with the total it wants.
Challenged(r, t) ==
  /\ run[r].pc = "buying"
  /\ run' = [run EXCEPT ![r].pc = "paying", ![r].quoted = t]
  /\ UNCHANGED <<up, boots, cap, state, calls, outbox, topic, wallet, settling, refs>>

\* The exchange is unreachable, has no provider, its answer is no success or is
\* lost: makeBuy throws.  A payment that was signed may be settled all the same.
BuyFails(r) ==
  /\ run[r].pc \in {"buying", "paying"}
  /\ run' = [run EXCEPT ![r].pc = "failed"]
  /\ settling' = IF run[r].pc = "paying" THEN settling \cup {r} ELSE settling
  /\ FailRun(r)
  /\ UNCHANGED <<up, boots, cap, calls, outbox, topic, wallet, refs>>

\* The wallet is charged when the exchange settles.
Charge(t) == wallet' = wallet - t /\ refs' = refs + 1

\* Budget.record accepts a positive amount that fits what remains.
Recordable(r, t) == t > 0 /\ CanAfford(run[r].spent, t)

\* The answer is there, it is parsed and recorded: one more finding, one more
\* `bought` event, one more call in the buffer and on its way to the topic.  The
\* total t is that of the quote the exchange's handler took, which is another one
\* than was signed when its time ran out in between (exchange index.ts:387, 471).
Bought(r, t) ==
  LET quoted == run[r].quoted
      spent == run[r].spent + t
      left == run[r].left - 1 IN
  /\ run[r].pc = "paying" /\ Recordable(r, t)
  /\ Charge(quoted)
  /\ run' = [run EXCEPT ![r] = [run[r] EXCEPT
               !.pc = IF Stop(left, spent) THEN "synth" ELSE "buying",
               !.left = left, !.spent = spent, !.paid = @ + quoted,
               !.findings = @ + 1, !.requoted = @ \/ t # quoted]]
  /\ state' = [state EXCEPT
               !.balance = @ - t, !.budget = spent,
               !.events = @ \o <<[type |-> "bought", cost |-> t]>> \o Exhausted(left, spent)]
  /\ \E ref \in IF ReceiptsReadable THEN {refs + 1} ELSE {refs + 1, Settled} :
       LET call == [goal |-> state.goal, question |-> run[r].goal, cost |-> t,
                   ref |-> ref, tx |-> refs + 1] IN
       /\ calls' = LET longer == Append(calls, call) IN
                   IF Len(longer) > CallsCap THEN Tail(longer) ELSE longer
       /\ outbox' = outbox \cup {call}
  /\ UNCHANGED <<up, boots, cap, topic, settling>>

\* Mutant: a purchase that cannot be recorded does not end the run.
PaidInVain_GoesOn(r) ==
  /\ run[r].pc = "paying"
  /\ Charge(run[r].quoted)
  /\ run' = [run EXCEPT ![r].pc = "buying", ![r].paid = @ + run[r].quoted]
  /\ UNCHANGED <<up, boots, cap, state, calls, outbox, topic, settling>>

\* The call was settled, but its answer cannot be used (no content, no total)
\* or its cost cannot be recorded: parseBuyResult or Budget.record throws.
PaidInVain(r) ==
  /\ run[r].pc = "paying"
  /\ Charge(run[r].quoted)
  /\ run' = [run EXCEPT ![r].pc = "failed", ![r].paid = @ + run[r].quoted]
  /\ FailRun(r)
  /\ UNCHANGED <<up, boots, cap, calls, outbox, topic, settling>>

Synthesized(r) ==
  /\ run[r].pc = "synth"
  /\ run' = [run EXCEPT ![r].pc = "done"]
  /\ state' = [state EXCEPT !.running = FALSE, !.events = @ \o <<Ev("synthesis"), Ev("done")>>]
  /\ UNCHANGED <<up, boots, cap, calls, outbox, topic, wallet, settling, refs>>

\* Only a run with several findings asks the model for a synthesis.
SynthesisFails(r) ==
  /\ run[r].pc = "synth" /\ run[r].findings > 1
  /\ run' = [run EXCEPT ![r].pc = "failed"]
  /\ FailRun(r)
  /\ UNCHANGED <<up, boots, cap, calls, outbox, topic, wallet, settling, refs>>

--------------------------------------------------------------------------------
(* The durable record of a call: published in the background, in any order. *)

Publishes(call) ==
  /\ call \in outbox
  /\ outbox' = outbox \ {call}
  /\ topic' = Append(topic, call)
  /\ UNCHANGED <<up, boots, cap, state, calls, wallet, settling, run, refs>>

PublishFails(call) ==
  /\ call \in outbox
  /\ outbox' = outbox \ {call}
  /\ UNCHANGED <<up, boots, cap, state, calls, topic, wallet, settling, run, refs>>

\* Another agent that uses the topic publishes a message there.
OthersPublish ==
  /\ Cardinality({i \in DOMAIN topic : topic[i] = Foreign}) < MaxForeign
  /\ topic' = Append(topic, Foreign)
  /\ UNCHANGED <<up, boots, cap, state, calls, outbox, wallet, settling, run, refs>>

\* What GET /calls reads of the topic, as positions: the newest `Limit` messages,
\* and of those the agent's own.  (A Mirror Node that cannot be read is left out:
\* the buffer alone is listed then.)
TopicRead == {i \in DOMAIN topic : Len(topic) - i < Limit /\ topic[i] # Foreign}

\* Mutant: the buffer alone is listed once it holds anything.
CallsMerged_BufferOrTopic ==
  IF calls # << >> THEN {calls[i] : i \in DOMAIN calls} ELSE {topic[i] : i \in TopicRead}

\* What was read, newest first, and then the buffer, oldest first, go into one
\* map by payment reference; what is set last stays.
CallsMerged ==
  LET buffered == {calls[i].ref : i \in DOMAIN calls}
      Last(i) == \A j \in DOMAIN calls : calls[j].ref = calls[i].ref => j <= i
      First(i) == \A j \in TopicRead : topic[j].ref = topic[i].ref => i <= j IN
  {calls[i] : i \in {n \in DOMAIN calls : Last(n)}}
    \cup {topic[i] : i \in {n \in TopicRead : topic[n].ref \notin buffered /\ First(n)}}

\* GET /calls: the newest of them, by their time.
CallsListed ==
  {c \in CallsMerged : Cardinality({d \in CallsMerged : d.tx > c.tx}) < Limit}

RunStep(r) ==
  \/ Routed(r)
  \/ \E n \in 1..MaxQuestions : Planned(r, n)
  \/ PlanFails(r)
  \/ \E t \in Totals : Challenged(r, t)
  \/ BuyFails(r)
  \/ \E t \in Totals : Bought(r, t)
  \/ PaidInVain(r)
  \/ Synthesized(r)
  \/ SynthesisFails(r)

PublishStep == \E call \in outbox : Publishes(call) \/ PublishFails(call)

Next ==
  \/ Listen \/ BootDone \/ BootFails \/ Crash
  \/ \E r \in Runs :
       \/ \E g \in Goals : PostRun(r, g)
       \/ PostRunWithoutBudget(r)
       \/ RunStep(r)
       \/ SettlesLate(r)
  \/ PublishStep \/ OthersPublish

Spec == Init /\ [][Next]_vars

\* Every await of a run and every publication comes back, with an answer or
\* an error (fetch and the SDK give up by themselves).
Fairness == (\A r \in Runs : WF_vars(RunStep(r))) /\ WF_vars(PublishStep)
FairSpec == Spec /\ Fairness

--------------------------------------------------------------------------------
(* Properties *)

TypeOK ==
  /\ up \in {"down", "booting", "ready", "failed"}
  /\ boots \in Nat /\ refs \in Nat
  /\ cap \in Caps
  /\ state \in [running : BOOLEAN, goal : Goals \cup {NoGoal}, balance : Int,
                budget : Nat, events : Seq(Event)]
  /\ calls \in Seq(Call) /\ topic \in Seq(Call \cup {Foreign}) /\ outbox \in SUBSET Call
  /\ wallet \in Int
  /\ settling \in SUBSET Runs
  /\ run \in [Runs -> Closure]

\* The runs of the process that is up, that have started and not ended.
Going == {r \in Runs : run[r].pc \in Active}

\* The running flag, the only guard against a second loop on the same wallet,
\* is up exactly while a loop awaits something (server.ts:339, 375).
OneRunAtATime ==
  /\ \A r, s \in Going : r = s
  /\ state.running <=> Going # {}

\* What GET /state shows as budget is what the run has recorded, never more than
\* the cap.  As long as every answer names the total that was signed, the wallet
\* has paid exactly that while the run goes on, and once it is over it may have
\* paid one purchase more, the one that could not be recorded or whose response
\* was lost (loop.ts:77-78).
BudgetTracksWallet ==
  \A r \in Runs :
    /\ run[r].pc \in Active => state.budget = run[r].spent
    /\ run[r].spent > 0 => run[r].spent <= cap
    /\ ~run[r].requoted =>
         /\ run[r].pc \in Active \cup {"done"} => run[r].paid = run[r].spent
         /\ run[r].paid - run[r].spent \in {0, run[r].quoted}

\* As long as every answer names the total that was signed, the balance GET
\* /state shows is never below what the wallet holds: unrecorded purchases and
\* late settlements only make it too high (server.ts:117, 140).
ShownBalanceNeverTooLow ==
  up = "ready" /\ (\A r \in Runs : ~run[r].requoted) => state.balance >= wallet

\* The agent's own calls in the buffer and on the topic.
Shown == {calls[i] : i \in DOMAIN calls} \cup ({topic[i] : i \in DOMAIN topic} \ {Foreign})

\* The goal written on a call is the goal its question was planned for:
\* recordCall reads the shared state.goal after the awaits of a purchase
\* (server.ts:158), so this rests on one run at a time.
CallsCarryTheirGoal ==
  \A call \in Shown \cup outbox : call.goal = call.question

\* A run ends, whatever its awaits answer, and the server takes the next one
\* (the `finally` of server.ts:375).
RunsEnd == state.running ~> ~state.running

\* budget.ts:2-3: "a runaway loop can never drain the wallet past AGENT_BUDGET".
WalletWithinBudget == \A r \in Runs : run[r].pc # "new" => run[r].paid <= cap

\* Merging topic and buffer loses and doubles nothing, whatever was evicted,
\* published out of order or published before a restart: a call is missing only
\* when `Limit` later calls are known, or when it is on the topic alone and
\* `Limit` messages, of whatever agent, follow it there.  References identify
\* calls as long as the receipts can be read (server.ts:224-255).
HistoryListsTheNewest ==
  LET recent(c) == Cardinality({d \in Shown : d.tx > c.tx}) < Limit IN
  ReceiptsReadable =>
    /\ \A i \in DOMAIN calls : recent(calls[i]) => calls[i] \in CallsListed
    /\ \A i \in TopicRead : recent(topic[i]) => topic[i] \in CallsListed
    /\ \A c, d \in CallsListed : c.tx = d.tx => c = d
================================================================================
