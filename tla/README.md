# AgentRouter in TLA+

A verification project for AgentRouter: agents buy language-model inference
through an *exchange*, which routes each request to the cheapest live
*provider*, is paid by the agent over x402 and pays the provider over x402; a
*verifier* replays served requests and slashes providers that cheat; the Hedera
consensus service (HCS) is the public log. Source paths below are relative to
`src/`; `index.ts` without a path is `packages/exchange/src/index.ts`, and the
other short names are files of that package.

## 1. Inventory

| component | state it keeps | operations | talks to |
|---|---|---|---|
| **routing table** (`discovery.ts`, `slash.ts`, `bond.ts`, `demo.ts`, `state.ts`) | `providers`: url -> row object (price, status, reputation, stake, bond, served count); `hcsRegistrations` | refresh (timer and router), `/slash`, `/bond-event`, `/verify-report`, `/demo/slash`, `/demo/reset`, routing | providers' `/info`, registry topic, verifier, dashboard |
| **quotes** (`quotes.ts`) | `quotes` (body -> quote), `byId` | create or reuse, look up, expire after 60 s, consume | gate, router, settlement hook |
| **paid request** (`index.ts:232-520`, `payer.ts`) | `pendingSettles`, `requestLog`, `revenue` | 402, verify, handle, pay the provider, settle, cancel | x402 middleware, facilitator, provider, trades topic |
| **mock paywall, refunds** (`index.ts:236-264,476-500`, `refund.ts`) | `mockLedger` | charge, serve, refund | - |
| **settlement feed** (`hydrate.ts`, `state.ts`, the settlement hook) | `requestLog`, `revenue`; the trades topic; verdicts on 0G Chain | settle, publish, mirror, rebuild the feed from the topic at start | Mirror Node, 0G Chain |
| **verifier** (`packages/verifier`) | `audited`, `slashedWallets`, `auditInFlight` | audit, enforcement (stake transfer, verdict messages, `/slash`, bond wipe and freeze, `/bond-event`), `/demo/real-slash` | exchange, providers, Hedera, topics |
| **audit selection** (`audit-selection.ts`) | none (pure) | draw a served, un-audited request and the cheapest witness of its model that has another wallet | verifier |
| **similarity** (`similarity.ts`, `verification.ts`) | none (pure) | word bigrams, Jaccard, the threshold | verifier |
| **agent: server and loop** (`packages/agent`: `server.ts`, `loop.ts`, `budget.ts`, `buy.ts`) | `state`, buffer of calls, wallet; the agentCalls topic | boot, `POST /run`, plan, buy, synthesize, record, `GET /calls` | exchange, language model, HCS |
| **agent: model router** (`route-model.ts`) | none | choose the model of a goal | exchange |
| **agent: memory and token** (`memory-0g.ts`, `zerog.ts`, `AgentNFT.sol`) | `agenticId`; uploads; token owner, root and description | mint, re-point, sell | 0G Storage, 0G Chain |
| **provider: paywall and backends** (`packages/provider`) | none | gate, dispatch to Groq, to 0G by broker or router, to the canned bank | Groq, 0G |
| **provider: registration** (`registry.ts`) | registration cache file | stake and register at boot | escrow, registry topic |
| **provider MCP** (`packages/provider-mcp`) | the box's `.env`, the same cache file | create an account, stake, check, register, verify; `provision_provider` does all of them | Hedera, exchange |
| **contracts** (`packages/onchain-0g`) | tokens, verdict records | `mint`, `setMemory`, `transferFrom`, `recordVerdict` | - |
| **dashboard, scripts** | - | display, one-off setup | exchange |

Everything in the exchange runs on one JavaScript event loop, so a piece of code
between two awaits is atomic and everything else interleaves. An action of a
module is such a piece (or several of them that no other code can observe
apart). What is hard:

* **Shared row objects.** Discovery reads a row, awaits a fetch and stores a new
  object made from what it read; the router keeps a row object over a whole paid
  call and stores it back; the endpoints mutate the current object in place. A
  penalty survives only if nobody stores an object that predates it.
* **Quotes by body.** A quote is found again by the hash of the request's body,
  at the 402, at verification, in the handler and after the response. Two buyers
  may carry one body, the TTL may end between two look-ups, and the money moves
  after the response.
* **Partial failure.** A provider fails after being paid, a settlement fails
  after the answer was sent, an enforcement stops half way.
* **Long tasks.** An audit replays for up to 20 s and an enforcement is six
  awaits on three systems; the table, the other tasks of the verifier and the
  chain go on meanwhile.
* **Restart.** All of it is in memory; the topics are what is left. What was
  published late, or not at all, is missing after a restart, and what is rebuilt
  is rebuilt while the process already serves.
* **Steps over several systems.** Registration and onboarding move money, publish
  a message and write a file, in two programs that share the file; minting uploads
  for seconds and then sends a transaction. Each may stop half way and is retried.

What makes each component correct: a slash lasts and takes the provider out of
routing; a quote is used once and is what is served, billed and paid; reported
revenue is money received; a buyer pays once, only for an answer, and what it
signed; a mock failure is refunded in full; an audit slashes only where somebody
cheats, once, and reports what was done; the feed counts a trade once; an agent
runs one loop at a time, charges its budget what its wallet pays and lists every
call it bought; a token covers the memory it is described by, and is sold with
it; a provider's answer names where it came from; a provider stakes once and its
records are true.

## 2. Modules

| module | models | composed of |
|---|---|---|
| `ProviderTable` | the routing table and everyone who reads or writes it | - |
| `MCProviderTable` | instances of it for TLC | `ProviderTable` |
| `MCTable` | two of them in one run | `MCProviderTable` |
| `MCTableFair` | one for liveness | `MCProviderTable` |
| `ProviderTableProofs` | theorems | `ProviderTable` |
| `QuoteBook` | the quotes, the fee, expiry, the provider list as routing sees it | - |
| `Settlement` | a paid request in real mode, up to the settlement hook | `QuoteBook` |
| `PaidInference` | abstract: what a buyer is promised | - |
| `MCSettlement` | instances of `Settlement` | `Settlement` |
| `MCSettle` | two of them in one run | `MCSettlement` |
| `SettlementProofs` | theorems, and the refinement of `PaidInference` | `Settlement` |
| `MockPaywall` | a paid request in mock mode: charge, serve, refund | `QuoteBook` |
| `Verifier` | the audit loop, the enforcement, `/demo/real-slash` | - |
| `MCVerifier` | instances of `Verifier` | `Verifier` |
| `VerifierProofs` | theorems | `Verifier` |
| `AgentRun` | the agent's server and the loop it runs | - |
| `MCAgentRun` | instances of it | `AgentRun` |
| `MCAgents` | two of them in one run | `MCAgentRun` |
| `AgentRunProofs` | theorems | `AgentRun` |
| `TradeFeed` | feed, trades topic, verdicts on 0G Chain, restart | - |
| `LedgerProofs` | theorems | `MockPaywall`, `TradeFeed` |
| `AgenticId` | the agent's token and the memory it points at | - |
| `ModelRouting` | the agent's model router, a pure function | - |
| `AgentServerProofs` | theorems | `AgenticId`, `ModelRouting` |
| `Inference` | a provider's backends, the canned bank, the similarity of two answers | - |
| `InferenceProofs` | theorems | `Inference` |
| `Registration` | a service that stakes and registers when it boots | - |
| `Onboarding` | the MCP server's tools beside the booting services | `Registration` |
| `MCOnboarding` | an instance of it | `Onboarding` |
| `OnboardingProofs` | theorems | `Onboarding` |
| `MCParts` | six parts that share no state, side by side | `MockPaywall`, `TradeFeed`, `AgenticId`, `ModelRouting`, `Inference`, `Onboarding` |

### ProviderTable

Row objects have identities: `rows[u][c]` is the object in cell `c` of url `u`,
and `providers[u]`, `existing[r][u]` (a refresh's `const existing`) and
`pinned[q]` (the router's `const pinned`) hold cells as the code's variables
hold references. `MutateRow` changes the current object in place (the
endpoints); `InstallRow` allocates a fresh one (discovery's `providers.set` of
an object literal); `ProviderServes` stores the held one back
(`index.ts:420-421`). `Collect` forgets objects that nothing refers to, which
keeps the state space finite and is invisible to the program.

| action | code |
|---|---|
| `RefreshBegin`, `InfoOk`, `InfoBadPrice`, `InfoFails` | `refreshProviders`: the topic read with the capture of every row, then one answer per url, in any order |
| `ResumeAfter` (inside the three) | the last answer resumes a router that awaits the refresh (`index.ts:390-395`) |
| `Slash`, `BondEvent`, `VerifyReport`, `DemoReset` | the endpoints; requests that they reject change nothing and are left out |
| `DemoSlashBegin`, `DemoSlashEnd` | `/demo/slash` before and after its delay |
| `Gate`, `QuoteExpires`, `Handle`, `ProviderServes`, `ProviderFails` | the router; its quote is reduced to the url that it names |

Nothing keeps two refreshes apart: `setInterval` starts a round whether or not an
earlier one has ended (`discovery.ts:95`), and requests refresh on their own. The
members of `Rounds` are names for the rounds under way, used again when a round has
ended, so their number bounds how many overlap.

Abstracted: the other fields of `/info` (wallet, name and model of a url do not
change), wallet case folding, the verify log, the SSE messages.

### QuoteBook, Settlement, PaidInference

`book` is the sequence of all quotes created; `quotes` and `byId` are the two
maps of `quotes.ts`. All quotes live equally long, so they expire in the order
of creation and one number, `expired`, says which have. Amounts are integers in
base units, as in the code; quote ids are distinct (the code derives them from
the millisecond and the body).

A buyer moves `new -> quoted -> verifying -> serving -> settling -> charged`,
or leaves it for `unquoted`, `rejected`, `cancelled` or `unpaid`. The x402
middleware and the facilitator are external: what is assumed of them is what the
hooks at `index.ts:275-337` are registered for, namely that a payment is
verified against the requirements recomputed for the request, that a 2xx answer
is settled after it was sent and anything else cancels the payment.
`Settlement!QuoteFor` is called at each of the three look-ups. `ProviderServes`
files the entry under the quote *handled* (`index.ts:444`), the hook looks it up
under the quote *paid* (`index.ts:281`).

`PaidInference` is the promise: held when signed, taken at most once, only after
serving, in the amount that was signed. `Settlement` refines it with
`stage <- Stage[phase[b]]`, `bid <- ` the total of the quote that was signed,
`received <- income`.

### MockPaywall

The gate charges the quoted total in the same synchronous step in which the
handler starts; serving credits the provider and accrues; failing credits the
provider or not (a network error or a non-2xx answer), takes the total back and
credits the agents' row. `up` is the process: the catch block evaluates
`hederaAccount("EXCHANGE")`, which exits it without credentials.
`refundOnFailure` is the environment setting, chosen once in `Init`.

### Verifier

`stage[e]` says where the audit loop (`e = "audit"`) or a press of
`/demo/real-slash` is: between two of its awaits. `auditInFlight` is
`stage["audit"] # "idle"`. `accused[e]` is `target`, `witness` the other
provider of the audit, `wipeTx[e]` and `freezeTx[e]` what `enforceBond` was told
of its transactions.

| action | code |
|---|---|
| `Select` | `auditOnce` up to the replays: selection, claim of the request, TEE short-circuit |
| `Replayed`, `Close` | both `ask`s and `classifyReplayOutcomes`; the reports of a good verdict |
| `Claim`, `ReportFails` | after `/verify-report`: `shouldEnforceSlash` and the claim of the wallet, or the exception |
| `Press` | `/demo/real-slash` up to its first await in `enforceRealSlash` |
| `MoveStake`, `Delist`, `Wipe`, `Freeze`, `PostBond` | the enforcement, one action per await; each may fail |
| `Serve`, `Discover`, `DemoReset`, `ExchangeRestart` | the exchange, as far as the verifier sees it |
| `VerifierRestart` | the process ends and starts: its sets and tasks are gone, the chain is not |

`Classify` needs two comparable answers; which they are is data, so an answer is
`failed`, `short`, `genuine` or, from an endpoint that is `straying`, one of
`Strays`. An endpoint strays when it runs in CHEAT_MODE, and also when it is honest
and its 0G backend may fall back to the canned bank (`zerog.ts:151-157`): the audit
cannot tell the two apart. Genuine answers of one model are similar: the threshold
on word bigrams is in `Inference`. The random order of candidates in
`selectAuditCandidate` is a free
choice among those that have a witness. `Select` reads table and log in the step
that decides on them; the code fetches them just before, and what a row does
between fetch and decision it can as well do just after the decision, except
that `slashedWallets` and `audited` are read at the decision, as here.
`ShownWipeIsReal` is about what the verifier reports: the staged `/demo/slash` of
`ProviderTable` shows a wipe on purpose and is left out here. Also left out: mock mode,
a verifier without a bond token (where the last three steps do nothing), the frozen state of an account
(the wipe lifts it), eviction from the log, a row that changes its model.

### AgentRun

One action per await of `runGoal`: `Routed`, `Planned`, `Challenged` (the 402),
`Bought` or `PaidInVain`, `Synthesized`, and the failure of each. `run[r]` is
the closure of a run (its goal, questions left, `Budget`), with ghosts: `paid`,
what the wallet paid for it, `requoted`, and the call's own `tx` and `question`.
The wallet pays what the 402 quoted; the loop records the total that the answer
names, which is that of the quote the exchange's handler took: `Bought(r, t)` allows
another total, and `requoted` remembers it. `state`, `calls` (the buffer) and
`wallet` are shared, as in `server.ts`. `PostRun` checks and sets the running flag in
one step; `PostRunWithoutBudget` is the throw of `new Budget` in an async handler,
which ends the process. Records are published in the background (`outbox`), in any
order or not at all, on a topic where other agents publish too (`OthersPublish`).
`Crash` loses the process, `BuyFails` the response; in both cases the exchange may
still settle what was signed (`SettlesLate`). `CallsListed` is `GET /calls`: the
newest `Limit` messages, those of this agent (`TopicRead`), merged with the buffer
by payment reference (`CallsMerged`), cut to `Limit`. A Mirror Node that cannot be
read then is left out: the buffer alone is listed.

### TradeFeed

`Starts`, `Replayed` and `ReplayFails` are `hydrateFromTrades`, called and not
awaited; `Serves`, `Settles` and `TradePublished` are `pushRequest`, the hook and
the publication; `recordVerdict` sends to 0G Chain and `RecordVerdict` is the
contract. An entry waits in `pendingSettles` under the quote its handler took
(`BilledQuote`), and the hook looks under the quote that was paid (`PaidQuote`): two
trades may share a quote, and then one of them takes the entry of the other or finds
none, is counted and publishes nothing. Which trades share is fixed in advance, an
over-approximation in so far as a quote that was consumed is not sold again in the
code. A trade is a model value, a message that is no usable trade one of `Odd`.
`tradeToEntry` and `readTopicMessages` are the code's filters. `early` is a ghost: the
entries that were published while the replay was not read yet.

### AgenticId

`PostMint` to `Receipt` follow one `POST /agentic-id/mint`: serialise the buffer,
upload, read what is known, mint or re-point, and set the shared `agenticId`.
`Mine` takes the first of `mempool` (nonce order) and applies the contract;
`Receipt` without a token in it is a success that shows no token
(`server.ts:305-314`). `Sells` is a transfer by the owner. `token[t].count` is how many calls the
description names, `storage[r].calls` how many the upload holds.

### ModelRouting, Inference

Both are mostly data. `ModelRouting` draws a market and a goal and computes the
route (`routedBuyFor`); the code's stable sort is stated by what it returns, the
enumeration of the models along the order it sorts by. `Inference` follows two paid requests of one audit from
the gate to a text, each network call failing or not, and compares the texts with
the threshold of `similarity.ts`; the canned bank is there word by word because
the threshold is about its words. An upstream's answer of status 200 holds its text or
no content at all, which every backend passes on. A live model's answer is a text of its own that
shares no two words in a row with another's, which is the assumption the audit
itself makes.

### Registration, Onboarding

`transfers` (escrow), `topic` and `file` (a cache per host) are the three records;
`svc[p]` is where `ensureRegistered` of a service awaits, with the whole cache it
read, which it writes back whole. `StakeToEscrow` and `Publish` succeed, fail, or
succeed without the process learning of it. `Redeploy` is a new container with no
file. `Onboarding` adds the tools: each has a synchronous piece (`StakeBegins`) and
the piece after its await (`StakeEnds`), and `provision_provider` chains them by
`After`. `mishaps` counts what fails, stops or overlaps, so that a property can
say "where nothing failed" without leaving the failures out.

### MCParts

Six parts share no state and need no variable of one another. `MCParts` draws one
of them and takes its steps while the others keep a fixed initial state, so the
states add up and one run checks all of them.

## 3. Runs

Passing runs:

| run | shows | bounds |
|---|---|---|
| `Table`, "timer" | two rounds of the timer overlap, with every answer of `/info`, all endpoints and a staged demo | 1 url in the table, a seed that may be announced on the topic too; 2 wallets; amounts of 1; 2 rounds; every kind of `/info` answer; 1 press |
| `Table`, "router" | two requests hold rows across the paid call and store them back, beside their own refreshes and a round | the same, 2 requests, `/info` with or without a price, slashes, resets |
| `TableFair` | a request that waits for its refresh gets past it; a staged demo ends slashed and wiped | 2 urls, the second from the topic, both of one wallet; 1 request, 1 press, 1 round, resets; `/info` has a price, except that the refresh a request started may find the second url unpriced or unreachable |
| `Settle`, "two" | two buyers with one body share quotes that run out | 3 quotes, expiry, price changes, log of 2 |
| `Settle`, "three" | a third buyer with its own body, and entries that are cut from the log | 3 quotes, no expiry, price changes, log of 2 |
| `VerifierAudit` | each enforcement of the loop has a cause in what the pair serves, the loop claims no wallet whose stake has moved, no wipe is made up, and no request stays auditable for ever | 2 endpoints of one model, of which one may stray; 2 requests, one attested; 1 press; 1 restart of either process |
| `Agents`, "money" | budget, wallet and balance with every cap and total, lost responses and another total in the answer | 2 runs, 1 goal, cap invalid or 2, totals 1 and 2 for an expected 1, 2 questions, 2 boots |
| `Agents`, "history" | goals on calls and what `GET /calls` lists | 2 runs, 2 goals, cap 2, total 1, buffer of 2, list of 3, 1 message of another agent, 2 boots |
| `Parts` | mock ledger, feed, token, model routing, answers and audit, onboarding: see below | below |

`Table`, `Settle` and `Agents` are two instances each: the `MC` module draws a
`scenario` in the initial state and allows the steps of that instance, so the
states of the two add up. Every property of the run is checked in both.

* `Table`: a slash is lost only by a reset, by an answer without a price, or to
  somebody who read the row before it (`SlashLostOnlyToStale`); reputation, stake and
  bond change only by an endpoint or when a replaced object is stored back
  (`StandingLostOnlyToStale`); only a reset makes a row live without a price
  (`OnlyAResetUnprices`); no request is counted twice (`ServedNeverOvercounts`).
* `Settle`: revenue was received (`RevenueBacked`); the quote maps agree
  (`QuoteBookConsistent`); a published trade pairs a payment with a call that was
  billed at the quote paid, of the same body (`TradesNameTheirPayer`), and no call
  is published twice (`EntriesPublishedOnce`); until a quote expires or is shared the
  books are exact (`BooksAreExact`); the promise to each buyer is kept
  (`PaymentsSpec`).
* `Agents`: one loop at a time and the flag says so; the budget shown is what was
  recorded, and what the wallet paid as long as answers name the signed total; the
  shown balance is then never too low; calls carry their goal; the merged history
  leaves out only what its limits cut; every run ends.

`Parts`, part by part. *Paywall*: the ledger adds up, with and without refunds
(2 buyers with one body, 3 quotes, expiry, prices 5 and 12). *Feed*: where nothing
failed and every settlement found an entry, the revenue counts each published trade
(up to what a restart reads back), and none twice but those published before the
replay was read; the feed stays within its limits; a call has one verdict at most,
and one only when its quote was paid (4 trades, of which two share a quote and one
is billed at another quote than was paid, two of them 0G's, log and replay of 2, 2
starts, an odd message, 1 mishap). *Token*: a sold token does not change, requests
that neither fail nor overlap mint one token and the memory shown is the token's (3
requests, 2 calls, 1 mishap). *Routing*: a simple goal goes to a model that no live
ask undercuts, a hard one to a model that none exceeds (3 models, 2 asks or none, 3
providers). *Answers*: whatever fails on the way to 0G ends in a text, and an answer
without one is 0G's own; label and upstream model are those of the text; the
threshold passes only like answers (all profiles and environments, 6 prompts, 2
custom models). *Onboarding*: records are true, the box stakes once, "provisioned" is
on chain (2 accounts, a service on the box and one in a container, 2 tool calls, 3
boots, 1 mishap).

Violation runs, each of a sentence of the repository (quoted in `PROJECT.json`)
and with small constants that show it:

| run | what happens |
|---|---|
| `TableStalePinned` | a request pays a live provider; a refresh replaces its row; `/slash` marks the new row; the provider answers, the router stores the row it held, and the slash is gone |
| `TablePaidSlashed` | a request is quoted a provider, `/slash` ejects it, the handler refreshes, finds that there is a row, and pays it |
| `SettleRepinned` | a quote runs out between the verification of the payment and the handler, which makes another one at the price of that moment, and serves and bills that |
| `AgentOverrun` | a run whose budget has room for the expected ask is quoted more; the wallet pays it, and `Budget.record` refuses it afterwards |
| `OnboardTwice` | `provision_provider` stakes, finds no endpoint and stops; the container booted from the configuration it returned has no cache, finds no message and stakes again |
| `AuditFallback` | of two honest providers one falls back to the canned bank; the audit finds its answer divergent |

Why the bounds are enough to be interesting: the properties of `Table`
speak of one url at a time, and urls meet only where the router chooses and where one
wallet owns two rows, for which `TableFair` has two; two refreshers for an overlap; two
requests for lost updates; two buyers for a shared quote, and a third so that a log
of two entries cuts one that still waits; three quotes so that a consumed or expired
quote is replaced while another buyer still holds it; prices 5 and 12 at a 10 % fee,
of which neither divides evenly. The three buyers do without expiry, which the two
have: together they would take hours and show no other kind of step. `Cells` is as
many objects as can be referred to at once plus one, so that allocation never fails
(an assumption of the module). `MaxQuotes` bounds how many quotes are created: at the
bound a request that needs a new one waits.

In "router" one round is under way at a time, every `/info` answers, nothing is on
the registry topic and nobody reports a verdict or presses a demo: these are the
steps that "timer" has, and there no one holds a row across a paid call.

For `Verifier`, the endpoint that may stray is the cheaper one, so it is the accused
of its own requests and the witness of the other's; two requests let one audit follow
another that failed; one press is enough to enforce between the steps of an
audit. `MaxRestarts` bounds the restarts of both processes together.

In `Agents` a second run needs the first one's flag to fall, a total of 2
overruns a budget of 2 after a call of 1, a second boot meets calls on the topic, in
the dead buffer and in flight, and four calls pass both the buffer and the list. In
`Parts` a second mishap would allow two failures in one request; the properties that
fail at once under overlap or failure are conditioned on `mishaps = 0` and the others
hold with one.

The finite runs (`Settle`, `Agents`, `Parts`, and the violations of their modules)
do not check deadlock: a finite set of requests, runs or boots ends.
The `ProviderTable` and `Verifier` runs do check it: the timer and discovery always
go on.

### Fairness

`FairSpec` assumes weak fairness of an `/info` answer (the fetch is aborted
after 2 s, `discovery.ts:47`), of a handler whose await is over (the event
loop) and of the demo's timeout. Nothing is assumed of the paid call, which sets
no timeout of its own, nor of the timer. In `Verifier`, `FairSpec` assumes weak fairness of
the verdict (replays are aborted after 20 s, and the calls that report end) and
of the loop's enforcement steps, and strong fairness of each `Select`: a
candidate is drawn at random on every tick (`index.ts:297` of the verifier), so
one that can be drawn again and again is drawn. Nothing is assumed of presses
and of the exchange. In
`AgentRun`, `FairSpec` assumes weak fairness of each run's step and of the
publications: every await there is an SDK call or a fetch, and both give up in the
end (Node ends a fetch that gets no headers within minutes).
Nothing is assumed of boots, crashes and late settlements. `MCAgents` restricts what an
answer may say and never whether one comes, so the fairness is the same there; so does
`MCTableFair`, where an answer with a price is always possible.

## 4. Proofs

Checked by TLAPS for every value of the constants that satisfies the named
assumptions.

`ProviderTableProofs`. The invariant `IInv == Shapes /\ References` strengthens
`TypeOK` with what makes a reference safe: whatever `providers`, `existing` and
`pinned` name is an object in use, a request that holds an object has its quote,
and a row never vanishes. `TypeOK` alone is not inductive, since storing a held
object needs it to be there. `SaneRow` says what holds of every object, in the
table or held by somebody, because any of them may be stored back: a slash goes
with reputation 0. `TypeCorrect` and `SlashTakesReputation` follow from it.
`NoRequestCountsTwice` adds `CountsBounded`, again of every object: each step
copies counts that were there, and only serving adds one, together with a served
request. `SlashIsLostOnlyToStale`, `StandingIsLostOnlyToStale` and
`ResetsAloneUnprice` are about steps: under `IInv`, `AllKept` holds of every step
of every action (`AnswerStores` says what an answer of `/info` puts where, for all
its cases at once). They assume nothing about who refreshes, how many rounds overlap
or what `/info` answers.

`SettlementProofs`. `FeeIsTheCeiling` and `TotalsFollowPrices` are about the
arithmetic. `SaleInv` is the inductive invariant: the book's shape and
consistency, the variables' types, for each buyer that the quotes it names are
of its body and that the quote paid costs what was signed (`BuyerInv`), that an
entry waits under the quote it was billed at (`PendingInv`), and
`RevenueBacked`. `RevenueBacked` alone is not inductive: the hook accrues the
entry's price, and only `PendingInv` says that this is the price of the quote
that was paid. The book only grows (`BookOnlyGrows`), so what was said of old
quotes stays true. From it: `TypeCorrect`, `QuoteMapsAgree`,
`ReportedRevenueWasReceived`; and `PaymentsAreKept`, the refinement of
`PaidInference`. `TradesInv` says of each published trade that its entry was billed at
the quote of its payer (`PublishedInv`), and that an entry that waits is not published
and waits once: hence `TradesAreTheirBuyers` and `CallsArePublishedOnce`, for any
buyers, shared bodies and expiry. `BooksFollowTheMoney` proves `BooksAreExact` without
an assumption on bodies or on the log: `ExactInv` adds that, while no quote expired or
is shared, the quote that was paid stays the one pinned for its body until the handler
takes it, so that the buyer's own entry waits under it (`PinnedInv`) unless it was cut.

`VerifierProofs`. `IInv` adds three parts to `TypeOK`. `ClaimInv`: until the
verifier restarts, a stake that moved or is about to is that of a claimed wallet
(`AuditSparesTheSlashed` alone says nothing of the press that is between claim
and transfer). `VerdictInv`: from the verdict on, one of the two compared
endpoints strays (`SlashHasACause` speaks of the enforcement only). `WipeInv`:
an enforcement that was told of a wipe knows that the bond is gone, which
`ShownWipeIsReal` needs when it is reported later. From it `TypeCorrect`,
`EnforcementsHaveACause`, `WipesAreReal` and, with `ShouldEnforce` at the claim,
`AuditTakesNoSecondStake`.

`AgentRunProofs`. `IInv` adds `ClosureInv` (what a run knows where it awaits: a
question left, a quoted total, and that a dead run owes at most what it had
signed) and `GoalInv` (the shared goal is the goal of the run that goes on) to the
three invariants, which need one another: the balance is an upper bound because
the budget tracks the wallet, and both because one run goes on at a time.
`CallsKeepTheirGoal` and `HistoryKeepsTheNewest` follow with `RecordInv` over the
calls recorded anywhere (buffer, topic, or under way): where receipts can be read a
reference is a transaction, and no two calls have one. `MergeIsWhatWasRead` shows that
the map by reference then neither loses nor doubles a call, and `CutTakesTheOldest`
that the cut leaves out only a call that `Limit` later ones outlive.

`InferenceProofs`. `ReplyInv`: the answer of each role, wherever it awaits, is
labelled by the path it took, and the bank's texts are no model's
(`ProvenanceHolds`), and a 0G answer
without a text is 0G's (`ErrorsOfZeroGFallBack`). `AnswerInv` adds that a text labelled
canned is the role's own entry of the bank and any other text is a model's, and that
a verdict is the comparison of two final answers; `SellerInv` that the witness serves
what it advertises. What remains is arithmetic of texts: two texts with at most two
word pairs in common and six in either are not similar, nor are one in three or none
in one (`TooFewInCommon`), and each pair of different answers is of one of these
kinds, for every prompt of the bank and whatever a model is called, even if its name
is a word of the answer (`CheapIsNotGood`, `LiveIsNotGood`, `LiveIsNotCheap`,
`LiveIsNotAnother`). Hence `AuditsClearOnlyTheSame`, and
`CheatsAreCaughtOffline`, which states exactly where the canned cheat is caught: on every
prompt of the bank but the default one, where its answer is one word.

`AgentServerProofs`. What is described is covered by the upload that a request,
a pending transaction or the process's variable names (`DescriptionsCover`);
pending transactions are the process's own, so a sold token is out of their reach
(`SoldMemoryIsKept`); with no mishap at most one request is in flight, and what it
knows is the token (`MintsOnce`, `ShownMemoryIsTrue`). Of the router:
`SortedEnumeration` shows that a finite set has an enumeration along any strict total
order (each element goes after those below it), so the list exists;
`CheapestFirstIs` that it holds each model once, at its lowest ask, with asks that
never fall; the tiers are places in it (`PricesFollowTiers`).

`OnboardingProofs`. The two ledgers only grow, and everything that carries a
record, a service's copy of the cache or a tool's variables included, carries a
true one (`OnboardInv`): a file is written back from such copies.
`ProvisionedMeansOnChain` follows each `provision_provider` call (`ProvisionInv`): past
its registration the topic has the endpoint, whatever else went on; past its stake, if
nothing went wrong, the escrow has the money. `TheBoxStakesOnce` needs `SoloInv`, which
speaks of the executions without a mishap: at most one service or tool is between read
and write (`Alone`), and the box's file, together with the entry that this one is about
to write, names every stake that left the box (`BoxInv`), so the next one to read it
finds the stake and pays no second one.

`LedgerProofs`. `MockLedgerBalances`: the ledger is a sum over the buyers, and
`PaywallInv` relates it to the charges that are open, served and refunded.
`TotalIsTheSum` shows what the fold of the library computes on any finite set, and how
a sum changes when one buyer's part does; it is an induction on the size of the set,
stated for a set of numbers (`InductionOnNat`) and derived from the well-foundedness of
`<`, because the provers cannot instantiate the library's theorems that take a
predicate. `FeedInv` has the feed's types (`FeedTyped`), the log's limit (`LogInv`), the
topic (`TopicInv`), what waits for a settlement (`WaitInv`) and the counters (`CountInv`):
while nothing failed, each trade that was counted since the start put one entry on the
ledger, and after the replay the count is those and what was read, where an entry that
was `early` may be in both (`RevenueStaysTheLedgers`, `FeedStaysBounded`). `VerdictInv`
follows a verdict: an entry is taken from `pendingSettles` once, so its verdict is under
way or mined and never both, and it was taken by the settlement of a payment for its
quote (`VerdictsAreOfPaidCalls`).

Only model-checked: liveness (`StaleRequestsResume`, `DemoEndsInSlash`,
`AuditsGoOn`, `RunsEnd`; fairness and ENABLED are out of the prover's reach). Every
other property of a passing run is stated by a theorem. What TLC shows beyond them is
the violations, and that the properties are not idle: each is broken by a plausible
change of the code.

Only proved: the type invariants and `SlashTakesReputation`, `CheatsAreCaughtOffline`, and
that the count in a token's description is never below the calls of the memory it points
at (`DescriptionsCover`; it may be above, section 5).

## 5. What is not modelled, and where code and documents disagree

`PROJECT.json` lists every component and what of it is left out. Pure I/O
(prompts and parsing of plans, encryption and encodings, SSE, explorer links,
token counts, unit conversions) stays out. The dashboard renders what the exchange
and the agent serve and decides nothing; the scripts are run by hand, one after
another; strangers who mint tokens or record verdicts are not part of the system.
The maps that are never swept (`pendingSettles`, `quotes`) grow without bound and
no document states a limit. Whether a facilitator verifies a payment of zero is not
known, so a 402 without a quote ends the attempt.

Many disagreements between code and documents were met while modelling; the six
violation runs show one each, and the others are behaviours of the modules that no
run asks for. Where a passing property is worded around one ("only a reset, ..."), it
is listed here.

*Routing.* The router pays a row that was slashed after it was quoted, because the
test after its own refresh asks only whether the row exists (`index.ts:391-395`,
against "ejected from routing", `docs/exchange.md:151`). `/slash` takes out the first
row of a wallet, and a second row of it stays routable (`slash.ts:26`, against
"out of rotation", `index.ts:120`). A request without a quote is answered 503
although the refresh it waited for has found a live provider (`index.ts:391`). A
refresh that read a row before another refresh replaced it brings back the state
from before a slash on the replacement (`discovery.ts:62`, against line 4). A slashed provider
that answers once without a price and then with one is live again
(`discovery.ts:54`, against line 4). A reset revives a row that is down for want of
a price, at price 0 (`demo.ts:39`, against `discovery.ts:49`).

*Paid requests.* In real mode the amount paid to a provider is what its own 402
asks, not the quoted price (`payer.ts:69`, against `index.ts:410`). Two buyers with
one body may both settle one quote, the second without a published trade
(`index.ts:444`, against "single-settlement", `quotes.ts:77`, and
`README.md:146`). A quote that expires between verification and handler is
replaced, and the handler serves and bills another one than was paid
(`index.ts:387`, against "PINNED quote", `index.ts:385`). A mock exchange without
keys exits at its first failed request (`index.ts:495`, against
`docs/DEVREL_BRIEF.md:117`). A trade that settles before the replay is read is
counted twice and has two rows (`index.ts:71`, against "before serving",
`index.ts:68`).

*Verifier.* If `/slash` cannot be reached the wallet stays claimed, the row stays
routable and is never audited again. A press of `/demo/real-slash` may take a second
stake of a wallet that the loop slashed (verifier `index.ts:483`, against
`docs/verifier.md:25`). A second enforcement after a wipe reports a full bond. After
`/demo/reset` a wallet stays out of the verifier's audits. An honest provider is
slashed when its only witness strays, and an honest one that falls back to the canned
bank when its witness does not. The canned "default" cheat is one word, which
has no bigram, so the replay is inconclusive (`canned.ts:24`, against
`docs/DEVREL_BRIEF.md:66`).

*Agent and provider.* When the answer names another total than was signed, the Budget
and the shown balance follow the answer and not the wallet (`loop.ts:78`, against "what
the agent paid", `buy.ts:15`). `GET /calls` reads the newest messages of the topic,
whoever sent them, and cuts the list (`server.ts:229`, against "every inference call",
`server.ts:224`); calls whose receipts cannot be read share the reference "settled", and
one of them is listed (`payer.ts:52`). The description of a token counts the calls after
the upload, which may hold fewer (`server.ts:289`, against line 278). Overlapping mint requests mint two tokens. The router path marks
an answer as attested for a header that nothing checks (`zerog.ts:130`, against "only ever
set on the 0G broker path", `types.ts:33-36`). A 200 of 0G without content is sold as an
answer (`zerog.ts:82-94`, `123-133`). An unknown
`PROVIDER_BACKEND` answers 200 with an empty body. "Never downgrade a public
registration to localhost" (`registry.ts:139`) is not kept when the cache has a
stake and no registration. Two programs that write the cache file back whole lose
each other's entries, and a lost stake is paid again.

## 6. What could follow

1. That `ProviderTable` implements the table that `Verifier` sees.
2. `Settlement` and `TradeFeed` as one module, so that which trades share a quote follows
   from the requests instead of being fixed in advance.
3. The frozen state of a bond's account.
