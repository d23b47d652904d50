------------------------------ MODULE TradeFeed ------------------------------
(***************************************************************************)
(* The exchange's settlement feed and the two public logs behind it: what  *)
(* pushRequest (packages/exchange/src/state.ts) and the onAfterSettle hook *)
(* (index.ts) keep in memory, the HCS trades topic, the verdicts on 0G     *)
(* Chain (zerog.ts, VerdictRegistry.sol), and hydrateFromTrades            *)
(* (hydrate.ts), which rebuilds the feed from the topic when the process   *)
(* starts, while it already serves.                                        *)
(*                                                                         *)
(* A trade is a paid request and names its log entry.  Requests with one   *)
(* body share a quote, and a quote may run out between payment and handler *)
(* (Settlement): BilledQuote is the quote of the handler, under which the  *)
(* entry waits, and PaidQuote the one that the settlement hook gets.       *)
(* feedMishaps counts settlements that find no entry, publications that    *)
(* fail or are cut off, and late mirrors, up to MaxFeedMishaps; MaxStarts  *)
(* bounds the restarts.                                                    *)
(***************************************************************************)
EXTENDS Integers, Sequences, FiniteSets, SequencesExt

CONSTANTS
  Trade,
  SoldQuotes, BilledQuote, PaidQuote,
  FromZeroG,      \* trades a 0G provider served
  Odd,            \* messages on the topic that are no usable trade
  LogLimit,       \* REQUEST_LOG_LIMIT
  HydrateLimit,   \* HYDRATE_LIMIT
  MaxStarts, MaxFeedMishaps

ASSUME TradesAssumption ==
  /\ IsFiniteSet(Trade) /\ FromZeroG \subseteq Trade /\ Odd \cap Trade = {}
  /\ BilledQuote \in [Trade -> SoldQuotes] /\ PaidQuote \in [Trade -> SoldQuotes]
ASSUME LimitsAssumption ==
  /\ LogLimit \in Nat \ {0} /\ HydrateLimit \in Nat
  /\ MaxStarts \in Nat /\ MaxFeedMishaps \in Nat

VARIABLES
  replay,     \* "off" | "reading" | "done": the process, hydrateFromTrades
  starts,
  requestLog, \* rows of the feed, oldest first
  pendingSettles, \* per quote, the entry that waits: a set of at most one
  counted,    \* trades counted into revenue
  sold,       \* per trade: "new", "served", "settled" or "lost"
  outbox,     \* publications to the trades topic under way
  early,      \* ghost: entries that were published before the replay was read
  trades,     \* the trades topic
  toChain,    \* verdicts sent to 0G Chain and not mined
  verdicts,   \* VerdictRegistry
  feedMishaps

feedVars == <<replay, starts, requestLog, pendingSettles, counted, sold, outbox, early,
              trades, toChain, verdicts, feedMishaps>>

Row == [trade : Trade, restored : BOOLEAN]
Live(t) == [trade |-> t, restored |-> FALSE]

FeedInit ==
  /\ replay = "off" /\ starts = 0
  /\ requestLog = << >> /\ counted = 0
  /\ pendingSettles = [q \in SoldQuotes |-> {}]
  /\ sold = [t \in Trade |-> "new"]
  /\ outbox = {} /\ early = {} /\ trades \in {<< >>} \cup {<<o>> : o \in Odd}
  /\ toChain = {} /\ verdicts = << >>
  /\ feedMishaps = 0

FeedMishap(happened) ==
  /\ happened => feedMishaps < MaxFeedMishaps
  /\ feedMishaps' = IF happened THEN feedMishaps + 1 ELSE feedMishaps

--------------------------------------------------------------------------------
\* The process starts: hydrateFromTrades is called, and not awaited.
Starts ==
  /\ replay = "off" /\ starts < MaxStarts
  /\ replay' = "reading" /\ starts' = starts + 1
  /\ UNCHANGED <<requestLog, pendingSettles, counted, sold, outbox, early, trades, toChain,
                 verdicts, feedMishaps>>

\* Mutant: a message without a usable price becomes a row too.
tradeToEntry_Any(m) == {[trade |-> m, restored |-> TRUE]}

\* tradeToEntry: a row, or none when the message is no trade or has no price.
tradeToEntry(m) == IF m \in Trade THEN {[trade |-> m, restored |-> TRUE]} ELSE {}

\* The newest messages, oldest of them first.
readTopicMessages(seen) ==
  SubSeq(seen, IF HydrateLimit < Len(seen) THEN Len(seen) - HydrateLimit + 1 ELSE 1, Len(seen))

\* The mirror node answers, perhaps some messages late; each row is pushed
\* onto the log as it is by then and counted, and the log keeps them all.
Replayed ==
  /\ replay = "reading"
  /\ \E n \in 0..Len(trades) :
       LET rows == FlattenSeq([i \in DOMAIN readTopicMessages(SubSeq(trades, 1, n)) |->
                     SetToSeq(tradeToEntry(readTopicMessages(SubSeq(trades, 1, n))[i]))]) IN
       /\ FeedMishap(n < Len(trades))
       /\ requestLog' = requestLog \o rows
       /\ counted' = counted + Len(rows)
  /\ replay' = "done"
  /\ UNCHANGED <<starts, pendingSettles, sold, outbox, early, trades, toChain, verdicts>>

\* No answer, or an error: the feed stays as it is.
ReplayFails ==
  /\ replay = "reading"
  /\ FeedMishap(trades # << >>)
  /\ replay' = "done"
  /\ UNCHANGED <<starts, requestLog, pendingSettles, counted, sold, outbox, early, trades,
                 toChain, verdicts>>

--------------------------------------------------------------------------------
\* Mutant: the log is never cut.
Pushed_Uncut(log, row) == Append(log, row)

\* pushRequest: one row in, and the oldest one out when there are too many.
Pushed(log, row) ==
  IF Len(log) + 1 > LogLimit THEN Tail(Append(log, row)) ELSE Append(log, row)

\* The paid request was served: its entry waits for the settlement of its
\* quote, in the place of another one that waited for it.
Serves(t) ==
  /\ replay # "off" /\ sold[t] = "new"
  /\ sold' = [sold EXCEPT ![t] = "served"]
  /\ pendingSettles' = [pendingSettles EXCEPT ![BilledQuote[t]] = {t}]
  /\ requestLog' = Pushed(requestLog, Live(t))
  /\ UNCHANGED <<replay, starts, counted, outbox, early, trades, toChain, verdicts, feedMishaps>>

\* The entry that waits for quote q, if the log still has it.
WaitingFor(q) == {e \in pendingSettles[q] : Live(e) \in ToSet(requestLog)}

\* The hook: counted, with or without an entry; the entry is published, and
\* recorded on 0G Chain if a 0G provider served it.
Accrues(t) ==
  LET entry == WaitingFor(PaidQuote[t]) IN
  /\ replay # "off" /\ sold[t] = "served"
  /\ FeedMishap(entry = {})
  /\ sold' = [sold EXCEPT ![t] = "settled"]
  /\ counted' = counted + 1
  /\ outbox' = outbox \cup entry
  /\ early' = IF replay = "reading" THEN early \cup entry ELSE early
  /\ toChain' = toChain \cup (entry \cap FromZeroG)
  /\ UNCHANGED <<replay, starts, requestLog, trades, verdicts>>

\* Mutant: the entry goes on waiting.
Settles_KeepsWaiting(t) == Accrues(t) /\ UNCHANGED pendingSettles

\* onAfterSettle: the entry no longer waits.
Settles(t) ==
  /\ Accrues(t)
  /\ pendingSettles' = [pendingSettles EXCEPT ![PaidQuote[t]] = {}]

\* publishToTopic ends, in any order; a failure is only logged.
TradePublished(t) ==
  /\ t \in outbox
  /\ outbox' = outbox \ {t}
  /\ \/ trades' = Append(trades, t) /\ UNCHANGED feedMishaps
     \/ FeedMishap(TRUE) /\ UNCHANGED trades
  /\ UNCHANGED <<replay, starts, requestLog, pendingSettles, counted, sold, early, toChain,
                 verdicts>>

\* VerdictRegistry.recordVerdict appends, whatever is there.
recordVerdict(t) == Append(verdicts, t)

\* recordVerdictOnZeroG: the call is mined, or was never sent; there is no
\* retry.
RecordVerdict(t) ==
  /\ t \in toChain
  /\ verdicts' \in {verdicts, recordVerdict(t)}
  /\ toChain' = toChain \ {t}
  /\ UNCHANGED <<replay, starts, requestLog, pendingSettles, counted, sold, outbox, early,
                 trades, feedMishaps>>

\* The process ends: its memory is gone, and what it was publishing may be.
\* A request it had served and not settled is not settled.
Ends ==
  /\ replay # "off" /\ starts < MaxStarts
  /\ FeedMishap(outbox # {} \/ replay = "reading")
  /\ replay' = "off" /\ requestLog' = << >> /\ counted' = 0
  /\ pendingSettles' = [q \in SoldQuotes |-> {}]
  /\ sold' = [t \in Trade |-> IF sold[t] = "served" THEN "lost" ELSE sold[t]]
  /\ outbox' = {} /\ early' = {}
  /\ UNCHANGED <<starts, trades, toChain, verdicts>>

FeedNext ==
  \/ Starts \/ Replayed \/ ReplayFails \/ Ends
  \/ \E t \in Trade : \/ Serves(t) \/ Settles(t)
                      \/ TradePublished(t) \/ RecordVerdict(t)

FeedSpec == FeedInit /\ [][FeedNext]_feedVars

--------------------------------------------------------------------------------
Settled == {t \in Trade : sold[t] = "settled"}

\* The trades on the topic or on their way there.
OnLedger == {t \in Trade : t \in outbox \/ \E i \in DOMAIN trades : trades[i] = t}

\* hydrate.ts:9-11, "the ledger, not the container's uptime, is what the feed
\* reflects": as long as nothing failed and every settlement found an entry, the
\* revenue shown counts each published trade, up to the HYDRATE_LIMIT messages a
\* restart reads back; and it counts none twice but those that were published
\* before the replay was read, which is not awaited (index.ts:71).
RevenueIsTheLedgers ==
  feedMishaps = 0 /\ replay = "done" =>
    /\ counted <= Cardinality(OnLedger) + Cardinality(early)
    /\ Len(trades) <= HydrateLimit => Cardinality(OnLedger) <= counted

\* The log stays bounded though the replay ignores the log's limit
\* (hydrate.ts:95 against state.ts:68).
FeedIsBounded == Len(requestLog) <= LogLimit + HydrateLimit

\* A call has one verdict of the exchange at most, and one only if a payment
\* for its quote settled, its own buyer's or that of another who shares it: in
\* whatever order transactions are mined and processes end (index.ts:281, 317).
VerdictsArePaidFor ==
  /\ IsInjective(verdicts)
  /\ \A i \in DOMAIN verdicts : \E t \in Settled : PaidQuote[t] = BilledQuote[verdicts[i]]
================================================================================
