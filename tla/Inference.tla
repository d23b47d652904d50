------------------------------ MODULE Inference ------------------------------
(***************************************************************************)
(* Where a provider's answer comes from, and what an audit makes of two of *)
(* them.  A provider runs one of the profiles of profiles.ts and forwards  *)
(* a paid request to its backend (packages/provider/src/backends): Groq,   *)
(* 0G through the broker and then the router, or the canned answers of     *)
(* packages/shared/src/canned.ts.  Each call to a network is a step that   *)
(* may fail.  The verifier asks the accused and a witness at once and      *)
(* compares the texts (verification.ts, similarity.ts).                    *)
(*                                                                         *)
(* A text is the sequence of its words, as normalizeText and tokenize      *)
(* leave them.  At temperature 0 a model answers a prompt in one way, and  *)
(* two models share no two words in a row: the assumption the audit makes. *)
(***************************************************************************)
EXTENDS Integers, Sequences, FiniteSets

CONSTANTS
  Prompts,       \* kinds of prompts that are asked, in the words of classify
  CustomModels   \* PROVIDER_MODEL of a bring-your-own provider

Big == "llama 70b"
Small == "llama 8b"
ZeroG == "0gm"
None == "none"

\* GOOD and CHEAT of canned.ts.
Good ==
  [default  |-> <<"the", "answer", "involves", "several", "considerations", "but", "in", "short",
                  "yes", "with", "the", "usual", "engineering", "caveats">>,
   capital  |-> <<"the", "capital", "of", "portugal", "is", "lisbon", "located", "on", "the",
                  "atlantic", "coast", "at", "the", "mouth", "of", "the", "tagus", "river">>,
   ethereum |-> <<"ethereum", "is", "a", "decentralized", "blockchain", "platform", "featuring",
                  "smart", "contracts", "eth", "is", "its", "native", "asset", "used", "for", "gas">>,
   x402     |-> <<"x402", "is", "an", "open", "payment", "protocol", "by", "coinbase", "that", "uses",
                  "the", "http", "402", "status", "code", "so", "clients", "can", "pay", "for", "api",
                  "requests", "with", "stablecoins">>,
   math     |-> <<"2", "2", "4">>,
   haiku    |-> <<"silent", "chains", "agree", "value", "flows", "through", "open", "pipes",
                  "agents", "pay", "their", "way">>]

Cheap ==
  [default  |-> <<"yes">>,
   capital  |-> <<"lisbon", "is", "the", "capital", "city", "of", "portugal">>,
   ethereum |-> <<"ethereum", "is", "a", "cryptocurrency", "like", "bitcoin">>,
   x402     |-> <<"x402", "is", "an", "http", "error", "code", "for", "payments">>,
   math     |-> <<"the", "answer", "is", "4">>,
   haiku    |-> <<"payments", "are", "cool", "blockchain", "blockchain", "blockchain", "yes",
                  "this", "is", "a", "haiku">>]

ASSUME PromptsAssumption == Prompts \subseteq DOMAIN Good

Roles == {"accused", "witness"}

\* PROFILES, with provider3 as CHEAT_MODE starts it, and customProfile, whose
\* backend is taken from the environment as it is written there.
Profile(advertised, actual, backend, cheat) ==
  [advertised |-> advertised, actual |-> actual, backend |-> backend, cannedCheat |-> cheat]
Profiles ==
  {Profile(Big, Big, "groq", FALSE), Profile(Small, Small, "groq", FALSE),
   Profile(Big, Small, "groq", TRUE), Profile(ZeroG, ZeroG, "0g", FALSE)}
  \cup {Profile(m, m, b, FALSE) : m \in CustomModels, b \in {"0g", "groq", "canned", "ollama"}}

\* The environment, as far as a backend reads it: its API key, whether the
\* broker is enabled and has a wallet, ZEROG_TRUST_MODE=verified.
Environments(backend) ==
  CASE backend = "groq" -> [key : BOOLEAN, broker : {"off"}, verified : {FALSE}]
    [] backend = "0g"   -> [key : BOOLEAN, broker : {"off", "no wallet", "on"}, verified : BOOLEAN]
    [] OTHER            -> [key : {FALSE}, broker : {"off"}, verified : {FALSE}]

VARIABLES
  seller,   \* per role: the provider's profile and environment
  prompt,   \* what the audit replays
  reach,    \* per role: which call is awaited
  reply,    \* per role: the response of the provider
  verdict

replayVars == <<seller, prompt, reach, reply, verdict>>

Reply(status, text, servedBy, upstream) ==
  [status |-> status, text |-> text, servedBy |-> servedBy, upstream |-> upstream,
   tee |-> FALSE]
NoReply == Reply(0, << >>, None, None)

Honest(s) == s.profile.actual = s.profile.advertised

ReplayInit ==
  /\ seller \in [Roles -> UNION {[profile : {p}, env : Environments(p.backend)] : p \in Profiles}]
  /\ seller["accused"].profile.advertised = seller["witness"].profile.advertised
  /\ Honest(seller["witness"])
  /\ prompt \in Prompts
  /\ reach = [r \in Roles |-> "gate"]
  /\ reply = [r \in Roles |-> NoReply]
  /\ verdict = None

Profiled(r) == seller[r].profile
Env(r) == seller[r].env

\* What model m answers.
Says(m) == <<m, prompt, m>>

Go(r, where) == reach' = [reach EXCEPT ![r] = where]
Answers(r, rep) == Go(r, "done") /\ reply' = [reply EXCEPT ![r] = rep]

\* cannedCompletion
Canned(r) == Reply(200, (IF Profiled(r).cannedCheat THEN Cheap ELSE Good)[prompt], "canned", None)

--------------------------------------------------------------------------------
(* The provider.                                                           *)

\* The paywall: the verifier pays what the exchange's table says, which may be
\* less than the provider asks by now.
Unpaid(r) ==
  /\ reach[r] = "gate"
  /\ Answers(r, [NoReply EXCEPT !.status = 402])
  /\ UNCHANGED <<seller, prompt, verdict>>

\* Paid: on to the backend.  A backend `complete` does not know answers 200
\* with no body.
Dispatch(r) ==
  LET backend == Profiled(r).backend IN
  /\ reach[r] = "gate"
  /\ \/ backend = "0g" /\ Go(r, IF Env(r).broker = "off" THEN "router" ELSE "broker") /\ UNCHANGED reply
     \/ backend = "groq" /\ Env(r).key /\ Go(r, "groq") /\ UNCHANGED reply
     \/ backend = "groq" /\ ~Env(r).key /\ Answers(r, Canned(r))
     \/ backend = "canned" /\ Answers(r, Canned(r))
     \/ backend = "ollama" /\ Answers(r, [NoReply EXCEPT !.status = 200])
  /\ UNCHANGED <<seller, prompt, verdict>>

\* What an upstream of status 200 holds, when model m ran: its answer, or no
\* content at all, which every backend passes on as it is.
Contents(m) == {Says(m), << >>}

\* Mutant: the upstream's model is noted after the advertised name is put over it.
ZeroGReply_Masked(r, m, text) == Reply(200, text, "0g", Profiled(r).advertised)

\* The upstream's answer, with the model it reported under its own field.
ZeroGReply(r, m, text) == Reply(200, text, "0g", m)

\* completeViaBroker: the service it finds serves a model of its own choice; the
\* attestation counts when the SDK verifies it and the service runs in a TEE.
\* Without a wallet, or when anything throws, the router is next.
Broker(r) ==
  /\ reach[r] = "broker"
  /\ \/ /\ Env(r).broker = "on"
        /\ \E m \in {Small, ZeroG}, teeML \in BOOLEAN, valid \in BOOLEAN : \E text \in Contents(m) :
             Answers(r, [ZeroGReply(r, m, text) EXCEPT !.tee = valid /\ teeML])
     \/ Go(r, "router") /\ UNCHANGED reply
  /\ UNCHANGED <<seller, prompt, verdict>>

\* Mutant: an error of the router is not caught.
RouterFails_Throws(r) == Answers(r, [NoReply EXCEPT !.status = 502])

RouterFails(r) == Answers(r, Canned(r))

\* A header counts when the verified mode was asked for; nothing checks it.
RouterAttests(r, header) == header /\ Env(r).verified

\* completeViaRouter; no key or any error ends in the canned answer.
Router(r) ==
  /\ reach[r] = "router"
  /\ \/ /\ Env(r).key
        /\ \E header \in BOOLEAN, text \in Contents(Profiled(r).actual) :
             Answers(r, [ZeroGReply(r, Profiled(r).actual, text) EXCEPT !.tee = RouterAttests(r, header)])
     \/ RouterFails(r)
  /\ UNCHANGED <<seller, prompt, verdict>>

\* groq.ts: the model that is really served, under the advertised name; an
\* error is thrown and answered with 502.
Groq(r) ==
  /\ reach[r] = "groq"
  /\ \/ \E text \in Contents(Profiled(r).actual) : Answers(r, Reply(200, text, "groq", None))
     \/ Answers(r, [NoReply EXCEPT !.status = 502])
  /\ UNCHANGED <<seller, prompt, verdict>>

--------------------------------------------------------------------------------
(* The verifier.                                                           *)

\* Mutant: words are compared, not pairs of words.
createWordBigrams_Words(t) == {t[i] : i \in DOMAIN t}

createWordBigrams(t) == {<<t[i], t[i + 1]>> : i \in 1..(Len(t) - 1)}

\* jaccardSimilarity >= DEFAULT_SIMILARITY_THRESHOLD
Similar(left, right) ==
  100 * Cardinality(left \cap right) >= 35 * Cardinality(left \cup right)

\* ask: an answer that came, was accepted and holds a text.
Intact(rep) == rep.status = 200 /\ rep.text # << >>

\* Two intact answers of two words at least are compared.
classifyReplayOutcomes(a, w) ==
  IF ~Intact(a) \/ ~Intact(w) \/ Len(a.text) < 2 \/ Len(w.text) < 2 THEN "inconclusive"
  ELSE IF Similar(createWordBigrams(a.text), createWordBigrams(w.text)) THEN "passed"
  ELSE "divergent"

Classify ==
  /\ verdict = None /\ \A r \in Roles : reach[r] = "done"
  /\ verdict' = classifyReplayOutcomes(reply["accused"], reply["witness"])
  /\ UNCHANGED <<seller, prompt, reach, reply>>

ReplayNext ==
  \/ \E r \in Roles : Unpaid(r) \/ Dispatch(r) \/ Broker(r) \/ Router(r) \/ Groq(r)
  \/ Classify

ReplaySpec == ReplayInit /\ [][ReplayNext]_replayVars

--------------------------------------------------------------------------------
\* Whatever fails on the way to 0G, a paid request is answered with a text
\* (zerog.ts:14, "any error": the buyer has paid by then): the one answer without
\* a text is one that 0G itself gave, and it says so.
ZeroGErrorsFallBack ==
  \A r \in Roles : Profiled(r).backend = "0g" /\ reach[r] = "done" /\ reply[r].status # 402 =>
    reply[r].status = 200 /\ (reply[r].text = << >> => reply[r].servedBy = "0g")

\* Whatever path an answer took, its provenance is that of the text in it
\* (types.ts:14-15, 31-32): the canned bank is labelled so, and an upstream model
\* is named only by 0G and is the one that answered.
ProvenanceIsTrue ==
  \A r \in Roles : reply[r].text # << >> =>
    /\ reply[r].servedBy = "canned" <=> reply[r].text \in {Good[prompt], Cheap[prompt]}
    /\ reply[r].upstream # None => reply[r].servedBy = "0g" /\ reply[r].text = Says(reply[r].upstream)

\* An audit clears only answers that are the same: no cheat, of a model or of
\* the canned bank, comes within the similarity threshold of an honest answer.
OnlyLikeAnswersPass == verdict = "passed" => reply["accused"].text = reply["witness"].text

\* verification.ts:4-6, "so a flaky provider is never mistaken for a cheating
\* one": two providers that run the same profile in the same environment, and
\* serve what they advertise, are not found to diverge.
FlakyIsNotCheating ==
  seller["accused"] = seller["witness"] /\ Env("accused").broker = "off" => verdict # "divergent"
================================================================================
