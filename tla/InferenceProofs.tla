-------------------------- MODULE InferenceProofs --------------------------
(***************************************************************************)
(* Theorems about the answers of a provider, for every profile and every   *)
(* environment of every bring-your-own model.                              *)
(***************************************************************************)
EXTENDS Inference, FiniteSetTheorems, TLAPS

-----------------------------------------------------------------------------
(* The canned bank.                                                        *)

LEMMA PromptIsInTheBank ==
  ASSUME NEW p \in Prompts
  PROVE  p \in {"default", "capital", "ethereum", "x402", "math", "haiku"}
<1>1. DOMAIN Good = {"default", "capital", "ethereum", "x402", "math", "haiku"}
  BY DEF Good
<1>2. QED
  BY <1>1, PromptsAssumption

\* No entry of the bank is empty, and none is what a live model answers.
LEMMA BankIsNotLive ==
  ASSUME NEW p \in Prompts, NEW m
  PROVE  /\ Good[p] # << >> /\ Cheap[p] # << >>
         /\ <<m, p, m>> # << >> /\ <<m, p, m>> # Good[p] /\ <<m, p, m>> # Cheap[p]
<1>1. CASE p = "default"
  BY <1>1 DEF Good, Cheap
<1>2. CASE p = "capital"
  BY <1>2 DEF Good, Cheap
<1>3. CASE p = "ethereum"
  BY <1>3 DEF Good, Cheap
<1>4. CASE p = "x402"
  BY <1>4 DEF Good, Cheap
<1>5. CASE p = "math"
  BY <1>5 DEF Good, Cheap
<1>6. CASE p = "haiku"
  BY <1>6 DEF Good, Cheap
<1>7. QED
  BY <1>1, <1>2, <1>3, <1>4, <1>5, <1>6, PromptIsInTheBank

-----------------------------------------------------------------------------
(* The invariant: a reply is written once, when the call it waited for is  *)
(* over, and what is written then is what both properties ask.             *)

TrueReply(r, rep) ==
  /\ rep.text # << >> =>
       /\ rep.servedBy = "canned" <=> rep.text \in {Good[prompt], Cheap[prompt]}
       /\ rep.upstream # None => rep.servedBy = "0g" /\ rep.text = Says(rep.upstream)
  /\ Profiled(r).backend = "0g" =>
       rep.status = 402 \/ (rep.status = 200 /\ (rep.text = << >> => rep.servedBy = "0g"))

ReplyInv ==
  /\ prompt \in Prompts
  /\ reach = [r \in Roles |-> reach[r]]
  /\ reply = [r \in Roles |-> reply[r]]
  /\ \A r \in Roles : reach[r] # "done" => reply[r] = NoReply
  /\ \A r \in Roles : reach[r] = "done" => TrueReply(r, reply[r])
  /\ \A r \in Roles : reach[r] = "groq" => Profiled(r).backend = "groq"

\* An answer that is a true reply keeps the invariant.
LEMMA AnswersKeep ==
  ASSUME ReplyInv, NEW r \in Roles, NEW rep, TrueReply(r, rep), Answers(r, rep),
         UNCHANGED <<seller, prompt>>
  PROVE  ReplyInv'
<1>1. reach' = [reach EXCEPT ![r] = "done"] /\ reply' = [reply EXCEPT ![r] = rep]
  BY DEF Answers, Go
<1>2. \A q \in Roles : /\ reach'[q] = IF q = r THEN "done" ELSE reach[q]
                       /\ reply'[q] = IF q = r THEN rep ELSE reply[q]
  BY <1>1 DEF ReplyInv
<1>3. reach' = [q \in Roles |-> reach'[q]] /\ reply' = [q \in Roles |-> reply'[q]]
  BY <1>1 DEF ReplyInv
<1>4. ASSUME NEW q \in Roles, reach'[q] # "done"
      PROVE  reply'[q] = NoReply
  BY <1>2, <1>4 DEF ReplyInv
<1>5. ASSUME NEW q \in Roles, reach'[q] = "done"
      PROVE  TrueReply(q, reply[q])' 
  <2>1. CASE q = r
    BY <2>1, <1>2 DEF TrueReply, Profiled, Says
  <2>2. CASE q # r
    <3>1. reach[q] = "done" /\ reply'[q] = reply[q]
      BY <2>2, <1>2, <1>5
    <3>2. TrueReply(q, reply[q])
      BY <3>1 DEF ReplyInv
    <3>3. QED
      BY <3>1, <3>2 DEF TrueReply, Profiled, Says
  <2>3. QED
    BY <2>1, <2>2
<1>6. ASSUME NEW q \in Roles, reach'[q] = "groq"
      PROVE  (Profiled(q).backend)' = "groq"
  BY <1>2, <1>6 DEF ReplyInv, Profiled
<1>7. QED
  BY <1>3, <1>4, <1>5, <1>6 DEF ReplyInv

\* So does going on to another call.
LEMMA GoKeeps ==
  ASSUME ReplyInv, NEW r \in Roles, NEW where, where # "done", reach[r] # "done", Go(r, where),
         where = "groq" => Profiled(r).backend = "groq",
         UNCHANGED <<seller, prompt, reply>>
  PROVE  ReplyInv'
<1>1. reach' = [reach EXCEPT ![r] = where]
  BY DEF Go
<1>2. \A q \in Roles : reach'[q] = IF q = r THEN where ELSE reach[q]
  BY <1>1 DEF ReplyInv
<1>3. reach' = [q \in Roles |-> reach'[q]]
  BY <1>1 DEF ReplyInv
<1>4. ASSUME NEW q \in Roles, reach'[q] # "done"
      PROVE  reply'[q] = NoReply
  BY <1>2, <1>4 DEF ReplyInv
<1>5. ASSUME NEW q \in Roles, reach'[q] = "done"
      PROVE  TrueReply(q, reply[q])'
  <2>1. TrueReply(q, reply[q])
    BY <1>2, <1>5 DEF ReplyInv
  <2>2. QED
    BY <2>1 DEF TrueReply, Profiled, Says
<1>6. ASSUME NEW q \in Roles, reach'[q] = "groq"
      PROVE  (Profiled(q).backend)' = "groq"
  BY <1>2, <1>6 DEF ReplyInv, Profiled
<1>7. QED
  BY <1>3, <1>4, <1>5, <1>6 DEF ReplyInv

-----------------------------------------------------------------------------
(* What each path writes is a true reply.                                  *)

LEMMA CannedIsTrue ==
  ASSUME ReplyInv, NEW r \in Roles
  PROVE  TrueReply(r, Canned(r))
<1>1. Good[prompt] # << >> /\ Cheap[prompt] # << >>
  BY BankIsNotLive DEF ReplyInv
<1> DEFINE text == (IF Profiled(r).cannedCheat THEN Cheap ELSE Good)[prompt]
<1>2. text \in {Good[prompt], Cheap[prompt]} /\ text # << >>
  BY <1>1
<1>3. Canned(r) = Reply(200, text, "canned", None)
  BY DEF Canned
<1> HIDE DEF text
<1>4. QED
  BY <1>2, <1>3 DEF TrueReply, Reply

\* A status without a text is one for the paywall, and for a provider that is
\* not on 0G.
LEMMA SilenceIsTrue ==
  ASSUME NEW r \in Roles, NEW status, status = 402 \/ Profiled(r).backend # "0g"
  PROVE  TrueReply(r, [NoReply EXCEPT !.status = status])
BY DEF TrueReply, NoReply, Reply

\* What came from 0G is named after the model that ran, with or without a text.
LEMMA UpstreamIsTrue ==
  ASSUME ReplyInv, NEW r \in Roles, NEW m, NEW rep, rep.text \in Contents(m), rep.servedBy = "0g",
         rep.upstream = m, rep.status = 200
  PROVE  TrueReply(r, rep)
<1>1. rep.text = << >> \/ rep.text = Says(m)
  BY DEF Contents
<1>2. rep.text # << >> => rep.text \notin {Good[prompt], Cheap[prompt]}
  BY <1>1, BankIsNotLive DEF ReplyInv, Says
<1>3. QED
  BY <1>1, <1>2 DEF TrueReply

-----------------------------------------------------------------------------
(* One lemma per action.                                                   *)

LEMMA DispatchKeeps ==
  ASSUME ReplyInv, NEW r \in Roles, Dispatch(r)
  PROVE  ReplyInv'
<1> DEFINE backend == Profiled(r).backend
<1>1. reach[r] = "gate" /\ UNCHANGED <<seller, prompt>>
  BY DEF Dispatch
<1>2. CASE backend = "0g" /\ Go(r, IF Env(r).broker = "off" THEN "router" ELSE "broker") /\ UNCHANGED reply
  BY <1>1, <1>2, GoKeeps
<1>3. CASE backend = "groq" /\ Go(r, "groq") /\ UNCHANGED reply
  BY <1>1, <1>3, GoKeeps
<1>4. CASE Answers(r, Canned(r))
  BY <1>1, <1>4, AnswersKeep, CannedIsTrue
<1>5. CASE backend = "ollama" /\ Answers(r, [NoReply EXCEPT !.status = 200])
  BY <1>1, <1>5, AnswersKeep, SilenceIsTrue
<1>6. QED
  BY <1>2, <1>3, <1>4, <1>5 DEF Dispatch

LEMMA BrokerKeeps ==
  ASSUME ReplyInv, NEW r \in Roles, Broker(r)
  PROVE  ReplyInv'
<1>1. reach[r] = "broker" /\ UNCHANGED <<seller, prompt>>
  BY DEF Broker
<1> DEFINE rep(m, teeML, valid, text) ==
      [ZeroGReply(r, m, text) EXCEPT !.tee = valid /\ teeML]
<1>2. ASSUME NEW m, NEW teeML \in BOOLEAN, NEW valid \in BOOLEAN, NEW text \in Contents(m),
             Answers(r, rep(m, teeML, valid, text))
      PROVE  ReplyInv'
  <2>1. /\ rep(m, teeML, valid, text).text = text /\ rep(m, teeML, valid, text).servedBy = "0g"
        /\ rep(m, teeML, valid, text).upstream = m /\ rep(m, teeML, valid, text).status = 200
    BY DEF ZeroGReply, Reply
  <2> HIDE DEF rep
  <2>2. TrueReply(r, rep(m, teeML, valid, text))
    BY <2>1, UpstreamIsTrue
  <2>3. QED
    BY <1>1, <1>2, <2>2, AnswersKeep
<1>3. CASE Go(r, "router") /\ UNCHANGED reply
  BY <1>1, <1>3, GoKeeps
<1>4. \/ \E m \in {Small, ZeroG}, teeML \in BOOLEAN, valid \in BOOLEAN : \E text \in Contents(m) :
           Answers(r, rep(m, teeML, valid, text))
      \/ Go(r, "router") /\ UNCHANGED reply
  BY DEF Broker
<1> HIDE DEF rep
<1>5. QED
  BY <1>2, <1>3, <1>4

LEMMA RouterKeeps ==
  ASSUME ReplyInv, NEW r \in Roles, Router(r)
  PROVE  ReplyInv'
<1>1. reach[r] = "router" /\ UNCHANGED <<seller, prompt>>
  BY DEF Router
<1> DEFINE m == Profiled(r).actual
           rep(header, text) == [ZeroGReply(r, m, text) EXCEPT !.tee = RouterAttests(r, header)]
<1>2. ASSUME NEW header \in BOOLEAN, NEW text \in Contents(m), Answers(r, rep(header, text))
      PROVE  ReplyInv'
  <2>1. /\ rep(header, text).text = text /\ rep(header, text).servedBy = "0g"
        /\ rep(header, text).upstream = m /\ rep(header, text).status = 200
    BY DEF ZeroGReply, Reply
  <2> HIDE DEF m, rep
  <2>2. TrueReply(r, rep(header, text))
    BY <2>1, UpstreamIsTrue
  <2>3. QED
    BY <1>1, <1>2, <2>2, AnswersKeep
<1>3. CASE RouterFails(r)
  BY <1>1, <1>3, AnswersKeep, CannedIsTrue DEF RouterFails
<1>4. QED
  BY <1>2, <1>3 DEF Router

LEMMA GroqKeeps ==
  ASSUME ReplyInv, NEW r \in Roles, Groq(r)
  PROVE  ReplyInv'
<1>1. reach[r] = "groq" /\ UNCHANGED <<seller, prompt>>
  BY DEF Groq
<1> DEFINE m == Profiled(r).actual
<1>2. ASSUME NEW text \in Contents(m), Answers(r, Reply(200, text, "groq", None))
      PROVE  ReplyInv'
  <2>1. text # << >> => text \notin {Good[prompt], Cheap[prompt]}
    BY <1>2, BankIsNotLive DEF ReplyInv, Contents, Says
  <2> HIDE DEF m
  <2>2. Profiled(r).backend = "groq"
    BY <1>1 DEF ReplyInv
  <2>3. TrueReply(r, Reply(200, text, "groq", None))
    BY <2>1, <2>2 DEF TrueReply, Reply
  <2>4. QED
    BY <1>1, <1>2, <2>3, AnswersKeep
<1>3. CASE Answers(r, [NoReply EXCEPT !.status = 502])
  <2>1. Profiled(r).backend # "0g"
    BY <1>1 DEF ReplyInv
  <2>2. QED
    BY <1>1, <1>3, <2>1, AnswersKeep, SilenceIsTrue
<1>4. QED
  BY <1>2, <1>3 DEF Groq

LEMMA ReplyInvInit == ReplayInit => ReplyInv
BY DEF ReplayInit, ReplyInv

LEMMA ReplyInvStep == ReplyInv /\ [ReplayNext]_replayVars => ReplyInv'
<1> SUFFICES ASSUME ReplyInv, [ReplayNext]_replayVars PROVE ReplyInv'
  OBVIOUS
<1>1. ASSUME NEW r \in Roles, Unpaid(r) PROVE ReplyInv'
  BY <1>1, AnswersKeep, SilenceIsTrue DEF Unpaid
<1>2. ASSUME NEW r \in Roles, Dispatch(r) PROVE ReplyInv'
  BY <1>2, DispatchKeeps
<1>3. ASSUME NEW r \in Roles, Broker(r) PROVE ReplyInv'
  BY <1>3, BrokerKeeps
<1>4. ASSUME NEW r \in Roles, Router(r) PROVE ReplyInv'
  BY <1>4, RouterKeeps
<1>5. ASSUME NEW r \in Roles, Groq(r) PROVE ReplyInv'
  BY <1>5, GroqKeeps
<1>6. CASE UNCHANGED <<seller, prompt, reach, reply>>
  BY <1>6 DEF ReplyInv, TrueReply, Profiled, Env, Says
<1>7. QED
  BY <1>1, <1>2, <1>3, <1>4, <1>5, <1>6 DEF ReplayNext, Classify, replayVars

LEMMA ReplyInvAlways == ReplaySpec => []ReplyInv
BY ReplyInvInit, ReplyInvStep, PTL DEF ReplaySpec

-----------------------------------------------------------------------------
(* The similarity of two texts.                                            *)

LEMMA BigramsAreFinite ==
  ASSUME NEW t, Len(t) \in Nat
  PROVE  IsFiniteSet(createWordBigrams(t))
<1> DEFINE n == Len(t) - 1
           pairs == [i \in 1..n |-> <<t[i], t[i + 1]>>]
<1>1. n \in Int /\ createWordBigrams(t) = {<<t[i], t[i + 1]>> : i \in 1..n}
  BY DEF createWordBigrams
<1>2. pairs \in Surjection(1..n, createWordBigrams(t))
  BY <1>1 DEF Surjection
<1>3. IsFiniteSet(1..n)
  BY <1>1, FS_Interval
<1>4. QED
  BY <1>2, <1>3, FS_Surjection

LEMMA SimilarIsSymmetric ==
  ASSUME NEW L, NEW R
  PROVE  Similar(L, R) <=> Similar(R, L)
<1>1. L \cap R = R \cap L /\ L \cup R = R \cup L
  OBVIOUS
<1>2. QED
  BY <1>1 DEF Similar

\* Six distinct things.
LEMMA SixAreSix ==
  ASSUME NEW a, NEW b, NEW c, NEW d, NEW e, NEW f,
         b # a, c \notin {a, b}, d \notin {a, b, c}, e \notin {a, b, c, d}, f \notin {a, b, c, d, e}
  PROVE  IsFiniteSet({a, b, c, d, e, f}) /\ Cardinality({a, b, c, d, e, f}) = 6
<1>1. IsFiniteSet({a}) /\ Cardinality({a}) = 1
  BY FS_Singleton
<1> DEFINE S2 == {a, b}
           S3 == {a, b, c}
           S4 == {a, b, c, d}
           S5 == {a, b, c, d, e}
           S6 == {a, b, c, d, e, f}
<1>2. S2 = {a} \cup {b} /\ S3 = S2 \cup {c} /\ S4 = S3 \cup {d} /\ S5 = S4 \cup {e} /\ S6 = S5 \cup {f}
  OBVIOUS
<1>3. b \notin {a} /\ c \notin S2 /\ d \notin S3 /\ e \notin S4 /\ f \notin S5
  OBVIOUS
<1> HIDE DEF S2, S3, S4, S5, S6
<1>4. IsFiniteSet(S2) /\ Cardinality(S2) = 2
  BY <1>1, <1>2, <1>3, FS_AddElement
<1>5. IsFiniteSet(S3) /\ Cardinality(S3) = 3
  BY <1>2, <1>3, <1>4, FS_AddElement
<1>6. IsFiniteSet(S4) /\ Cardinality(S4) = 4
  BY <1>2, <1>3, <1>5, FS_AddElement
<1>7. IsFiniteSet(S5) /\ Cardinality(S5) = 5
  BY <1>2, <1>3, <1>6, FS_AddElement
<1>8. IsFiniteSet(S6) /\ Cardinality(S6) = 6
  BY <1>2, <1>3, <1>7, FS_AddElement
<1>9. QED
  BY <1>8 DEF S6

LEMMA ThreeAreThree ==
  ASSUME NEW a, NEW b, NEW c, b # a, c \notin {a, b}
  PROVE  IsFiniteSet({a, b, c}) /\ Cardinality({a, b, c}) = 3
<1>1. IsFiniteSet({a}) /\ Cardinality({a}) = 1
  BY FS_Singleton
<1>2. {a, b} = {a} \cup {b} /\ {a, b, c} = {a, b} \cup {c}
  OBVIOUS
<1>3. IsFiniteSet({a, b}) /\ Cardinality({a, b}) = 2
  BY <1>1, <1>2, FS_AddElement
<1>4. QED
  BY <1>2, <1>3, FS_AddElement

\* Two pairs of words in common are too few for six, one for three, none for
\* one: 35 % of six is more than two.
LEMMA TooFewInCommon ==
  ASSUME NEW L, NEW R, IsFiniteSet(L), IsFiniteSet(R), NEW C, IsFiniteSet(C), L \cap R \subseteq C,
         NEW K, IsFiniteSet(K), K \subseteq L \cup R, Cardinality(K) > 0,
         Cardinality(K) >= 3 * Cardinality(C)
  PROVE  ~Similar(L, R)
<1>1. IsFiniteSet(L \cup R) /\ IsFiniteSet(L \cap R)
  BY FS_Union, FS_Intersection
<1>2. Cardinality(K) <= Cardinality(L \cup R)
  BY <1>1, FS_Subset
<1>3. Cardinality(L \cap R) <= Cardinality(C)
  BY FS_Subset
<1>4. /\ Cardinality(L \cup R) \in Nat /\ Cardinality(L \cap R) \in Nat
      /\ Cardinality(K) \in Nat /\ Cardinality(C) \in Nat
  BY <1>1, FS_CardinalityType
<1>5. QED
  BY <1>2, <1>3, <1>4 DEF Similar

LEMMA TwoInSix ==
  ASSUME NEW L, NEW R, IsFiniteSet(L), IsFiniteSet(R), NEW x, NEW y, L \cap R \subseteq {x, y},
         NEW K, IsFiniteSet(K), Cardinality(K) = 6, K \subseteq L \cup R
  PROVE  ~Similar(L, R)
<1>1. IsFiniteSet({x, y}) /\ Cardinality({x, y}) <= 2
  <2> DEFINE X == {x}
  <2>1. IsFiniteSet(X) /\ Cardinality(X) = 1
    BY FS_Singleton
  <2>2. {x, y} = X \cup {y}
    OBVIOUS
  <2> HIDE DEF X
  <2>3. /\ IsFiniteSet(X \cup {y})
        /\ Cardinality(X \cup {y}) = IF y \in X THEN Cardinality(X) ELSE Cardinality(X) + 1
    BY <2>1, FS_AddElement
  <2>4. QED
    BY <2>1, <2>2, <2>3
<1> DEFINE C == {x, y}
<1>2. IsFiniteSet(C) /\ Cardinality(C) \in Nat /\ Cardinality(C) <= 2 /\ L \cap R \subseteq C
  BY <1>1, FS_CardinalityType
<1> HIDE DEF C
<1>3. Cardinality(K) > 0 /\ Cardinality(K) >= 3 * Cardinality(C)
  BY <1>2
<1>4. QED
  BY <1>2, <1>3, TooFewInCommon

LEMMA OneInThree ==
  ASSUME NEW L, NEW R, IsFiniteSet(L), IsFiniteSet(R), NEW x, L \cap R \subseteq {x},
         NEW a, NEW b, NEW c, {a, b, c} \subseteq L \cup R, b # a, c \notin {a, b}
  PROVE  ~Similar(L, R)
<1> DEFINE K == {a, b, c}
           C == {x}
<1>1. IsFiniteSet(K) /\ Cardinality(K) = 3 /\ K \subseteq L \cup R
  BY ThreeAreThree
<1>2. IsFiniteSet(C) /\ Cardinality(C) = 1 /\ L \cap R \subseteq C
  BY FS_Singleton
<1> HIDE DEF K, C
<1>3. QED
  BY <1>1, <1>2, TooFewInCommon

LEMMA NothingInCommon ==
  ASSUME NEW L, NEW R, IsFiniteSet(L), IsFiniteSet(R), L \cap R = {}, NEW a, a \in L \cup R
  PROVE  ~Similar(L, R)
<1>1. IsFiniteSet({a}) /\ Cardinality({a}) = 1 /\ {a} \subseteq L \cup R
  BY FS_Singleton
<1>2. IsFiniteSet({}) /\ Cardinality({}) = 0 /\ L \cap R \subseteq {}
  BY FS_EmptySet
<1> DEFINE K == {a}
           C == {}
<1>3. IsFiniteSet(K) /\ Cardinality(K) = 1 /\ K \subseteq L \cup R
      /\ IsFiniteSet(C) /\ Cardinality(C) = 0 /\ L \cap R \subseteq C
  BY <1>1, <1>2
<1> HIDE DEF K, C
<1>4. Cardinality(K) > 0 /\ Cardinality(K) >= 3 * Cardinality(C)
  BY <1>3
<1>5. QED
  BY <1>3, <1>4, TooFewInCommon

-----------------------------------------------------------------------------
(* The texts of the bank, word by word, and what a live model says.        *)

Bank == {"default", "capital", "ethereum", "x402", "math", "haiku"}

LEMMA BankHasWords ==
  ASSUME NEW p \in Bank
  PROVE  /\ Len(Good[p]) \in Nat /\ Len(Good[p]) >= 2 /\ Len(Cheap[p]) \in Nat
         /\ Len(Cheap[p]) = 1 <=> p = "default"
         /\ Len(Cheap[p]) >= 1
         /\ IsFiniteSet(createWordBigrams(Good[p])) /\ IsFiniteSet(createWordBigrams(Cheap[p]))
<1>1. /\ Len(Good[p]) \in Nat /\ Len(Good[p]) >= 2 /\ Len(Cheap[p]) \in Nat
      /\ Len(Cheap[p]) = 1 <=> p = "default"
      /\ Len(Cheap[p]) >= 1
  BY DEF Good, Cheap, Bank
<1>2. QED
  BY <1>1, BigramsAreFinite

LiveText(m, p) == <<m, p, m>>

LEMMA LiveBigrams ==
  ASSUME NEW m, NEW p
  PROVE  /\ createWordBigrams(LiveText(m, p)) = {<<m, p>>, <<p, m>>}
         /\ IsFiniteSet(createWordBigrams(LiveText(m, p)))
<1>1. Len(LiveText(m, p)) = 3
  BY DEF LiveText
<1>2. createWordBigrams(LiveText(m, p)) = {<<m, p>>, <<p, m>>}
  BY DEF LiveText, createWordBigrams
<1>3. IsFiniteSet(createWordBigrams(LiveText(m, p)))
  <2> DEFINE t == LiveText(m, p)
  <2>1. Len(t) \in Nat
    BY <1>1
  <2> HIDE DEF t
  <2>2. IsFiniteSet(createWordBigrams(t))
    BY <2>1, BigramsAreFinite
  <2>3. QED
    BY <2>2 DEF t
<1>4. QED
  BY <1>2, <1>3

\* The cheap answer of each prompt is not similar to the good one.
LEMMA CheapIsNotGood ==
  ASSUME NEW p \in Bank, p # "default"
  PROVE  ~Similar(createWordBigrams(Cheap[p]), createWordBigrams(Good[p]))
<1> DEFINE L == createWordBigrams(Cheap[p])
           R == createWordBigrams(Good[p])
<1>1. IsFiniteSet(L) /\ IsFiniteSet(R)
  BY BankHasWords
<1>2. CASE p = "capital"
  <2>1. L \cap R \subseteq {<<"the", "capital">>, <<"of", "portugal">>}
    BY <1>2 DEF Good, Cheap, createWordBigrams
  <2> DEFINE a == <<"lisbon", "is">>
             b == <<"is", "the">>
             c == <<"the", "capital">>
             d == <<"capital", "city">>
             e == <<"city", "of">>
             f == <<"of", "portugal">>
             K == {a, b, c, d, e, f}
  <2>2. K \subseteq L \cup R
    BY <1>2 DEF Cheap, createWordBigrams
  <2>3. b # a /\ c \notin {a, b} /\ d \notin {a, b, c} /\ e \notin {a, b, c, d} /\ f \notin {a, b, c, d, e}
    OBVIOUS
  <2> HIDE DEF a, b, c, d, e, f
  <2>4. IsFiniteSet(K) /\ Cardinality(K) = 6
    BY <2>3, SixAreSix
  <2> HIDE DEF L, R, K
  <2>5. ~Similar(L, R)
    BY <1>1, <2>1, <2>2, <2>4, TwoInSix
  <2>6. QED
    BY <2>5 DEF L, R
<1>3. CASE p = "ethereum"
  <2>1. L \cap R \subseteq {<<"ethereum", "is">>, <<"is", "a">>}
    BY <1>3 DEF Good, Cheap, createWordBigrams
  <2> DEFINE a == <<"ethereum", "is">>
             b == <<"is", "a">>
             c == <<"a", "decentralized">>
             d == <<"decentralized", "blockchain">>
             e == <<"blockchain", "platform">>
             f == <<"platform", "featuring">>
             K == {a, b, c, d, e, f}
  <2>2. K \subseteq L \cup R
    BY <1>3 DEF Good, createWordBigrams
  <2>3. b # a /\ c \notin {a, b} /\ d \notin {a, b, c} /\ e \notin {a, b, c, d} /\ f \notin {a, b, c, d, e}
    OBVIOUS
  <2> HIDE DEF a, b, c, d, e, f
  <2>4. IsFiniteSet(K) /\ Cardinality(K) = 6
    BY <2>3, SixAreSix
  <2> HIDE DEF L, R, K
  <2>5. ~Similar(L, R)
    BY <1>1, <2>1, <2>2, <2>4, TwoInSix
  <2>6. QED
    BY <2>5 DEF L, R
<1>4. CASE p = "x402"
  <2>1. L \cap R \subseteq {<<"x402", "is">>, <<"is", "an">>}
    BY <1>4 DEF Good, Cheap, createWordBigrams
  <2> DEFINE a == <<"x402", "is">>
             b == <<"is", "an">>
             c == <<"an", "open">>
             d == <<"open", "payment">>
             e == <<"payment", "protocol">>
             f == <<"protocol", "by">>
             K == {a, b, c, d, e, f}
  <2>2. K \subseteq L \cup R
    BY <1>4 DEF Good, createWordBigrams
  <2>3. b # a /\ c \notin {a, b} /\ d \notin {a, b, c} /\ e \notin {a, b, c, d} /\ f \notin {a, b, c, d, e}
    OBVIOUS
  <2> HIDE DEF a, b, c, d, e, f
  <2>4. IsFiniteSet(K) /\ Cardinality(K) = 6
    BY <2>3, SixAreSix
  <2> HIDE DEF L, R, K
  <2>5. ~Similar(L, R)
    BY <1>1, <2>1, <2>2, <2>4, TwoInSix
  <2>6. QED
    BY <2>5 DEF L, R
<1>5. CASE p = "math"
  <2>1. L \cap R = {} /\ <<"the", "answer">> \in L \cup R
    BY <1>5 DEF Good, Cheap, createWordBigrams
  <2> HIDE DEF L, R
  <2>2. ~Similar(L, R)
    BY <1>1, <2>1, NothingInCommon
  <2>3. QED
    BY <2>2 DEF L, R
<1>6. CASE p = "haiku"
  <2>1. L \cap R = {} /\ <<"payments", "are">> \in L \cup R
    BY <1>6 DEF Good, Cheap, createWordBigrams
  <2> HIDE DEF L, R
  <2>2. ~Similar(L, R)
    BY <1>1, <2>1, NothingInCommon
  <2>3. QED
    BY <2>2 DEF L, R
<1>7. QED
  BY <1>2, <1>3, <1>4, <1>5, <1>6 DEF Bank

\* No model's answer is similar to a good canned one, whatever its name.
LEMMA LiveIsNotGood ==
  ASSUME NEW p \in Bank, NEW m
  PROVE  ~Similar(createWordBigrams(LiveText(m, p)), createWordBigrams(Good[p]))
<1> DEFINE L == createWordBigrams(LiveText(m, p))
           R == createWordBigrams(Good[p])
<1>1. IsFiniteSet(L) /\ IsFiniteSet(R) /\ L = {<<m, p>>, <<p, m>>}
  BY BankHasWords, LiveBigrams
<1> HIDE DEF L
<1>2. CASE p = "capital"
  <2>1. L \cap R \subseteq {<<"the", "capital">>, <<"capital", "of">>}
    BY <1>1, <1>2 DEF Good, createWordBigrams
  <2> DEFINE a == <<"the", "capital">>
             b == <<"capital", "of">>
             c == <<"of", "portugal">>
             d == <<"portugal", "is">>
             e == <<"is", "lisbon">>
             f == <<"lisbon", "located">>
             K == {a, b, c, d, e, f}
  <2>2. K \subseteq L \cup R
    BY <1>2 DEF Good, createWordBigrams
  <2>3. b # a /\ c \notin {a, b} /\ d \notin {a, b, c} /\ e \notin {a, b, c, d} /\ f \notin {a, b, c, d, e}
    OBVIOUS
  <2> HIDE DEF a, b, c, d, e, f
  <2>4. IsFiniteSet(K) /\ Cardinality(K) = 6
    BY <2>3, SixAreSix
  <2> HIDE DEF R, K
  <2>5. ~Similar(L, R)
    BY <1>1, <2>1, <2>2, <2>4, TwoInSix
  <2>6. QED
    BY <2>5 DEF L, R
<1>3. CASE p = "ethereum"
  <2>1. L \cap R \subseteq {<<"ethereum", "is">>}
    BY <1>1, <1>3 DEF Good, createWordBigrams
  <2>2. {<<"ethereum", "is">>, <<"is", "a">>, <<"a", "decentralized">>} \subseteq L \cup R
    BY <1>3 DEF Good, createWordBigrams
  <2> HIDE DEF R
  <2>3. ~Similar(L, R)
    BY <1>1, <2>1, <2>2, OneInThree
  <2>4. QED
    BY <2>3 DEF L, R
<1>4. CASE p = "x402"
  <2>1. L \cap R \subseteq {<<"x402", "is">>}
    BY <1>1, <1>4 DEF Good, createWordBigrams
  <2>2. {<<"x402", "is">>, <<"is", "an">>, <<"an", "open">>} \subseteq L \cup R
    BY <1>4 DEF Good, createWordBigrams
  <2> HIDE DEF R
  <2>3. ~Similar(L, R)
    BY <1>1, <2>1, <2>2, OneInThree
  <2>4. QED
    BY <2>3 DEF L, R
<1>5. CASE p \in {"default", "math", "haiku"}
  <2>1. L \cap R = {} /\ <<m, p>> \in L \cup R
    BY <1>1, <1>5 DEF Good, createWordBigrams
  <2> HIDE DEF R
  <2>2. ~Similar(L, R)
    BY <1>1, <2>1, NothingInCommon
  <2>3. QED
    BY <2>2 DEF L, R
<1>6. QED
  BY <1>2, <1>3, <1>4, <1>5 DEF Bank

LEMMA LiveIsNotCheap ==
  ASSUME NEW p \in Bank, p # "default", NEW m
  PROVE  ~Similar(createWordBigrams(LiveText(m, p)), createWordBigrams(Cheap[p]))
<1> DEFINE L == createWordBigrams(LiveText(m, p))
           R == createWordBigrams(Cheap[p])
<1>1. IsFiniteSet(L) /\ IsFiniteSet(R) /\ L = {<<m, p>>, <<p, m>>}
  BY BankHasWords, LiveBigrams
<1> HIDE DEF L
<1>2. CASE p = "capital"
  <2>1. L \cap R \subseteq {<<"the", "capital">>, <<"capital", "city">>}
    BY <1>1, <1>2 DEF Cheap, createWordBigrams
  <2> DEFINE a == <<"lisbon", "is">>
             b == <<"is", "the">>
             c == <<"the", "capital">>
             d == <<"capital", "city">>
             e == <<"city", "of">>
             f == <<"of", "portugal">>
             K == {a, b, c, d, e, f}
  <2>2. K \subseteq L \cup R
    BY <1>2 DEF Cheap, createWordBigrams
  <2>3. b # a /\ c \notin {a, b} /\ d \notin {a, b, c} /\ e \notin {a, b, c, d} /\ f \notin {a, b, c, d, e}
    OBVIOUS
  <2> HIDE DEF a, b, c, d, e, f
  <2>4. IsFiniteSet(K) /\ Cardinality(K) = 6
    BY <2>3, SixAreSix
  <2> HIDE DEF R, K
  <2>5. ~Similar(L, R)
    BY <1>1, <2>1, <2>2, <2>4, TwoInSix
  <2>6. QED
    BY <2>5 DEF L, R
<1>3. CASE p = "ethereum"
  <2>1. L \cap R \subseteq {<<"ethereum", "is">>}
    BY <1>1, <1>3 DEF Cheap, createWordBigrams
  <2>2. {<<"ethereum", "is">>, <<"is", "a">>, <<"a", "cryptocurrency">>} \subseteq L \cup R
    BY <1>3 DEF Cheap, createWordBigrams
  <2> HIDE DEF R
  <2>3. ~Similar(L, R)
    BY <1>1, <2>1, <2>2, OneInThree
  <2>4. QED
    BY <2>3 DEF L, R
<1>4. CASE p = "x402"
  <2>1. L \cap R \subseteq {<<"x402", "is">>}
    BY <1>1, <1>4 DEF Cheap, createWordBigrams
  <2>2. {<<"x402", "is">>, <<"is", "an">>, <<"an", "http">>} \subseteq L \cup R
    BY <1>4 DEF Cheap, createWordBigrams
  <2> HIDE DEF R
  <2>3. ~Similar(L, R)
    BY <1>1, <2>1, <2>2, OneInThree
  <2>4. QED
    BY <2>3 DEF L, R
<1>5. CASE p = "math"
  <2>1. L \cap R = {} /\ <<m, p>> \in L \cup R
    BY <1>1, <1>5 DEF Cheap, createWordBigrams
  <2> HIDE DEF R
  <2>2. ~Similar(L, R)
    BY <1>1, <2>1, NothingInCommon
  <2>3. QED
    BY <2>2 DEF L, R
<1>6. CASE p = "haiku"
  <2>1. L \cap R \subseteq {<<"a", "haiku">>}
    BY <1>1, <1>6 DEF Cheap, createWordBigrams
  <2>2. {<<"payments", "are">>, <<"are", "cool">>, <<"cool", "blockchain">>} \subseteq L \cup R
    BY <1>6 DEF Cheap, createWordBigrams
  <2> HIDE DEF R
  <2>3. ~Similar(L, R)
    BY <1>1, <2>1, <2>2, OneInThree
  <2>4. QED
    BY <2>3 DEF L, R
<1>7. QED
  BY <1>2, <1>3, <1>4, <1>5, <1>6 DEF Bank

\* Nor are two models' answers to each other.
LEMMA LiveIsNotAnother ==
  ASSUME NEW p, NEW m, NEW n, m # n
  PROVE  ~Similar(createWordBigrams(LiveText(m, p)), createWordBigrams(LiveText(n, p)))
<1> DEFINE L == createWordBigrams(LiveText(m, p))
           R == createWordBigrams(LiveText(n, p))
<1>1. /\ IsFiniteSet(L) /\ IsFiniteSet(R) /\ L = {<<m, p>>, <<p, m>>} /\ R = {<<n, p>>, <<p, n>>}
  BY LiveBigrams
<1> HIDE DEF L, R
<1>2. L \cap R = {} /\ <<m, p>> \in L \cup R
  BY <1>1
<1>3. ~Similar(L, R)
  BY <1>1, <1>2, NothingInCommon
<1>4. QED
  BY <1>3 DEF L, R


-----------------------------------------------------------------------------
(* Where a text comes from: the role's entry of the canned bank, or a      *)
(* model; and a verdict is the comparison of two final answers.            *)

Served == {Big, Small, ZeroG} \cup CustomModels

CannedText(r) == (IF Profiled(r).cannedCheat THEN Cheap ELSE Good)[prompt]

Sourced(r, rep) ==
  \/ rep.servedBy = "canned" /\ rep.text = CannedText(r)
  \/ rep.servedBy # "canned" /\ (rep.text = << >> \/ \E m \in Served : rep.text = Says(m))

SellerInv ==
  /\ \A r \in Roles : Profiled(r) \in Profiles
  /\ Honest(seller["witness"])

AnswerInv ==
  /\ \A r \in Roles : Sourced(r, reply[r])
  /\ verdict # None => /\ \A r \in Roles : reach[r] = "done"
                       /\ verdict = classifyReplayOutcomes(reply["accused"], reply["witness"])

LEMMA SellerInvAlways == ReplaySpec => []SellerInv
<1>1. ReplayInit => SellerInv
  <2> SUFFICES ASSUME ReplayInit PROVE SellerInv
    OBVIOUS
  <2>1. ASSUME NEW r \in Roles PROVE Profiled(r) \in Profiles
    <3>1. seller[r] \in UNION {[profile : {p}, env : Environments(p.backend)] : p \in Profiles}
      BY DEF ReplayInit
    <3>2. PICK p \in Profiles : seller[r] \in [profile : {p}, env : Environments(p.backend)]
      BY <3>1
    <3>3. QED
      BY <3>2 DEF Profiled
  <2>2. QED
    BY <2>1 DEF ReplayInit, SellerInv
<1>2. SellerInv /\ [ReplayNext]_replayVars => SellerInv'
  BY DEF SellerInv, Profiled, ReplayNext, Unpaid, Dispatch, Broker, Router, Groq, Classify, replayVars
<1>3. QED
  BY <1>1, <1>2, PTL DEF ReplaySpec

\* The profiles: the cheat is the one whose canned answers are the cheap ones.
LEMMA OnlyTheCheatIsCheap ==
  ASSUME NEW p \in Profiles
  PROVE  /\ p.actual \in Served
         /\ p.cannedCheat <=> p.actual # p.advertised
<1>1. CASE p \in {Profile(Big, Big, "groq", FALSE), Profile(Small, Small, "groq", FALSE),
               Profile(Big, Small, "groq", TRUE), Profile(ZeroG, ZeroG, "0g", FALSE)}
  <2>1. Big # Small
    BY DEF Big, Small
  <2>2. QED
    BY <1>1, <2>1 DEF Profile, Served
<1>2. ASSUME NEW m \in CustomModels, NEW b, p = Profile(m, m, b, FALSE)
      PROVE  p.actual \in Served /\ (p.cannedCheat <=> p.actual # p.advertised)
  BY <1>2 DEF Profile, Served
<1>3. \/ p \in {Profile(Big, Big, "groq", FALSE), Profile(Small, Small, "groq", FALSE),
             Profile(Big, Small, "groq", TRUE), Profile(ZeroG, ZeroG, "0g", FALSE)}
      \/ \E m \in CustomModels, b \in {"0g", "groq", "canned", "ollama"} : p = Profile(m, m, b, FALSE)
  BY DEF Profiles, Profile
<1>4. QED
  BY <1>1, <1>2, <1>3

LEMMA AnswersAreSourced ==
  ASSUME ReplyInv, AnswerInv, NEW r \in Roles, reach[r] # "done", NEW rep, Sourced(r, rep),
         Answers(r, rep), UNCHANGED <<seller, prompt, verdict>>
  PROVE  AnswerInv'
<1>1. verdict = None
  BY DEF AnswerInv
<1>2. reply' = [reply EXCEPT ![r] = rep]
  BY DEF Answers
<1>3. ASSUME NEW q \in Roles
      PROVE  Sourced(q, reply[q])'
  <2>1. reply'[q] = IF q = r THEN rep ELSE reply[q]
    BY <1>2 DEF ReplyInv
  <2>2. Sourced(q, reply'[q])
    BY <2>1 DEF AnswerInv
  <2>3. QED
    BY <2>2 DEF Sourced, CannedText, Profiled, Says
<1>4. QED
  BY <1>1, <1>3 DEF AnswerInv

LEMMA GoIsSourced ==
  ASSUME AnswerInv, NEW r \in Roles, reach[r] # "done", UNCHANGED <<seller, prompt, verdict, reply>>
  PROVE  AnswerInv'
<1>1. verdict = None
  BY DEF AnswerInv
<1>2. ASSUME NEW q \in Roles
      PROVE  Sourced(q, reply[q])'
  BY DEF AnswerInv, Sourced, CannedText, Profiled, Says
<1>3. QED
  BY <1>1, <1>2 DEF AnswerInv

LEMMA CannedIsSourced ==
  ASSUME NEW r \in Roles
  PROVE  Sourced(r, Canned(r))
<1> DEFINE text == (IF Profiled(r).cannedCheat THEN Cheap ELSE Good)[prompt]
<1>1. text = CannedText(r) /\ Canned(r) = Reply(200, text, "canned", None)
  BY DEF CannedText, Canned
<1> HIDE DEF text
<1>2. QED
  BY <1>1 DEF Sourced, Reply

LEMMA SilenceIsSourced ==
  ASSUME NEW r \in Roles, NEW status
  PROVE  Sourced(r, [NoReply EXCEPT !.status = status])
BY DEF Sourced, NoReply, Reply, None

LEMMA LiveIsSourced ==
  ASSUME NEW r \in Roles, NEW rep, NEW m \in Served, rep.text \in Contents(m), rep.servedBy # "canned"
  PROVE  Sourced(r, rep)
BY DEF Sourced, Contents

LEMMA AnswerInvStep ==
  SellerInv /\ ReplyInv /\ AnswerInv /\ [ReplayNext]_replayVars => AnswerInv'
<1> SUFFICES ASSUME SellerInv, ReplyInv, AnswerInv, [ReplayNext]_replayVars PROVE AnswerInv'
  OBVIOUS
<1>m. \A r \in Roles : Profiled(r).actual \in Served
  BY OnlyTheCheatIsCheap DEF SellerInv
<1>1. ASSUME NEW r \in Roles, Unpaid(r) PROVE AnswerInv'
  <2>1. reach[r] # "done" /\ UNCHANGED <<seller, prompt, verdict>>
        /\ Answers(r, [NoReply EXCEPT !.status = 402])
    BY <1>1 DEF Unpaid
  <2>2. QED
    BY <2>1, SilenceIsSourced, AnswersAreSourced
<1>2. ASSUME NEW r \in Roles, Dispatch(r) PROVE AnswerInv'
  <2>1. reach[r] # "done" /\ UNCHANGED <<seller, prompt, verdict>>
    BY <1>2 DEF Dispatch
  <2>2. CASE UNCHANGED reply
    BY <2>1, <2>2, GoIsSourced
  <2>3. CASE Answers(r, Canned(r))
    BY <2>1, <2>3, CannedIsSourced, AnswersAreSourced
  <2>4. CASE Answers(r, [NoReply EXCEPT !.status = 200])
    BY <2>1, <2>4, SilenceIsSourced, AnswersAreSourced
  <2>5. QED
    BY <1>2, <2>2, <2>3, <2>4 DEF Dispatch
<1>3. ASSUME NEW r \in Roles, Broker(r) PROVE AnswerInv'
  <2>1. reach[r] # "done" /\ UNCHANGED <<seller, prompt, verdict>>
    BY <1>3 DEF Broker
  <2> DEFINE rep(m, teeML, valid, text) ==
        [ZeroGReply(r, m, text) EXCEPT !.tee = valid /\ teeML]
  <2>2. ASSUME NEW m \in {Small, ZeroG}, NEW teeML \in BOOLEAN, NEW valid \in BOOLEAN,
               NEW text \in Contents(m), Answers(r, rep(m, teeML, valid, text))
        PROVE  AnswerInv'
    <3>1. /\ rep(m, teeML, valid, text).text = text /\ rep(m, teeML, valid, text).servedBy = "0g"
          /\ m \in Served
      BY DEF ZeroGReply, Reply, Served
    <3> HIDE DEF rep
    <3>2. Sourced(r, rep(m, teeML, valid, text))
      BY <3>1, LiveIsSourced
    <3>3. QED
      BY <2>1, <2>2, <3>2, AnswersAreSourced
  <2>3. CASE UNCHANGED reply
    BY <2>1, <2>3, GoIsSourced
  <2>4. \/ \E m \in {Small, ZeroG}, teeML \in BOOLEAN, valid \in BOOLEAN : \E text \in Contents(m) :
             Answers(r, rep(m, teeML, valid, text))
        \/ UNCHANGED reply
    BY <1>3 DEF Broker
  <2> HIDE DEF rep
  <2>5. QED
    BY <2>2, <2>3, <2>4
<1>4. ASSUME NEW r \in Roles, Router(r) PROVE AnswerInv'
  <2>1. reach[r] # "done" /\ UNCHANGED <<seller, prompt, verdict>>
    BY <1>4 DEF Router
  <2> DEFINE m == Profiled(r).actual
             rep(header, text) == [ZeroGReply(r, m, text) EXCEPT !.tee = RouterAttests(r, header)]
  <2>2. ASSUME NEW header \in BOOLEAN, NEW text \in Contents(m), Answers(r, rep(header, text))
        PROVE  AnswerInv'
    <3>1. rep(header, text).text = text /\ rep(header, text).servedBy = "0g" /\ m \in Served
      BY <1>m DEF ZeroGReply, Reply
    <3> HIDE DEF m, rep
    <3>2. Sourced(r, rep(header, text))
      BY <3>1, LiveIsSourced
    <3>3. QED
      BY <2>1, <2>2, <3>2, AnswersAreSourced
  <2>3. CASE RouterFails(r)
    BY <2>1, <2>3, CannedIsSourced, AnswersAreSourced DEF RouterFails
  <2>4. QED
    BY <1>4, <2>2, <2>3 DEF Router
<1>5. ASSUME NEW r \in Roles, Groq(r) PROVE AnswerInv'
  <2>1. reach[r] # "done" /\ UNCHANGED <<seller, prompt, verdict>>
    BY <1>5 DEF Groq
  <2> DEFINE m == Profiled(r).actual
             rep(text) == Reply(200, text, "groq", None)
  <2>2. ASSUME NEW text \in Contents(m), Answers(r, rep(text))
        PROVE  AnswerInv'
    <3>1. rep(text).text = text /\ rep(text).servedBy = "groq" /\ m \in Served
      BY <1>m DEF Reply
    <3> HIDE DEF m, rep
    <3>2. Sourced(r, rep(text))
      BY <3>1, LiveIsSourced
    <3>3. QED
      BY <2>1, <2>2, <3>2, AnswersAreSourced
  <2>3. CASE Answers(r, [NoReply EXCEPT !.status = 502])
    BY <2>1, <2>3, SilenceIsSourced, AnswersAreSourced
  <2>4. QED
    BY <1>5, <2>2, <2>3 DEF Groq
<1>6. CASE Classify
  <2>1. \A r \in Roles : reach'[r] = "done"
    BY <1>6 DEF Classify
  <2>2. verdict' = classifyReplayOutcomes(reply["accused"], reply["witness"])'
    BY <1>6 DEF Classify
  <2>3. \A r \in Roles : Sourced(r, reply[r])'
    BY <1>6 DEF Classify, AnswerInv, Sourced, CannedText, Profiled, Says
  <2>4. QED
    BY <2>1, <2>2, <2>3 DEF AnswerInv
<1>7. CASE UNCHANGED replayVars
  <2>1. \A r \in Roles : Sourced(r, reply[r])'
    BY <1>7 DEF replayVars, AnswerInv, Sourced, CannedText, Profiled, Says
  <2>2. QED
    BY <1>7, <2>1 DEF replayVars, AnswerInv
<1>8. QED
  BY <1>1, <1>2, <1>3, <1>4, <1>5, <1>6, <1>7 DEF ReplayNext

LEMMA AnswerInvAlways == ReplaySpec => []AnswerInv
<1>1. ReplayInit => AnswerInv
  BY DEF ReplayInit, AnswerInv, Sourced, NoReply, Reply, None
<1>2. QED
  BY <1>1, AnswerInvStep, SellerInvAlways, ReplyInvAlways, PTL DEF ReplaySpec

-----------------------------------------------------------------------------
(* What a comparison of two such texts finds.                              *)

\* The texts an honest provider and a cheat answer with.
Texts(p) == {Good[p], Cheap[p]} \cup {LiveText(m, p) : m \in Served}

LEMMA OnlyTheSameAreSimilar ==
  ASSUME NEW p \in Bank, NEW a \in Texts(p), NEW w \in Texts(p), w # Cheap[p],
         Len(a) >= 2, Similar(createWordBigrams(a), createWordBigrams(w))
  PROVE  a = w
<1>1. ASSUME a = Cheap[p] PROVE p # "default"
  <2> DEFINE l == Len(Cheap[p])
  <2>1. l >= 2 /\ l \in Nat
    BY <1>1, BankHasWords
  <2>2. l = 1 <=> p = "default"
    BY BankHasWords
  <2> HIDE DEF l
  <2>3. l # 1
    BY <2>1
  <2>4. QED
    BY <2>2, <2>3
<1>2. CASE w = Good[p]
  <2>1. CASE a = Cheap[p]
    BY <1>1, <1>2, <2>1, CheapIsNotGood
  <2>2. ASSUME NEW m, a = LiveText(m, p) PROVE FALSE
    BY <1>2, <2>2, LiveIsNotGood
  <2>3. QED
    BY <1>2, <2>1, <2>2 DEF Texts
<1>3. ASSUME NEW n, w = LiveText(n, p) PROVE a = w
  <2>1. CASE a = Good[p]
    BY <1>3, <2>1, LiveIsNotGood, SimilarIsSymmetric
  <2>2. CASE a = Cheap[p]
    BY <1>1, <1>3, <2>2, LiveIsNotCheap, SimilarIsSymmetric
  <2>3. ASSUME NEW m, a = LiveText(m, p) PROVE a = w
    BY <1>3, <2>3, LiveIsNotAnother
  <2>4. QED
    BY <2>1, <2>2, <2>3 DEF Texts
<1>4. QED
  BY <1>2, <1>3 DEF Texts

\* An answer with a text has one of these, and the witness's is not the cheap
\* one: it serves what it advertises.
LEMMA AnswersAreTexts ==
  ASSUME SellerInv, ReplyInv, AnswerInv, NEW r \in Roles, reply[r].text # << >>
  PROVE  /\ reply[r].text \in Texts(prompt)
         /\ r = "witness" => reply[r].text # Cheap[prompt]
<1>1. prompt \in Prompts
  BY DEF ReplyInv
<1>2. CASE reply[r].text = CannedText(r)
  <2>1. r = "witness" => CannedText(r) = Good[prompt]
    BY OnlyTheCheatIsCheap DEF SellerInv, Honest, Profiled, CannedText
  <2>2. Good[prompt] # Cheap[prompt]
    BY <1>1, PromptIsInTheBank DEF Good, Cheap
  <2>3. QED
    BY <1>2, <2>1, <2>2 DEF CannedText, Texts
<1>3. ASSUME NEW m \in Served, reply[r].text = Says(m)
      PROVE  reply[r].text \in Texts(prompt) /\ reply[r].text # Cheap[prompt]
  BY <1>1, <1>3, BankIsNotLive DEF Says, Texts, LiveText
<1>4. QED
  BY <1>2, <1>3 DEF AnswerInv, Sourced

-----------------------------------------------------------------------------
\* The provenance of an answer is that of the text in it, whichever of the
\* provider's paths produced it (backends/0g.ts, groq.ts, canned.ts).
THEOREM ProvenanceHolds == ReplaySpec => []ProvenanceIsTrue
<1>1. ReplyInv => ProvenanceIsTrue
  BY DEF ReplyInv, TrueReply, ProvenanceIsTrue, NoReply, Reply
<1>2. QED
  BY <1>1, ReplyInvAlways, PTL

\* A paid request to a provider on 0G ends with a text whatever fails on the way:
\* an error of the broker leads to the router, an error of the router to the
\* canned bank (zerog.ts:14, 136-157); only 0G's own answer may be empty.
THEOREM ErrorsOfZeroGFallBack == ReplaySpec => []ZeroGErrorsFallBack
<1>1. ReplyInv => ZeroGErrorsFallBack
  BY DEF ReplyInv, TrueReply, ZeroGErrorsFallBack
<1>2. QED
  BY <1>1, ReplyInvAlways, PTL

\* An audit clears only answers that are the same, for every prompt of the bank
\* and whatever the models are called (verification.ts, similarity.ts): the 35 %
\* threshold lies above what any two different answers share.
THEOREM AuditsClearOnlyTheSame == ReplaySpec => []OnlyLikeAnswersPass
<1>1. SellerInv /\ ReplyInv /\ AnswerInv => OnlyLikeAnswersPass
  <2> SUFFICES ASSUME SellerInv, ReplyInv, AnswerInv, verdict = "passed"
               PROVE  reply["accused"].text = reply["witness"].text
    BY DEF OnlyLikeAnswersPass
  <2> DEFINE a == reply["accused"].text
             w == reply["witness"].text
  <2>1. "passed" = classifyReplayOutcomes(reply["accused"], reply["witness"])
    BY DEF AnswerInv, None
  <2>2. /\ a # << >> /\ w # << >> /\ ~(Len(a) < 2)
        /\ Similar(createWordBigrams(a), createWordBigrams(w))
    BY <2>1 DEF classifyReplayOutcomes, Intact
  <2>3. a \in Texts(prompt) /\ w \in Texts(prompt) /\ w # Cheap[prompt]
    BY <2>2, AnswersAreTexts DEF Roles
  <2>4. prompt \in Bank
    BY PromptIsInTheBank DEF ReplyInv, Bank
  <2>5. Len(a) \in Nat
    <3>1. \A m : Len(LiveText(m, prompt)) = 3
      BY DEF LiveText
    <3>2. QED
      BY <2>3, <2>4, <3>1, BankHasWords DEF Texts
  <2> HIDE DEF a, w
  <2>6. a = w
    BY <2>2, <2>3, <2>4, <2>5, OnlyTheSameAreSimilar
  <2>7. QED
    BY <2>6 DEF a, w
<1>2. QED
  BY <1>1, SellerInvAlways, ReplyInvAlways, AnswerInvAlways, PTL

\* When both answers of an audit come from the canned bank.
BothCanned == \A r \in Roles : reply[r].status = 200 /\ reply[r].servedBy = "canned"

\* How far docs/DEVREL_BRIEF.md:66 is true: without a Groq key on either side the
\* cheat is still caught, for every prompt of the bank but the default one, whose
\* cheap answer is a single word, too short to be compared.
THEOREM CheatsAreCaughtOffline ==
  ReplaySpec => [](verdict # None /\ ~Honest(seller["accused"]) /\ BothCanned
                     => verdict = IF prompt = "default" THEN "inconclusive" ELSE "divergent")
<1> DEFINE CannedCheatIsCaught ==
      verdict # None /\ ~Honest(seller["accused"]) /\ BothCanned
        => verdict = IF prompt = "default" THEN "inconclusive" ELSE "divergent"
<1>1. SellerInv /\ ReplyInv /\ AnswerInv => CannedCheatIsCaught
  <2> SUFFICES ASSUME SellerInv, ReplyInv, AnswerInv, verdict # None, ~Honest(seller["accused"]),
                      \A r \in Roles : reply[r].status = 200 /\ reply[r].servedBy = "canned"
               PROVE  verdict = IF prompt = "default" THEN "inconclusive" ELSE "divergent"
    BY DEF BothCanned
  <2> DEFINE a == reply["accused"]
             w == reply["witness"]
  <2>1. prompt \in Bank /\ prompt \in Prompts
    BY PromptIsInTheBank DEF ReplyInv, Bank
  <2>2. a.text = Cheap[prompt]
    BY OnlyTheCheatIsCheap DEF SellerInv, AnswerInv, Sourced, CannedText, Honest, Profiled, Roles
  <2>3. w.text = Good[prompt]
    BY OnlyTheCheatIsCheap DEF SellerInv, AnswerInv, Sourced, CannedText, Honest, Profiled, Roles
  <2>4. Intact(a) /\ Intact(w)
    BY <2>1, <2>2, <2>3, BankIsNotLive DEF Intact, Roles
  <2>5. verdict = classifyReplayOutcomes(a, w)
    BY DEF AnswerInv
  <2> DEFINE la == Len(a.text)
             lw == Len(w.text)
  <2>6. lw \in Nat /\ lw >= 2 /\ la \in Nat /\ la >= 1
    BY <2>1, <2>2, <2>3, BankHasWords
  <2>7. la = 1 <=> prompt = "default"
    BY <2>1, <2>2, BankHasWords
  <2>8. prompt # "default" => ~Similar(createWordBigrams(a.text), createWordBigrams(w.text))
    BY <2>1, <2>2, <2>3, CheapIsNotGood
  <2>9. /\ verdict = "inconclusive" \/ ~(la < 2)
        /\ verdict = "divergent" \/ la < 2 \/ lw < 2
           \/ Similar(createWordBigrams(a.text), createWordBigrams(w.text))
    BY <2>4, <2>5 DEF classifyReplayOutcomes
  <2> HIDE DEF a, w, la, lw
  <2>10. ~(lw < 2) /\ (la < 2 <=> la = 1)
    BY <2>6
  <2>11. QED
    BY <2>7, <2>8, <2>9, <2>10
<1>2. QED
  BY <1>1, SellerInvAlways, ReplyInvAlways, AnswerInvAlways, PTL
=============================================================================
