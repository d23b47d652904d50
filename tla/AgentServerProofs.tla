-------------------------- MODULE AgentServerProofs --------------------------
(***************************************************************************)
(* Theorems about what the agent's server does besides its runs: the       *)
(* token, for every set of requests, every number of calls bought and      *)
(* every number of mishaps, and the model a goal is sent to, for every     *)
(* market.                                                                 *)
(***************************************************************************)
EXTENDS AgenticId, ModelRouting, FiniteSetTheorems, WellFoundedInduction, TLAPS

-----------------------------------------------------------------------------
(* Sequences that are only appended to, and requests.                      *)

LEMMA Appended ==
  ASSUME NEW S, NEW s \in Seq(S), NEW x \in S
  PROVE  /\ Append(s, x) \in Seq(S)
         /\ Len(Append(s, x)) = Len(s) + 1
         /\ DOMAIN Append(s, x) = 1..(Len(s) + 1)
         /\ DOMAIN s = 1..Len(s)
         /\ \A i \in 1..Len(s) : Append(s, x)[i] = s[i]
         /\ Append(s, x)[Len(s) + 1] = x
  OBVIOUS

LEMMA RequestFields ==
  ASSUME IdTypeOK, NEW q \in Posts
  PROVE  /\ post[q] \in Request
         /\ post[q].named \in BOOLEAN /\ post[q].calls \in Nat /\ post[q].token \in Nat
         /\ post[q].root \in Nat /\ post[q].count \in Nat
BY DEF IdTypeOK, Request

LEMMA SentIsATransaction ==
  ASSUME IdTypeOK, NEW q \in Posts
  PROVE  Sent(q) \in Transaction
BY RequestFields DEF Sent, Transaction

LEMMA Pending ==
  ASSUME IdTypeOK, mempool # << >>
  PROVE  /\ Head(mempool) \in Transaction /\ Tail(mempool) \in Seq(Transaction)
         /\ 1 \in DOMAIN mempool /\ Head(mempool) = mempool[1]
         /\ Head(mempool).post \in Posts /\ Head(mempool).token \in Nat
         /\ Head(mempool).root \in Nat /\ Head(mempool).count \in Nat
<1>1. mempool \in Seq(Transaction)
  BY DEF IdTypeOK
<1>2. Head(mempool) \in Transaction /\ Tail(mempool) \in Seq(Transaction)
      /\ 1 \in DOMAIN mempool /\ Head(mempool) = mempool[1]
  BY <1>1
<1>3. QED
  BY <1>2 DEF Transaction

-----------------------------------------------------------------------------
(* Types.                                                                  *)

LEMMA RequestMoves ==
  ASSUME IdTypeOK, NEW q \in Posts, NEW c \in Request, post' = [post EXCEPT ![q] = c]
  PROVE  post' \in [Posts -> Request]
BY DEF IdTypeOK

LEMMA InitTypes == IdInit => IdTypeOK
<1> SUFFICES ASSUME IdInit PROVE IdTypeOK
  OBVIOUS
<1>1. NewRequest \in Request
  BY DEF NewRequest, Request
<1>2. post \in [Posts -> Request]
  BY <1>1 DEF IdInit
<1>3. NoId \in IdState
  BY DEF NoId, IdState
<1>4. storage = << >> /\ mempool = << >> /\ token = << >>
  BY DEF IdInit
<1>5. storage \in Seq(Snapshot) /\ mempool \in Seq(Transaction) /\ token \in Seq(Token)
  BY <1>4
<1>6. QED
  BY <1>2, <1>3, <1>5 DEF IdInit, IdTypeOK

LEMMA MishapTypes ==
  ASSUME IdTypeOK, NEW happened \in BOOLEAN, IdMishap(happened)
  PROVE  idMishaps' \in Nat /\ (idMishaps' = 0 => idMishaps = 0 /\ ~happened)
BY DEF IdTypeOK, IdMishap

LEMMA PostMintTypes ==
  ASSUME IdTypeOK, NEW q \in Posts, PostMint(q)
  PROVE  IdTypeOK'
<1> DEFINE c == [post[q] EXCEPT !.pc = "reading", !.named = registered]
<1>1. c \in Request
  BY RequestFields DEF IdTypeOK, Request, InFlight
<1>2. post' = [post EXCEPT ![q] = c]
  BY DEF PostMint, IdTypeOK
<1> HIDE DEF c
<1>3. post' \in [Posts -> Request]
  BY <1>1, <1>2, RequestMoves
<1>4. Quiet \in BOOLEAN
  BY DEF Quiet
<1>5. idMishaps' \in Nat
  BY <1>4, MishapTypes DEF PostMint
<1>6. QED
  BY <1>3, <1>5 DEF PostMint, IdTypeOK

LEMMA SerialisesTypes ==
  ASSUME IdTypeOK, NEW q \in Posts, Serialises(q)
  PROVE  IdTypeOK'
<1> DEFINE c == [post[q] EXCEPT !.pc = "uploading", !.calls = bought]
<1>1. c \in Request
  BY RequestFields DEF IdTypeOK, Request, InFlight
<1>2. post' = [post EXCEPT ![q] = c]
  BY DEF Serialises, IdTypeOK
<1> HIDE DEF c
<1>3. post' \in [Posts -> Request]
  BY <1>1, <1>2, RequestMoves
<1>4. QED
  BY <1>3 DEF Serialises, IdTypeOK

LEMMA UploadFailsTypes ==
  ASSUME IdTypeOK, NEW q \in Posts, UploadFails(q)
  PROVE  IdTypeOK'
<1> DEFINE c == [post[q] EXCEPT !.pc = "failed"]
<1>1. c \in Request
  BY RequestFields DEF IdTypeOK, Request, InFlight
<1>2. post' = [post EXCEPT ![q] = c]
  BY DEF UploadFails, IdTypeOK
<1> HIDE DEF c
<1>3. post' \in [Posts -> Request]
  BY <1>1, <1>2, RequestMoves
<1>4. idMishaps' \in Nat
  BY MishapTypes DEF UploadFails
<1>5. QED
  BY <1>3, <1>4 DEF UploadFails, IdTypeOK

\* What an upload leaves: the snapshot is the newest root, and the request
\* names it with the calls it describes.
LEMMA UploadedFields ==
  ASSUME IdTypeOK, NEW q \in Posts, Uploaded(q)
  PROVE  /\ post[q].pc = "uploading"
         /\ storage' \in Seq(Snapshot) /\ Len(storage') = Len(storage) + 1
         /\ DOMAIN storage = 1..Len(storage) /\ DOMAIN storage' = 1..(Len(storage) + 1)
         /\ \A i \in DOMAIN storage : storage'[i] = storage[i]
         /\ storage'[Len(storage) + 1].calls = post[q].calls
         /\ post'[q] \in Request
         /\ post' = [post EXCEPT ![q] = post'[q]]
         /\ post'[q].root = Len(storage) + 1 /\ post'[q].count = bought
         /\ post'[q].calls = post[q].calls
         /\ post'[q].token = agenticId.tokenId
         /\ post'[q].pc = IF agenticId.tokenId # 0 THEN "updating" ELSE "minting"
<1> DEFINE x == [named |-> post[q].named, calls |-> post[q].calls]
           c == [post[q] EXCEPT !.root = Len(storage'), !.count = Described(q),
                                !.token = agenticId.tokenId,
                                !.pc = IF agenticId.tokenId # 0 THEN "updating" ELSE "minting"]
<1>1. x \in Snapshot /\ x.calls = post[q].calls
  BY RequestFields DEF Snapshot
<1>2. storage \in Seq(Snapshot) /\ storage' = Append(storage, x)
  BY DEF IdTypeOK, Uploaded
<1> HIDE DEF x
<1>3. /\ storage' \in Seq(Snapshot) /\ Len(storage') = Len(storage) + 1
      /\ DOMAIN storage = 1..Len(storage) /\ DOMAIN storage' = 1..(Len(storage) + 1)
      /\ \A i \in DOMAIN storage : storage'[i] = storage[i]
      /\ storage'[Len(storage) + 1].calls = post[q].calls
  BY <1>1, <1>2, Appended
<1>4. agenticId.tokenId \in Nat /\ bought \in Nat /\ Len(storage') \in Nat
  BY <1>3 DEF IdTypeOK, IdState
<1>5. c \in Request
  BY <1>4, RequestFields DEF Request, InFlight, Described
<1>6. post' = [post EXCEPT ![q] = c]
  BY DEF Uploaded, IdTypeOK
<1>7. post'[q] = c
  BY <1>6 DEF IdTypeOK
<1>8. /\ c.root = Len(storage') /\ c.count = bought /\ c.calls = post[q].calls
      /\ c.token = agenticId.tokenId
      /\ c.pc = IF agenticId.tokenId # 0 THEN "updating" ELSE "minting"
  BY RequestFields DEF Request, Described
<1> HIDE DEF c
<1>9. QED
  BY <1>3, <1>5, <1>6, <1>7, <1>8 DEF Uploaded

LEMMA UploadedTypes ==
  ASSUME IdTypeOK, NEW q \in Posts, Uploaded(q)
  PROVE  IdTypeOK'
<1>1. post' \in [Posts -> Request]
  BY UploadedFields, RequestMoves
<1>2. QED
  BY <1>1, UploadedFields DEF Uploaded, IdTypeOK

LEMMA UpdatesTypes ==
  ASSUME IdTypeOK, NEW q \in Posts, Updates(q)
  PROVE  IdTypeOK'
<1> DEFINE c == [post[q] EXCEPT !.pc = "ready"]
<1>1. c \in Request
  BY RequestFields DEF Request
<1>2. post' = [post EXCEPT ![q] = c]
  BY DEF Updates, IdTypeOK
<1> HIDE DEF c
<1>3. post' \in [Posts -> Request]
  BY <1>1, <1>2, RequestMoves
<1>4. PICK sent \in BOOLEAN :
        /\ IdMishap(~sent /\ token[post[q].token].owner = Me)
        /\ mempool' = IF sent THEN Append(mempool, Sent(q)) ELSE mempool
  BY DEF Updates
<1>5. mempool' \in Seq(Transaction)
  BY <1>4, SentIsATransaction, Appended DEF IdTypeOK
<1>6. idMishaps' \in Nat
  BY <1>4 DEF IdMishap, IdTypeOK
<1>7. agenticId' \in IdState
  BY RequestFields DEF Updates, Shown, IdState, IdTypeOK
<1>8. QED
  BY <1>3, <1>5, <1>6, <1>7 DEF Updates, IdTypeOK

LEMMA MintsTypes ==
  ASSUME IdTypeOK, NEW q \in Posts, Mints(q)
  PROVE  IdTypeOK'
<1>1. PICK sent \in BOOLEAN :
        /\ IdMishap(~sent)
        /\ mempool' = IF sent THEN Append(mempool, Sent(q)) ELSE mempool
        /\ post' = [post EXCEPT ![q].pc = IF sent THEN "mined" ELSE "failed"]
  BY DEF Mints
<1> DEFINE c == [post[q] EXCEPT !.pc = IF sent THEN "mined" ELSE "failed"]
<1>2. c \in Request
  BY RequestFields DEF Request, InFlight
<1>3. post' = [post EXCEPT ![q] = c]
  BY <1>1 DEF IdTypeOK
<1> HIDE DEF c
<1>4. post' \in [Posts -> Request]
  BY <1>2, <1>3, RequestMoves
<1>5. mempool' \in Seq(Transaction)
  BY <1>1, SentIsATransaction, Appended DEF IdTypeOK
<1>6. idMishaps' \in Nat
  BY <1>1 DEF IdMishap, IdTypeOK
<1>7. QED
  BY <1>4, <1>5, <1>6 DEF Mints, IdTypeOK

\* What mining a mint does.
LEMMA MintTokenFields ==
  ASSUME IdTypeOK, mempool # << >>, MintToken(Head(mempool))
  PROVE  /\ token' \in Seq(Token) /\ post' \in [Posts -> Request]
         /\ Len(token') = Len(token) + 1
         /\ DOMAIN token = 1..Len(token) /\ DOMAIN token' = 1..(Len(token) + 1)
         /\ \A t \in DOMAIN token : token'[t] = token[t]
         /\ token'[Len(token) + 1].root = Head(mempool).root
         /\ token'[Len(token) + 1].count = Head(mempool).count
         /\ token'[Len(token) + 1].owner = Me
         /\ Head(mempool).token = 0
         /\ \A q \in Posts :
              /\ post'[q].root = post[q].root /\ post'[q].count = post[q].count
              /\ post'[q].calls = post[q].calls
              /\ post'[q] = post[q]
                 \/ /\ q = Head(mempool).post /\ post[q].pc = "mined"
                    /\ post'[q].pc = "receipt" /\ post'[q].token = Len(token) + 1
         /\ LET q == Head(mempool).post IN
              post[q].pc = "mined" => post'[q].pc = "receipt" /\ post'[q].token = Len(token) + 1
<1> DEFINE tx == Head(mempool)
           x == [owner |-> Me, root |-> tx.root, count |-> tx.count]
<1>1. tx \in Transaction /\ tx.post \in Posts /\ tx.root \in Nat /\ tx.count \in Nat
  BY Pending
<1>2. token \in Seq(Token) /\ token' = Append(token, x) /\ tx.token = 0
  BY DEF IdTypeOK, MintToken
<1>3. x \in Token /\ x.root = tx.root /\ x.count = tx.count /\ x.owner = Me
  BY <1>1 DEF Token
<1>4. post' = IF post[tx.post].pc = "mined"
              THEN [post EXCEPT ![tx.post].pc = "receipt", ![tx.post].token = Len(token')]
              ELSE post
  BY DEF MintToken
<1> HIDE DEF tx, x
<1>5. /\ token' \in Seq(Token)
      /\ Len(token') = Len(token) + 1
      /\ DOMAIN token = 1..Len(token) /\ DOMAIN token' = 1..(Len(token) + 1)
      /\ \A t \in DOMAIN token : token'[t] = token[t]
      /\ token'[Len(token) + 1] = x
  BY <1>2, <1>3, Appended
<1> DEFINE c == [post[tx.post] EXCEPT !.pc = "receipt", !.token = Len(token')]
<1>6. Len(token') \in Nat
  BY <1>5
<1>7. c \in Request
  BY <1>1, <1>6, RequestFields DEF Request, InFlight
<1>8. /\ c.pc = "receipt" /\ c.token = Len(token') /\ c.root = post[tx.post].root
      /\ c.count = post[tx.post].count /\ c.calls = post[tx.post].calls
  BY <1>1, RequestFields DEF Request
<1>9. post' = IF post[tx.post].pc = "mined" THEN [post EXCEPT ![tx.post] = c] ELSE post
  BY <1>1, <1>4 DEF IdTypeOK
<1> HIDE DEF c
<1>10. post' \in [Posts -> Request]
  BY <1>1, <1>7, <1>9, RequestMoves DEF IdTypeOK
<1>11. post[tx.post].pc = "mined" => post'[tx.post] = c
  BY <1>1, <1>9 DEF IdTypeOK
<1>12. ASSUME NEW q \in Posts
       PROVE  post'[q] = post[q] \/ (q = tx.post /\ post[q].pc = "mined" /\ post'[q] = c)
  BY <1>1, <1>9 DEF IdTypeOK
<1>13. QED
  BY <1>2, <1>3, <1>5, <1>8, <1>10, <1>11, <1>12 DEF tx

\* What mining a re-pointing does.
LEMMA SetMemoryFields ==
  ASSUME IdTypeOK, mempool # << >>, SetMemory(Head(mempool))
  PROVE  /\ token' \in Seq(Token) /\ Len(token') = Len(token)
         /\ DOMAIN token = 1..Len(token) /\ DOMAIN token' = DOMAIN token
         /\ Head(mempool).token # 0 /\ post' = post
         /\ \A t \in DOMAIN token :
              /\ token'[t].owner = token[t].owner
              /\ token'[t] = token[t]
                 \/ /\ t = Head(mempool).token /\ token[t].owner = Me
                    /\ token'[t].root = Head(mempool).root
                    /\ token'[t].count = Head(mempool).count
              /\ (t = Head(mempool).token /\ token[t].owner = Me) =>
                   token'[t].root = Head(mempool).root
<1> DEFINE tx == Head(mempool)
<1>1. tx \in Transaction /\ tx.token \in Nat /\ tx.root \in Nat /\ tx.count \in Nat
  BY Pending
<1>2. /\ token \in Seq(Token) /\ tx.token # 0 /\ post' = post
      /\ token' = IF token[tx.token].owner = Me
                  THEN [token EXCEPT ![tx.token].root = tx.root, ![tx.token].count = tx.count]
                  ELSE token
  BY DEF IdTypeOK, SetMemory, MaySetMemory
<1> HIDE DEF tx
<1>3. DOMAIN token = 1..Len(token) /\ Len(token) \in Nat
  BY <1>2
<1>4. CASE tx.token \in DOMAIN token /\ token[tx.token].owner = Me
  <2> DEFINE c == [token[tx.token] EXCEPT !.root = tx.root, !.count = tx.count]
  <2>1. token[tx.token] \in Token
    BY <1>2, <1>3, <1>4
  <2>2. c \in Token /\ c.root = tx.root /\ c.count = tx.count /\ c.owner = token[tx.token].owner
    BY <2>1, <1>1 DEF Token
  <2>3. token' = [token EXCEPT ![tx.token] = c]
    BY <1>2, <1>4
  <2> HIDE DEF c
  <2>4. token' \in Seq(Token) /\ Len(token') = Len(token) /\ DOMAIN token' = DOMAIN token
    BY <2>2, <2>3, <1>2, <1>3, <1>4
  <2>5. \A t \in DOMAIN token : token'[t] = IF t = tx.token THEN c ELSE token[t]
    BY <2>3, <1>2, <1>3
  <2>6. QED
    BY <2>2, <2>4, <2>5, <1>2, <1>3, <1>4 DEF tx
<1>5. CASE ~(tx.token \in DOMAIN token /\ token[tx.token].owner = Me)
  <2>1. token' = token
    BY <1>2, <1>3, <1>5
  <2>2. QED
    BY <2>1, <1>2, <1>3, <1>5 DEF tx
<1>6. QED
  BY <1>4, <1>5

LEMMA MineTypes ==
  ASSUME IdTypeOK, Mine
  PROVE  IdTypeOK'
<1>1. mempool # << >> /\ mempool' = Tail(mempool)
  BY DEF Mine
<1>2. CASE MintToken(Head(mempool))
  BY <1>1, <1>2, MintTokenFields, Pending DEF Mine, IdTypeOK
<1>3. CASE SetMemory(Head(mempool))
  BY <1>1, <1>3, SetMemoryFields, Pending DEF Mine, IdTypeOK
<1>4. QED
  BY <1>2, <1>3 DEF Mine

LEMMA ReceiptTypes ==
  ASSUME IdTypeOK, NEW q \in Posts, Receipt(q)
  PROVE  IdTypeOK'
<1> DEFINE c(pc) == [post[q] EXCEPT !.pc = pc]
<1>1. c("ready") \in Request /\ c("failed") \in Request
  BY RequestFields DEF Request
<1>2. post' = [post EXCEPT ![q] = c("ready")] \/ post' = [post EXCEPT ![q] = c("failed")]
  BY DEF Receipt, IdTypeOK
<1> HIDE DEF c
<1>3. post' \in [Posts -> Request]
  BY <1>1, <1>2, RequestMoves
<1>4. idMishaps' \in Nat
  BY DEF Receipt, IdMishap, IdTypeOK
<1>5. agenticId' \in {Minted(q), [Minted(q) EXCEPT !.tokenId = 0], agenticId}
  BY DEF Receipt
<1>6. Minted(q) \in IdState /\ [Minted(q) EXCEPT !.tokenId = 0] \in IdState
  BY RequestFields DEF Minted, IdState, IdTypeOK
<1>7. QED
  BY <1>3, <1>4, <1>5, <1>6 DEF Receipt, IdTypeOK

LEMMA SellsFields ==
  ASSUME IdTypeOK, NEW t \in DOMAIN token, Sells(t)
  PROVE  /\ token' \in Seq(Token) /\ Len(token') = Len(token)
         /\ DOMAIN token = 1..Len(token) /\ DOMAIN token' = DOMAIN token
         /\ token[t].owner = Me /\ token'[t].owner = Other
         /\ \A s \in DOMAIN token :
              /\ token'[s].root = token[s].root /\ token'[s].count = token[s].count
              /\ token'[s] = token[s] \/ (s = t /\ token'[s].owner = Other)
<1> DEFINE c == [token[t] EXCEPT !.owner = Other]
<1>1. token \in Seq(Token) /\ token[t] \in Token /\ DOMAIN token = 1..Len(token)
  BY DEF IdTypeOK
<1>2. c \in Token /\ c.root = token[t].root /\ c.count = token[t].count /\ c.owner = Other
  BY <1>1 DEF Token
<1>3. token' = [token EXCEPT ![t] = c] /\ token[t].owner = Me
  BY DEF Sells
<1> HIDE DEF c
<1>4. token' \in Seq(Token) /\ Len(token') = Len(token) /\ DOMAIN token' = DOMAIN token
  BY <1>1, <1>2, <1>3
<1>5. QED
  BY <1>1, <1>2, <1>3, <1>4

LEMMA SellsTypes ==
  ASSUME IdTypeOK, NEW t \in DOMAIN token, Sells(t)
  PROVE  IdTypeOK'
BY SellsFields DEF Sells, IdTypeOK

LEMMA RestartsFields ==
  ASSUME IdTypeOK, Restarts
  PROVE  /\ post' \in [Posts -> Request]
         /\ \A q \in Posts : post'[q].pc \notin InFlight
         /\ idMishaps' \in Nat /\ idMishaps' # 0
<1>1. \A q \in Posts : [post[q] EXCEPT !.pc = "failed"] \in Request
  BY RequestFields DEF Request
<1>2. post' \in [Posts -> Request]
  BY <1>1, RequestFields DEF Restarts
<1>3. ASSUME NEW q \in Posts PROVE post'[q].pc \notin InFlight
  <2>1. [post[q] EXCEPT !.pc = "failed"].pc = "failed"
    BY RequestFields DEF Request
  <2>2. post'[q] = IF post[q].pc \in InFlight THEN [post[q] EXCEPT !.pc = "failed"] ELSE post[q]
    BY DEF Restarts
  <2>3. QED
    BY <2>1, <2>2 DEF InFlight
<1>4. QED
  BY <1>2, <1>3 DEF Restarts, IdMishap, IdTypeOK

LEMMA TypesStep == IdTypeOK /\ [IdNext]_idVars => IdTypeOK'
<1> SUFFICES ASSUME IdTypeOK, [IdNext]_idVars PROVE IdTypeOK'
  OBVIOUS
<1>1. CASE Registers
  BY <1>1 DEF Registers, IdTypeOK
<1>2. CASE Buys
  BY <1>2 DEF Buys, IdTypeOK
<1>3. CASE Mine
  BY <1>3, MineTypes
<1>4. CASE Restarts
  BY <1>4, RestartsFields DEF Restarts, IdTypeOK, NoId, IdState
<1>5. ASSUME NEW q \in Posts,
             \/ PostMint(q) \/ Serialises(q) \/ UploadFails(q) \/ Uploaded(q)
             \/ Updates(q) \/ Mints(q) \/ Receipt(q)
      PROVE  IdTypeOK'
  BY <1>5, PostMintTypes, SerialisesTypes, UploadFailsTypes, UploadedTypes, UpdatesTypes,
     MintsTypes, ReceiptTypes
<1>6. ASSUME NEW t \in DOMAIN token, Sells(t) PROVE IdTypeOK'
  BY <1>6, SellsTypes
<1>7. CASE UNCHANGED idVars
  BY <1>7 DEF idVars, IdTypeOK
<1>8. QED
  BY <1>1, <1>2, <1>3, <1>4, <1>5, <1>6, <1>7 DEF IdNext

\* Every variable of the token's model keeps its type.
THEOREM IdTypeCorrect == IdSpec => []IdTypeOK
BY InitTypes, TypesStep, PTL DEF IdSpec

-----------------------------------------------------------------------------
\* A token that is sold keeps its memory: a re-pointing that is mined after the
\* sale is reverted by the contract (AgentNFT.sol:45).
THEOREM SoldMemoryIsKept == IdSpec => SoldMemoryStays
<1> DEFINE Kept == \A t \in DOMAIN token : token[t].owner = Other => token'[t] = token[t]
<1>1. IdTypeOK /\ [IdNext]_idVars => [Kept]_idVars
  <2> SUFFICES ASSUME IdTypeOK, IdNext PROVE Kept
    OBVIOUS
  <2>1. CASE Mine /\ MintToken(Head(mempool))
    BY <2>1, MintTokenFields DEF Mine
  <2>2. CASE Mine /\ SetMemory(Head(mempool))
    BY <2>2, SetMemoryFields, OwnersAssumption DEF Mine
  <2>3. ASSUME NEW t \in DOMAIN token, Sells(t) PROVE Kept
    BY <2>3, SellsFields, OwnersAssumption
  <2>4. CASE UNCHANGED token
    BY <2>4
  <2>5. QED
    BY <2>1, <2>2, <2>3, <2>4
    DEF IdNext, Registers, Buys, Mine, Restarts, PostMint, Serialises, UploadFails, Uploaded,
        Updates, Mints, Receipt
<1>2. QED
  BY <1>1, IdTypeCorrect, PTL DEF IdSpec, SoldMemoryStays

-----------------------------------------------------------------------------
(* The description of a token covers its memory: at every place where a    *)
(* root travels, the count that travels with it is at least what the       *)
(* snapshot holds, for the snapshot is taken before the calls are counted. *)

Covered(root, count) == root \in DOMAIN storage /\ count >= storage[root].calls

DescribedInv ==
  /\ \A t \in DOMAIN token : Covered(token[t].root, token[t].count)
  /\ \A i \in DOMAIN mempool : Covered(mempool[i].root, mempool[i].count)
  /\ \A q \in Posts :
       /\ post[q].pc = "uploading" => post[q].calls <= bought
       /\ post[q].pc \in {"updating", "minting"} => Covered(post[q].root, post[q].count)

\* Storage that only grows keeps what it covers.
LEMMA CoveredStays ==
  ASSUME NEW root \in Nat, NEW count \in Nat, Covered(root, count), UNCHANGED storage
  PROVE  Covered(root, count)'
BY DEF Covered

LEMMA UploadedDescribes ==
  ASSUME IdTypeOK, DescribedInv, NEW q \in Posts, Uploaded(q)
  PROVE  DescribedInv'
<1>1. \A i \in DOMAIN storage : i \in DOMAIN storage' /\ storage'[i] = storage[i]
  BY UploadedFields DEF IdTypeOK
<1>2. UNCHANGED <<bought, mempool, token>>
  BY DEF Uploaded
<1>3. \A t \in DOMAIN token' : Covered(token[t].root, token[t].count)'
  BY <1>1, <1>2 DEF DescribedInv, Covered
<1>4. \A i \in DOMAIN mempool' : Covered(mempool[i].root, mempool[i].count)'
  BY <1>1, <1>2 DEF DescribedInv, Covered
<1>5. ASSUME NEW s \in Posts
      PROVE  /\ post'[s].pc = "uploading" => post'[s].calls <= bought'
             /\ post'[s].pc \in {"updating", "minting"} => Covered(post[s].root, post[s].count)'
  <2>1. CASE s = q
    <3>1. post[q].calls <= bought /\ bought \in Nat /\ post[q].calls \in Nat
      BY UploadedFields, RequestFields DEF DescribedInv, IdTypeOK
    <3>2. Len(storage) + 1 \in DOMAIN storage'
      BY UploadedFields DEF IdTypeOK
    <3>3. Covered(post[s].root, post[s].count)'
      BY <2>1, <3>1, <3>2, UploadedFields DEF Covered
    <3>4. post'[s].pc # "uploading"
      BY <2>1, UploadedFields
    <3>5. QED
      BY <3>3, <3>4
  <2>2. CASE s # q
    <3>1. post'[s] = post[s]
      BY <2>2, UploadedFields DEF IdTypeOK
    <3>2. QED
      BY <3>1, <1>1, <1>2 DEF DescribedInv, Covered
  <2>3. QED
    BY <2>1, <2>2
<1>6. QED
  BY <1>3, <1>4, <1>5 DEF DescribedInv

\* The requests of an action that leaves storage alone.
PostsDescribed ==
  \A q \in Posts :
    /\ post[q].pc = "uploading" => post[q].calls <= bought
    /\ post[q].pc \in {"updating", "minting"} => Covered(post[q].root, post[q].count)

\* A request that moves to a place where nothing is asked of it.
LEMMA MovesOn ==
  ASSUME IdTypeOK, DescribedInv, NEW q \in Posts, UNCHANGED <<storage, bought>>,
         NEW pc, pc \notin {"uploading", "updating", "minting"},
         post' = [post EXCEPT ![q].pc = pc] \/
           \E b \in BOOLEAN : post' = [post EXCEPT ![q].pc = pc, ![q].named = b]
  PROVE  PostsDescribed'
<1>1. \A s \in Posts : (s = q /\ post'[s].pc = pc) \/ (s # q /\ post'[s] = post[s])
  BY RequestFields DEF IdTypeOK, Request
<1>2. QED
  BY <1>1 DEF PostsDescribed, DescribedInv, Covered

LEMMA SendsDescribed ==
  ASSUME IdTypeOK, DescribedInv, NEW q \in Posts, post[q].pc \in {"updating", "minting"},
         NEW sent \in BOOLEAN, mempool' = IF sent THEN Append(mempool, Sent(q)) ELSE mempool,
         UNCHANGED storage
  PROVE  \A i \in DOMAIN mempool' : Covered(mempool[i].root, mempool[i].count)'
<1>1. Sent(q).root = post[q].root /\ Sent(q).count = post[q].count
  BY DEF Sent
<1>2. Covered(post[q].root, post[q].count)
  BY DEF DescribedInv
<1>3. mempool \in Seq(Transaction) /\ Sent(q) \in Transaction
  BY SentIsATransaction DEF IdTypeOK
<1>4. \A i \in DOMAIN mempool' :
        (i \in DOMAIN mempool /\ mempool'[i] = mempool[i]) \/ mempool'[i] = Sent(q)
  BY <1>3, Appended
<1>5. QED
  BY <1>1, <1>2, <1>4 DEF DescribedInv, Covered

LEMMA MineDescribes ==
  ASSUME IdTypeOK, DescribedInv, Mine
  PROVE  DescribedInv'
<1>1. mempool # << >> /\ mempool' = Tail(mempool) /\ UNCHANGED <<bought, storage>>
  BY DEF Mine
<1>2. Covered(Head(mempool).root, Head(mempool).count)
  BY <1>1, Pending DEF DescribedInv
<1>3. \A i \in DOMAIN mempool' : Covered(mempool[i].root, mempool[i].count)'
  <2>1. mempool \in Seq(Transaction)
    BY DEF IdTypeOK
  <2>2. \A i \in DOMAIN mempool' : i + 1 \in DOMAIN mempool /\ mempool'[i] = mempool[i + 1]
    BY <1>1, <2>1
  <2>3. QED
    BY <1>1, <2>2 DEF DescribedInv, Covered
<1>4. CASE MintToken(Head(mempool))
  <2>1. \A t \in DOMAIN token' : Covered(token[t].root, token[t].count)'
    <3>1. \A t \in DOMAIN token' :
            (t \in DOMAIN token /\ token'[t] = token[t]) \/
            (token'[t].root = Head(mempool).root /\ token'[t].count = Head(mempool).count)
      BY <1>1, <1>4, MintTokenFields DEF IdTypeOK
    <3>2. QED
      BY <1>1, <1>2, <3>1 DEF DescribedInv, Covered
  <2>2. PostsDescribed'
    BY <1>1, <1>4, MintTokenFields DEF DescribedInv, PostsDescribed, Covered
  <2>3. QED
    BY <1>3, <2>1, <2>2 DEF DescribedInv, PostsDescribed
<1>5. CASE SetMemory(Head(mempool))
  <2>1. \A t \in DOMAIN token' : Covered(token[t].root, token[t].count)'
    BY <1>1, <1>2, <1>5, SetMemoryFields DEF DescribedInv, Covered
  <2>2. PostsDescribed'
    BY <1>1, <1>5, SetMemoryFields DEF DescribedInv, PostsDescribed, Covered
  <2>3. QED
    BY <1>3, <2>1, <2>2 DEF DescribedInv, PostsDescribed
<1>6. QED
  BY <1>4, <1>5 DEF Mine

LEMMA DescribedStep == IdTypeOK /\ DescribedInv /\ [IdNext]_idVars => DescribedInv'
<1> SUFFICES ASSUME IdTypeOK, DescribedInv, [IdNext]_idVars PROVE DescribedInv'
  OBVIOUS
<1> DEFINE Tokens == \A t \in DOMAIN token : Covered(token[t].root, token[t].count)
           Pool == \A i \in DOMAIN mempool : Covered(mempool[i].root, mempool[i].count)
<1>1. Tokens /\ Pool /\ PostsDescribed
  BY DEF DescribedInv, PostsDescribed
<1>2. Tokens' /\ Pool' /\ PostsDescribed' => DescribedInv'
  BY DEF DescribedInv, PostsDescribed
<1>3. UNCHANGED <<storage, token>> => Tokens'
  BY <1>1 DEF Covered
<1>4. UNCHANGED <<storage, mempool>> => Pool'
  BY <1>1 DEF Covered
<1>5. UNCHANGED <<storage, post>> /\ bought' \in Nat /\ bought' >= bought => PostsDescribed'
  <2> SUFFICES ASSUME UNCHANGED <<storage, post>>, bought' \in Nat, bought' >= bought,
                      NEW q \in Posts
               PROVE  /\ post'[q].pc = "uploading" => post'[q].calls <= bought'
                      /\ post'[q].pc \in {"updating", "minting"} => Covered(post[q].root, post[q].count)'
    BY DEF PostsDescribed
  <2>1. post[q].calls \in Nat /\ bought \in Nat
    BY RequestFields DEF IdTypeOK
  <2>2. QED
    BY <1>1, <2>1 DEF PostsDescribed, Covered
<1> HIDE DEF Tokens, Pool
<1>6. CASE Registers \/ Buys
  BY <1>6, <1>2, <1>3, <1>4, <1>5 DEF Registers, Buys, IdTypeOK
<1>7. CASE Mine
  BY <1>7, MineDescribes
<1>8. CASE Restarts
  <2>1. PostsDescribed'
    BY <1>8, RestartsFields DEF PostsDescribed, InFlight
  <2>2. QED
    BY <1>8, <2>1, <1>2, <1>3, <1>4 DEF Restarts
<1>9. ASSUME NEW q \in Posts PROVE PostMint(q) => DescribedInv'
  <2> SUFFICES ASSUME PostMint(q) PROVE DescribedInv'
    OBVIOUS
  <2>1. post' = [post EXCEPT ![q].pc = "reading", ![q].named = registered]
        /\ registered \in BOOLEAN /\ UNCHANGED <<storage, bought>>
        /\ "reading" \notin {"uploading", "updating", "minting"}
    BY DEF PostMint, IdTypeOK
  <2>2. PostsDescribed'
    BY <2>1, MovesOn
  <2>3. QED
    BY <2>2, <1>2, <1>3, <1>4 DEF PostMint
<1>10. ASSUME NEW q \in Posts PROVE Serialises(q) => DescribedInv'
  <2> SUFFICES ASSUME Serialises(q) PROVE DescribedInv'
    OBVIOUS
  <2>1. \A s \in Posts : (s = q /\ post'[s].pc = "uploading" /\ post'[s].calls = bought)
                         \/ (s # q /\ post'[s] = post[s])
    BY RequestFields DEF Serialises, IdTypeOK, Request
  <2>2. PostsDescribed'
    BY <1>1, <2>1 DEF PostsDescribed, Covered, Serialises, IdTypeOK
  <2>3. QED
    BY <2>2, <1>2, <1>3, <1>4 DEF Serialises
<1>11. ASSUME NEW q \in Posts PROVE UploadFails(q) => DescribedInv'
  <2> SUFFICES ASSUME UploadFails(q) PROVE DescribedInv'
    OBVIOUS
  <2>1. post' = [post EXCEPT ![q].pc = "failed"] /\ UNCHANGED <<storage, bought>>
        /\ "failed" \notin {"uploading", "updating", "minting"}
    BY DEF UploadFails
  <2>2. PostsDescribed'
    BY <2>1, MovesOn
  <2>3. QED
    BY <2>2, <1>2, <1>3, <1>4 DEF UploadFails
<1>12. ASSUME NEW q \in Posts PROVE Updates(q) => DescribedInv'
  <2> SUFFICES ASSUME Updates(q) PROVE DescribedInv'
    OBVIOUS
  <2>1. post' = [post EXCEPT ![q].pc = "ready"] /\ UNCHANGED <<storage, bought>>
        /\ "ready" \notin {"uploading", "updating", "minting"}
    BY DEF Updates
  <2>2. PostsDescribed'
    BY <2>1, MovesOn
  <2>3. Pool'
    BY SendsDescribed DEF Updates, Pool
  <2>4. QED
    BY <2>2, <2>3, <1>2, <1>3 DEF Updates
<1>13. ASSUME NEW q \in Posts PROVE Mints(q) => DescribedInv'
  <2> SUFFICES ASSUME Mints(q) PROVE DescribedInv'
    OBVIOUS
  <2>1. PICK sent \in BOOLEAN :
          /\ mempool' = IF sent THEN Append(mempool, Sent(q)) ELSE mempool
          /\ post' = [post EXCEPT ![q].pc = IF sent THEN "mined" ELSE "failed"]
    BY DEF Mints
  <2>2. (IF sent THEN "mined" ELSE "failed") \notin {"uploading", "updating", "minting"}
    OBVIOUS
  <2>3. PostsDescribed'
    BY <2>1, <2>2, MovesOn DEF Mints
  <2>4. Pool'
    BY <2>1, SendsDescribed DEF Mints, Pool
  <2>5. QED
    BY <2>3, <2>4, <1>2, <1>3 DEF Mints
<1>14. ASSUME NEW q \in Posts PROVE Receipt(q) => DescribedInv'
  <2> SUFFICES ASSUME Receipt(q) PROVE DescribedInv'
    OBVIOUS
  <2>1. PICK pc \in {"ready", "failed"} : post' = [post EXCEPT ![q].pc = pc]
    BY DEF Receipt
  <2>2. PostsDescribed'
    BY <2>1, MovesOn DEF Receipt
  <2>3. QED
    BY <2>2, <1>2, <1>3, <1>4 DEF Receipt
<1>15. ASSUME NEW q \in Posts PROVE Uploaded(q) => DescribedInv'
  BY UploadedDescribes
<1>16. ASSUME NEW t \in DOMAIN token PROVE Sells(t) => DescribedInv'
  <2> SUFFICES ASSUME Sells(t) PROVE DescribedInv'
    OBVIOUS
  <2>1. Tokens'
    BY <1>1, SellsFields DEF Tokens, Covered, Sells
  <2>2. QED
    BY <2>1, <1>2, <1>4, <1>5 DEF Sells, IdTypeOK
<1>17. CASE UNCHANGED idVars
  BY <1>17, <1>2, <1>3, <1>4, <1>5 DEF idVars, IdTypeOK
<1>18. QED
  BY <1>6, <1>7, <1>8, <1>9, <1>10, <1>11, <1>12, <1>13, <1>14, <1>15, <1>16, <1>17 DEF IdNext

\* What the buyer of a token reads in its description is never less than the
\* memory it points at, whatever fails, overlaps or restarts (server.ts:289): an
\* error of the count, which the run MemoryMiscounted shows, is always upwards.
THEOREM DescriptionsCover ==
  IdSpec => [](\A t \in DOMAIN token : Covered(token[t].root, token[t].count))
<1>1. IdInit => DescribedInv
  BY DEF IdInit, DescribedInv, NewRequest
<1>2. DescribedInv => \A t \in DOMAIN token : Covered(token[t].root, token[t].count)
  BY DEF DescribedInv
<1>3. QED
  BY <1>1, <1>2, DescribedStep, IdTypeCorrect, PTL DEF IdSpec

-----------------------------------------------------------------------------
(* Without a mishap one request is under way at a time, so each place of a *)
(* request tells what the process knows, what is pending and what the      *)
(* contract holds.                                                         *)

Working(q) == post[q].pc \in InFlight

\* The token has the memory `root`, or a transaction will give it, unless it
\* is sold.
Settles(root) ==
  \/ token[1].owner = Other
  \/ mempool = << >> /\ token[1].root = root
  \/ Len(mempool) = 1 /\ mempool[1].token = 1 /\ mempool[1].root = root

PostCalm(q) ==
  /\ post[q].pc \in {"reading", "uploading", "updating", "minting"} => mempool = << >>
  /\ post[q].pc = "updating" => agenticId.tokenId = 1 /\ post[q].token = 1
  /\ post[q].pc = "minting" => agenticId.tokenId = 0 /\ post[q].token = 0
  /\ post[q].pc = "mined" =>
       /\ agenticId.tokenId = 0 /\ token = << >> /\ Len(mempool) = 1
       /\ mempool[1].post = q /\ mempool[1].token = 0 /\ mempool[1].root = post[q].root
  /\ post[q].pc = "receipt" =>
       /\ agenticId.tokenId = 0 /\ Len(token) = 1 /\ mempool = << >>
       /\ post[q].token = 1 /\ token[1].root = post[q].root

IdCalm ==
  /\ agenticId.tokenId = 0 =>
       \/ token = << >> /\ mempool = << >>
       \/ \E q \in Posts : post[q].pc \in {"mined", "receipt"}
  /\ agenticId.tokenId # 0 =>
       /\ agenticId.tokenId = 1 /\ Len(token) = 1
       /\ mempool = << >> \/ (Len(mempool) = 1 /\ mempool[1].token = 1)
       /\ Settles(agenticId.root)

Calm ==
  /\ \A q, s \in Posts : Working(q) /\ Working(s) => q = s
  /\ \A q \in Posts : PostCalm(q)
  /\ IdCalm

CalmInv == idMishaps = 0 => Calm

\* Where one request at most is under way, only that one is to be looked at.
LEMMA CalmBy ==
  ASSUME NEW q \in Posts, \A s \in Posts : s # q => ~Working(s)', PostCalm(q)', IdCalm'
  PROVE  Calm'
<1>1. ASSUME NEW s \in Posts PROVE PostCalm(s)'
  BY DEF PostCalm, Working, InFlight
<1>2. QED
  BY <1>1 DEF Calm

\* A step of the request that is under way, or of none when nothing is.
LEMMA OthersRest ==
  ASSUME IdTypeOK, Calm, NEW q \in Posts, Working(q) \/ \A s \in Posts : ~Working(s),
         \A s \in Posts : s # q => post'[s] = post[s]
  PROVE  \A s \in Posts : s # q => ~Working(s)'
BY DEF Calm, Working

LEMMA PostMintCalm ==
  ASSUME IdTypeOK, Calm, NEW q \in Posts, PostMint(q), idMishaps' = 0
  PROVE  Calm'
<1>1. Quiet
  BY MishapTypes DEF PostMint, IdMishap, IdTypeOK
<1>2. /\ post'[q].pc = "reading" /\ \A s \in Posts : s # q => post'[s] = post[s]
      /\ UNCHANGED <<agenticId, mempool, token>>
  BY RequestFields DEF PostMint, IdTypeOK, Request
<1>3. \A s \in Posts : s # q => ~Working(s)'
  BY <1>1, <1>2, OthersRest DEF Quiet, Working
<1>4. PostCalm(q)'
  BY <1>1, <1>2 DEF PostCalm, Quiet
<1>5. IdCalm'
  <2>1. ~(\E s \in Posts : post[s].pc \in {"mined", "receipt"})
    BY <1>1 DEF Quiet, InFlight
  <2>2. QED
    BY <2>1, <1>2 DEF Calm, IdCalm, Settles
<1>6. QED
  BY <1>3, <1>4, <1>5, CalmBy

LEMMA SerialisesCalm ==
  ASSUME IdTypeOK, Calm, NEW q \in Posts, Serialises(q)
  PROVE  Calm'
<1>1. /\ post[q].pc = "reading" /\ post'[q].pc = "uploading"
      /\ \A s \in Posts : s # q => post'[s] = post[s]
      /\ UNCHANGED <<agenticId, mempool, token>>
  BY RequestFields DEF Serialises, IdTypeOK, Request
<1>2. \A s \in Posts : s # q => ~Working(s)'
  BY <1>1, OthersRest DEF Working, InFlight
<1>3. PostCalm(q)'
  BY <1>1 DEF Calm, PostCalm
<1>4. ~(\E s \in Posts : post[s].pc \in {"mined", "receipt"})
  BY <1>1 DEF Calm, Working, InFlight
<1>5. IdCalm'
  BY <1>1, <1>4 DEF Calm, IdCalm, Settles
<1>6. QED
  BY <1>2, <1>3, <1>5, CalmBy

LEMMA UploadedCalm ==
  ASSUME IdTypeOK, Calm, NEW q \in Posts, Uploaded(q)
  PROVE  Calm'
<1>1. /\ post[q].pc = "uploading"
      /\ post'[q].pc = IF agenticId.tokenId # 0 THEN "updating" ELSE "minting"
      /\ post'[q].token = agenticId.tokenId
      /\ \A s \in Posts : s # q => post'[s] = post[s]
      /\ UNCHANGED <<agenticId, mempool, token>>
  BY UploadedFields DEF Uploaded, IdTypeOK
<1>2. \A s \in Posts : s # q => ~Working(s)'
  BY <1>1, OthersRest DEF Working, InFlight
<1>3. PostCalm(q)'
  BY <1>1 DEF Calm, PostCalm, IdCalm
<1>4. ~(\E s \in Posts : post[s].pc \in {"mined", "receipt"})
  BY <1>1 DEF Calm, Working, InFlight
<1>5. IdCalm'
  BY <1>1, <1>4 DEF Calm, IdCalm, Settles
<1>6. QED
  BY <1>2, <1>3, <1>5, CalmBy

LEMMA UpdatesCalm ==
  ASSUME IdTypeOK, Calm, NEW q \in Posts, Updates(q), idMishaps' = 0
  PROVE  Calm'
<1>1. PICK sent \in BOOLEAN :
        /\ sent => token[post[q].token].owner = Me
        /\ IdMishap(~sent /\ token[post[q].token].owner = Me)
        /\ mempool' = IF sent THEN Append(mempool, Sent(q)) ELSE mempool
  BY DEF Updates
<1>2. /\ post[q].pc = "updating" /\ post'[q].pc = "ready"
      /\ \A s \in Posts : s # q => post'[s] = post[s]
      /\ UNCHANGED token
      /\ agenticId' = Shown(q)
  BY RequestFields DEF Updates, IdTypeOK, Request
<1>3. agenticId'.tokenId = agenticId.tokenId /\ agenticId'.root = post[q].root
  BY <1>2 DEF Shown
<1>4. \A s \in Posts : s # q => ~Working(s)'
  BY <1>2, OthersRest DEF Working, InFlight
<1>5. PostCalm(q)'
  BY <1>2 DEF PostCalm
<1>6. mempool = << >> /\ agenticId.tokenId = 1 /\ post[q].token = 1
  BY <1>2 DEF Calm, PostCalm
<1>7. Len(token) = 1
  BY <1>6 DEF Calm, IdCalm
<1>8. token[1].owner = Me \/ token[1].owner = Other
  <2>1. token \in Seq(Token) /\ 1 \in DOMAIN token
    BY <1>7 DEF IdTypeOK
  <2>2. token[1] \in Token
    BY <2>1
  <2>3. QED
    BY <2>2 DEF Token
<1>9. CASE sent
  <2>1. mempool' = <<Sent(q)>>
    BY <1>1, <1>6, <1>9
  <2>2. Sent(q).token = 1 /\ Sent(q).root = post[q].root
    BY <1>6 DEF Sent
  <2>3. Len(mempool') = 1 /\ mempool'[1].token = 1 /\ mempool'[1].root = post[q].root
    BY <2>1, <2>2
  <2>4. IdCalm'
    BY <2>3, <1>2, <1>3, <1>6, <1>7 DEF IdCalm, Settles
  <2>5. QED
    BY <2>4, <1>4, <1>5, CalmBy
<1>10. CASE ~sent
  <2>1. token[1].owner # Me
    BY <1>1, <1>6, <1>10, MishapTypes DEF IdMishap, IdTypeOK
  <2>2. mempool' = << >>
    BY <1>1, <1>6, <1>10
  <2>3. IdCalm'
    BY <2>1, <2>2, <1>2, <1>3, <1>6, <1>7, <1>8 DEF IdCalm, Settles
  <2>4. QED
    BY <2>3, <1>4, <1>5, CalmBy
<1>11. QED
  BY <1>9, <1>10

LEMMA MintsCalm ==
  ASSUME IdTypeOK, Calm, NEW q \in Posts, Mints(q), idMishaps' = 0
  PROVE  Calm'
<1>1. PICK sent \in BOOLEAN :
        /\ IdMishap(~sent)
        /\ mempool' = IF sent THEN Append(mempool, Sent(q)) ELSE mempool
        /\ post' = [post EXCEPT ![q].pc = IF sent THEN "mined" ELSE "failed"]
  BY DEF Mints
<1>2. sent
  BY <1>1 DEF IdMishap, IdTypeOK
<1>3. /\ post[q].pc = "minting" /\ UNCHANGED <<agenticId, token>>
      /\ post'[q].pc = "mined" /\ post'[q].token = post[q].token /\ post'[q].root = post[q].root
      /\ \A s \in Posts : s # q => post'[s] = post[s]
  BY <1>1, <1>2, RequestFields DEF Mints, IdTypeOK, Request
<1>4. \A s \in Posts : s # q => ~Working(s)'
  BY <1>3, OthersRest DEF Working, InFlight
<1>5. mempool = << >> /\ agenticId.tokenId = 0
  BY <1>3 DEF Calm, PostCalm
<1>6. ~(\E s \in Posts : post[s].pc \in {"mined", "receipt"})
  BY <1>3 DEF Calm, Working, InFlight
<1>7. token = << >>
  BY <1>5, <1>6 DEF Calm, IdCalm
<1>8. post[q].token = 0
  BY <1>3 DEF Calm, PostCalm
<1>9. mempool' = <<Sent(q)>>
  BY <1>1, <1>2, <1>5
<1>10. Sent(q).post = q /\ Sent(q).token = 0 /\ Sent(q).root = post[q].root
  BY <1>8 DEF Sent
<1>11. Len(mempool') = 1 /\ mempool'[1].post = q /\ mempool'[1].token = 0
       /\ mempool'[1].root = post[q].root
  BY <1>9, <1>10
<1>12. PostCalm(q)'
  BY <1>3, <1>5, <1>7, <1>11 DEF PostCalm
<1>13. IdCalm'
  BY <1>3, <1>5 DEF IdCalm
<1>14. QED
  BY <1>4, <1>12, <1>13, CalmBy

LEMMA MineCalm ==
  ASSUME IdTypeOK, Calm, Mine
  PROVE  Calm'
<1>1. /\ mempool # << >> /\ mempool' = Tail(mempool) /\ UNCHANGED agenticId
      /\ Head(mempool) = mempool[1] /\ mempool \in Seq(Transaction)
  BY Pending DEF Mine, IdTypeOK
<1>q. PICK q \in Posts : q = Head(mempool).post
  BY <1>1, Pending
<1>2. \A s \in Posts : post[s].pc \notin {"reading", "uploading", "updating", "minting", "receipt"}
  BY <1>1 DEF Calm, PostCalm
<1>3. CASE MintToken(Head(mempool))
  <2>1. Head(mempool).token = 0
    BY <1>1, <1>3, MintTokenFields
  <2>2. agenticId.tokenId = 0
    BY <1>1, <2>1 DEF Calm, IdCalm
  <2>3. PICK s \in Posts : post[s].pc = "mined"
    BY <1>1, <1>2, <2>2 DEF Calm, IdCalm
  <2>4. /\ token = << >> /\ Len(mempool) = 1 /\ mempool[1].post = s
        /\ mempool[1].root = post[s].root
    BY <2>3 DEF Calm, PostCalm
  <2>5. s = q /\ Len(token) = 0
    BY <1>1, <1>q, <2>4
  <2>6. mempool' = << >>
    BY <1>1, <2>4
  <2>7. /\ Len(token') = 1 /\ token'[1].root = post[q].root
        /\ post'[q].pc = "receipt" /\ post'[q].token = 1 /\ post'[q].root = post[q].root
        /\ \A r \in Posts : r # q => post'[r] = post[r]
    BY <1>1, <1>q, <1>3, <2>3, <2>4, <2>5, MintTokenFields
  <2>8. \A r \in Posts : r # q => ~Working(r)'
    BY <1>1, <2>3, <2>5, <2>7, OthersRest DEF Working, InFlight
  <2>9. PostCalm(q)'
    BY <1>1, <2>2, <2>6, <2>7 DEF PostCalm
  <2>10. IdCalm'
    BY <1>1, <2>2, <2>7 DEF IdCalm
  <2>11. QED
    BY <1>1, <2>8, <2>9, <2>10, CalmBy
<1>4. CASE SetMemory(Head(mempool))
  <2>1. Head(mempool).token # 0 /\ post' = post
    BY <1>1, <1>4, SetMemoryFields
  <2>2. \A s \in Posts : post[s].pc # "mined"
    BY <1>1, <2>1 DEF Calm, PostCalm
  <2>3. \A s \in Posts : PostCalm(s)'
    BY <1>2, <2>1, <2>2 DEF PostCalm
  <2>4. agenticId.tokenId # 0
    BY <1>1, <1>2, <2>2 DEF Calm, IdCalm
  <2>5. /\ agenticId.tokenId = 1 /\ Len(token) = 1 /\ Len(mempool) = 1 /\ mempool[1].token = 1
        /\ Settles(agenticId.root)
    BY <1>1, <2>4 DEF Calm, IdCalm
  <2>6. token[1].owner = Me \/ token[1].owner = Other
    <3>1. token \in Seq(Token) /\ 1 \in DOMAIN token
      BY <2>5 DEF IdTypeOK
    <3>2. token[1] \in Token
      BY <3>1
    <3>3. QED
      BY <3>2 DEF Token
  <2>7. token[1].owner = Other \/ mempool[1].root = agenticId.root
    BY <1>1, <2>5 DEF Settles
  <2>8. mempool' = << >>
    BY <1>1, <2>5
  <2>9. 1 \in DOMAIN token
    BY <2>5, <1>1, <1>4, SetMemoryFields DEF IdTypeOK
  <2>10. Len(token') = 1 /\ (token'[1].owner = Other \/ token'[1].root = agenticId.root)
    BY <1>1, <1>4, <2>5, <2>6, <2>7, <2>9, SetMemoryFields
  <2>11. IdCalm'
    BY <1>1, <2>5, <2>8, <2>10 DEF IdCalm, Settles
  <2>12. QED
    BY <2>1, <2>3, <2>11 DEF Calm, Working
<1>5. QED
  BY <1>3, <1>4 DEF Mine

LEMMA ReceiptCalm ==
  ASSUME IdTypeOK, Calm, NEW q \in Posts, Receipt(q), idMishaps' = 0
  PROVE  Calm'
<1>1. post[q].pc = "receipt" /\ UNCHANGED <<mempool, token>>
  BY DEF Receipt
<1>2. agenticId' = Minted(q) /\ post' = [post EXCEPT ![q].pc = "ready"]
  BY DEF Receipt, IdMishap, IdTypeOK
<1>3. post'[q].pc = "ready" /\ \A s \in Posts : s # q => post'[s] = post[s]
  BY <1>2, RequestFields DEF IdTypeOK, Request
<1>4. \A s \in Posts : s # q => ~Working(s)'
  BY <1>1, <1>3, OthersRest DEF Working, InFlight
<1>5. PostCalm(q)'
  BY <1>3 DEF PostCalm
<1>6. /\ Len(token) = 1 /\ mempool = << >> /\ post[q].token = 1
      /\ token[1].root = post[q].root
  BY <1>1 DEF Calm, PostCalm
<1>7. agenticId'.tokenId = 1 /\ agenticId'.root = post[q].root
  BY <1>2, <1>6 DEF Minted
<1>8. IdCalm'
  BY <1>1, <1>6, <1>7 DEF IdCalm, Settles
<1>9. QED
  BY <1>4, <1>5, <1>8, CalmBy

LEMMA SellsCalm ==
  ASSUME IdTypeOK, Calm, NEW t \in DOMAIN token, Sells(t)
  PROVE  Calm'
<1>1. UNCHANGED <<agenticId, post, mempool>>
  BY DEF Sells
<1>2. token # << >> /\ Len(token') = Len(token)
      /\ \A s \in DOMAIN token :
           /\ token'[s].root = token[s].root
           /\ token[s].owner = Other => token'[s].owner = Other
  BY SellsFields DEF IdTypeOK
<1>3. Len(token) = 1 => 1 \in DOMAIN token
  BY DEF IdTypeOK
<1>4. ASSUME NEW q \in Posts PROVE PostCalm(q)'
  <2>1. PostCalm(q)
    BY DEF Calm
  <2>2. QED
    BY <2>1, <1>1, <1>2, <1>3 DEF PostCalm
<1>5. IdCalm'
  BY <1>1, <1>2, <1>3 DEF Calm, IdCalm, Settles
<1>6. QED
  BY <1>1, <1>4, <1>5 DEF Calm, Working

LEMMA RestCalm ==
  ASSUME Calm, UNCHANGED <<agenticId, post, mempool, token>>
  PROVE  Calm'
BY DEF Calm, PostCalm, IdCalm, Settles, Working

LEMMA CalmStep == IdTypeOK /\ CalmInv /\ [IdNext]_idVars => CalmInv'
<1> SUFFICES ASSUME IdTypeOK, CalmInv, [IdNext]_idVars, idMishaps' = 0 PROVE Calm'
  BY DEF CalmInv
<1>1. idMishaps = 0
  BY MishapTypes DEF IdNext, idVars, Registers, Buys, Mine, Restarts, PostMint, Serialises,
     UploadFails, Uploaded, Updates, Mints, Receipt, Sells, IdMishap, IdTypeOK
<1>2. Calm
  BY <1>1 DEF CalmInv
<1>3. CASE Registers \/ Buys \/ UNCHANGED idVars
  BY <1>2, <1>3, RestCalm DEF Registers, Buys, idVars
<1>4. CASE Mine
  BY <1>2, <1>4, MineCalm
<1>5. ~Restarts
  BY RestartsFields
<1>6. ASSUME NEW q \in Posts PROVE ~UploadFails(q)
  BY DEF UploadFails, IdMishap, IdTypeOK
<1>7. ASSUME NEW q \in Posts,
             PostMint(q) \/ Serialises(q) \/ Uploaded(q) \/ Updates(q) \/ Mints(q) \/ Receipt(q)
      PROVE  Calm'
  BY <1>2, <1>7, PostMintCalm, SerialisesCalm, UploadedCalm, UpdatesCalm, MintsCalm, ReceiptCalm
<1>8. ASSUME NEW t \in DOMAIN token, Sells(t) PROVE Calm'
  BY <1>2, <1>8, SellsCalm
<1>9. QED
  BY <1>3, <1>4, <1>5, <1>6, <1>7, <1>8 DEF IdNext

LEMMA CalmAlways == IdSpec => [](IdTypeOK /\ CalmInv)
<1>1. IdInit => CalmInv
  BY DEF IdInit, CalmInv, Calm, PostCalm, IdCalm, Working, InFlight, NewRequest, NoId
<1>2. QED
  BY <1>1, CalmStep, IdTypeCorrect, PTL DEF IdSpec

\* The process mints once, however often it is asked to: a request that begins
\* when another is over finds the token in `agenticId` (server.ts:291-305).
THEOREM MintsOnce == IdSpec => []OneTokenPerAgent
<1>1. IdTypeOK /\ CalmInv => OneTokenPerAgent
  <2> SUFFICES ASSUME IdTypeOK, Calm PROVE Len(token) <= 1
    BY DEF CalmInv, OneTokenPerAgent
  <2>1. CASE agenticId.tokenId # 0
    <3>1. Len(token) = 1
      BY <2>1 DEF Calm, IdCalm
    <3>2. QED
      BY <3>1
  <2>2. CASE agenticId.tokenId = 0 /\ token = << >>
    BY <2>2
  <2>3. ASSUME NEW q \in Posts, post[q].pc \in {"mined", "receipt"} PROVE Len(token) <= 1
    <3>1. token = << >> \/ Len(token) = 1
      BY <2>3 DEF Calm, PostCalm
    <3>2. QED
      BY <3>1
  <2>4. QED
    BY <2>1, <2>2, <2>3 DEF Calm, IdCalm
<1>2. QED
  BY <1>1, CalmAlways, PTL

\* When nothing is under way, GET /agentic-id shows the memory the token points
\* at, as long as the process owns it (server.ts:40-41).
THEOREM ShownMemoryIsTrue == IdSpec => []ShownMemoryIsTheTokens
<1>1. IdTypeOK /\ CalmInv => ShownMemoryIsTheTokens
  <2> SUFFICES ASSUME Calm, Quiet, agenticId.tokenId # 0
               PROVE  token[agenticId.tokenId].owner = Other
                      \/ token[agenticId.tokenId].root = agenticId.root
    BY DEF CalmInv, ShownMemoryIsTheTokens
  <2>1. agenticId.tokenId = 1 /\ Settles(agenticId.root) /\ mempool = << >>
    BY DEF Calm, IdCalm, Quiet
  <2>2. QED
    BY <2>1 DEF Settles
<1>2. QED
  BY <1>1, CalmAlways, PTL

-----------------------------------------------------------------------------
(* Sorted enumerations of finite sets.                                     *)

LEMMA MinOfNats ==
  ASSUME NEW T, T \subseteq Nat, T # {}
  PROVE  \E x \in T : \A y \in T : x <= y
<1>1. PICK x \in T : \A y \in T : ~(<<y, x>> \in OpToRel(<, Nat))
  BY NatLessThanWellFounded, WFMin
<1>2. ASSUME NEW y \in T PROVE x <= y
  <2>1. y \in Nat /\ x \in Nat /\ ~(y < x)
    BY <1>1 DEF OpToRel
  <2>2. QED
    BY <2>1
<1>3. QED
  BY <1>2

\* An enumeration of a finite set by numbers up to its cardinality names all of
\* it.
LEMMA EnumerationCovers ==
  ASSUME NEW S, IsFiniteSet(S), NEW s \in SetToSeqs(S)
  PROVE  /\ Cardinality(S) \in Nat /\ s \in [1..Cardinality(S) -> S]
         /\ DOMAIN s = 1..Cardinality(S) /\ Len(s) = Cardinality(S)
         /\ \A x \in S : \E i \in DOMAIN s : s[i] = x
<1> DEFINE N == Cardinality(S)
<1>1. N \in Nat
  BY FS_CardinalityType
<1>2. s \in [1..N -> S] /\ \A i, j \in 1..N : i # j => s[i] # s[j]
  BY DEF SetToSeqs
<1>3. s \in Injection(1..N, S)
  BY <1>2 DEF Injection, IsInjective
<1>4. Cardinality(1..N) = N
  BY <1>1, FS_Interval
<1>5. s \in Surjection(1..N, S)
  BY <1>3, <1>4, FS_Injection
<1>6. \A x \in S : \E i \in 1..N : s[i] = x
  BY <1>5 DEF Surjection
<1>7. DOMAIN s = 1..N /\ Len(s) = N
  BY <1>1, <1>2
<1>8. QED
  BY <1>1, <1>2, <1>6, <1>7

\* A finite set has an enumeration along any strict total order, a set of pairs:
\* place each element after those below it.
LEMMA SortedEnumeration ==
  ASSUME NEW S, IsFiniteSet(S), NEW P,
         \A x \in S : <<x, x>> \notin P,
         \A x, y, z \in S : <<x, y>> \in P /\ <<y, z>> \in P => <<x, z>> \in P,
         \A x, y \in S : x # y => <<x, y>> \in P \/ <<y, x>> \in P
  PROVE  \E s \in SetToSeqs(S) : \A i, j \in DOMAIN s : i < j => <<s[i], s[j]>> \in P
<1> DEFINE N == Cardinality(S)
           Below(x) == {y \in S : <<y, x>> \in P}
           rank == [x \in S |-> Cardinality(Below(x)) + 1]
<1>1. N \in Nat
  BY FS_CardinalityType
<1>2. ASSUME NEW x \in S
      PROVE  IsFiniteSet(Below(x)) /\ Cardinality(Below(x)) \in Nat /\ Cardinality(Below(x)) <= N - 1
  <2>1. IsFiniteSet(S \ {x}) /\ Cardinality(S \ {x}) = N - 1
    BY FS_RemoveElement
  <2>2. Below(x) \in SUBSET (S \ {x})
    OBVIOUS
  <2> HIDE DEF Below
  <2>3. IsFiniteSet(Below(x)) /\ Cardinality(Below(x)) <= Cardinality(S \ {x})
    BY <2>1, <2>2, FS_Subset
  <2>4. QED
    BY <2>1, <2>3, FS_CardinalityType
<1>3. ASSUME NEW x \in S, NEW y \in S, <<x, y>> \in P
      PROVE  rank[x] < rank[y]
  <2>1. Below(x) \in SUBSET Below(y) /\ x \in Below(y) /\ x \notin Below(x)
    BY <1>3
  <2>2. rank[x] = Cardinality(Below(x)) + 1 /\ rank[y] = Cardinality(Below(y)) + 1
    OBVIOUS
  <2> HIDE DEF rank
  <2>3. IsFiniteSet(Below(y)) /\ Cardinality(Below(x)) \in Nat /\ Cardinality(Below(y)) \in Nat
    BY <1>2
  <2> HIDE DEF Below
  <2>4. Cardinality(Below(x)) <= Cardinality(Below(y)) /\ Cardinality(Below(x)) # Cardinality(Below(y))
    BY <2>1, <2>3, FS_Subset
  <2>5. QED
    BY <2>2, <2>3, <2>4
<1>4. rank \in [S -> 1..N]
  <2> SUFFICES ASSUME NEW x \in S PROVE Cardinality(Below(x)) + 1 \in 1..N
    OBVIOUS
  <2> HIDE DEF Below, N
  <2>1. QED
    BY <1>1, <1>2
<1> HIDE DEF rank, Below
<1>5. ASSUME NEW x \in S, NEW y \in S, rank[x] = rank[y]
      PROVE  x = y
  <2>1. rank[x] \in Int /\ rank[y] \in Int
    BY <1>4
  <2>2. ~(rank[x] < rank[y]) /\ ~(rank[y] < rank[x])
    BY <1>5, <2>1
  <2>3. QED
    BY <1>3, <2>2
<1>6. rank \in Injection(S, 1..N)
  BY <1>4, <1>5 DEF Injection, IsInjective
<1>7. IsFiniteSet(1..N) /\ Cardinality(1..N) = N
  BY <1>1, FS_Interval
<1>8. rank \in Surjection(S, 1..N)
  BY <1>6, <1>7, FS_Injection
<1>9. \A i \in 1..N : \E x \in S : rank[x] = i
  BY <1>8 DEF Surjection
<1> DEFINE s == [i \in 1..N |-> CHOOSE x \in S : rank[x] = i]
<1>10. \A i \in 1..N : s[i] \in S /\ rank[s[i]] = i
  BY <1>9
<1>11. s \in [1..N -> S] /\ DOMAIN s = 1..N
  BY <1>10
<1> HIDE DEF s
<1>12. s \in SetToSeqs(S)
  BY <1>10, <1>11 DEF SetToSeqs
<1>13. ASSUME NEW i \in DOMAIN s, NEW j \in DOMAIN s, i < j
       PROVE  <<s[i], s[j]>> \in P
  <2>1. s[i] \in S /\ s[j] \in S /\ rank[s[i]] = i /\ rank[s[j]] = j
    BY <1>10, <1>11
  <2>2. i \in Int /\ j \in Int
    BY <1>11
  <2>3. i # j /\ ~(j < i)
    BY <1>13, <2>2
  <2>4. s[i] # s[j] /\ ~(<<s[j], s[i]>> \in P)
    BY <1>3, <2>1, <2>3
  <2>5. QED
    BY <2>1, <2>4
<1>14. QED
  BY <1>12, <1>13

-----------------------------------------------------------------------------
(* The list of models, cheapest first.                                     *)

\* What an ask of each model, and its first place, are.
Offers(asks, m) == {i \in DOMAIN asks : asks[i].model = m}
Ask(asks, m) == CHOOSE x \in {asks[i].price : i \in Offers(asks, m)} :
                  \A i \in Offers(asks, m) : x <= asks[i].price
First(asks, m) == CHOOSE i \in Offers(asks, m) : \A j \in Offers(asks, m) : i <= j
Before(asks, a, b) == \/ a.price < b.price
                      \/ a.price = b.price /\ First(asks, a.model) < First(asks, b.model)
Cheapest(asks) == {[model |-> asks[i].model, price |-> Ask(asks, asks[i].model)] : i \in DOMAIN asks}

Priced(asks) == DOMAIN asks \subseteq Nat /\ IsFiniteSet(DOMAIN asks) /\ \A i \in DOMAIN asks : asks[i].price \in Nat

LEMMA AskIs ==
  ASSUME NEW asks, Priced(asks), NEW k \in DOMAIN asks
  PROVE  LET m == asks[k].model IN
         /\ Ask(asks, m) \in Nat
         /\ \E i \in Offers(asks, m) : asks[i].price = Ask(asks, m)
         /\ \A i \in Offers(asks, m) : Ask(asks, m) <= asks[i].price
         /\ First(asks, m) \in Offers(asks, m)
<1> DEFINE m == asks[k].model
           O == Offers(asks, m)
           T == {asks[i].price : i \in O}
<1>1. O \subseteq DOMAIN asks /\ k \in O
  BY DEF Offers
<1>2. T \subseteq Nat /\ T # {} /\ O \subseteq Nat /\ O # {}
  BY <1>1 DEF Priced
<1>3. Ask(asks, m) = CHOOSE x \in T : \A i \in O : x <= asks[i].price
  BY DEF Ask
<1>4. First(asks, m) = CHOOSE i \in O : \A j \in O : i <= j
  BY DEF First
<1>5. \A i \in O : asks[i].price \in T
  OBVIOUS
<1>6. \A x \in T : \E i \in O : asks[i].price = x
  OBVIOUS
<1> HIDE DEF m, O, T
<1>7. \E x \in T : \A i \in O : x <= asks[i].price
  <2>1. PICK x \in T : \A y \in T : x <= y
    BY <1>2, MinOfNats
  <2>2. QED
    BY <2>1, <1>5
<1>8. Ask(asks, m) \in T /\ \A i \in O : Ask(asks, m) <= asks[i].price
  BY <1>3, <1>7
<1>9. \E i \in O : \A j \in O : i <= j
  BY <1>2, MinOfNats
<1>10. First(asks, m) \in O
  BY <1>4, <1>9
<1>11. QED
  BY <1>2, <1>6, <1>8, <1>10 DEF m, O

\* Distinct models have distinct first places, so the order is total.
LEMMA CheapestFirstSorts ==
  ASSUME NEW asks, Priced(asks)
  PROVE  LET s == CheapestFirst(asks) IN
         /\ IsFiniteSet(Cheapest(asks))
         /\ s \in SetToSeqs(Cheapest(asks))
         /\ \A i, j \in DOMAIN s : i < j => Before(asks, s[i], s[j])
<1> DEFINE S == Cheapest(asks)
           P == {p \in S \X S : Before(asks, p[1], p[2])}
           D == DOMAIN asks
           f == [i \in D |-> [model |-> asks[i].model, price |-> Ask(asks, asks[i].model)]]
<1>1. IsFiniteSet(S)
  <2>1. f \in Surjection(D, S)
    BY DEF Surjection, Cheapest
  <2>2. IsFiniteSet(D)
    BY DEF Priced
  <2> HIDE DEF f, D, S
  <2>3. QED
    BY <2>1, <2>2, FS_Surjection
<1>2. ASSUME NEW a \in S
      PROVE  /\ a.price \in Nat /\ a.price = Ask(asks, a.model)
             /\ a = [model |-> a.model, price |-> Ask(asks, a.model)]
             /\ First(asks, a.model) \in Nat
             /\ First(asks, a.model) \in DOMAIN asks
             /\ asks[First(asks, a.model)].model = a.model
  <2>1. PICK i \in DOMAIN asks : a = [model |-> asks[i].model, price |-> Ask(asks, asks[i].model)]
    BY DEF Cheapest
  <2>2. a.model = asks[i].model /\ a.price = Ask(asks, asks[i].model)
    BY <2>1
  <2>3. Ask(asks, a.model) \in Nat /\ First(asks, a.model) \in Offers(asks, a.model)
    BY <2>2, AskIs
  <2>4. First(asks, a.model) \in DOMAIN asks /\ asks[First(asks, a.model)].model = a.model
    BY <2>3 DEF Offers
  <2>5. QED
    BY <2>1, <2>2, <2>3, <2>4 DEF Priced
<1>3. \A x, y \in S : <<x, y>> \in P <=> Before(asks, x, y)
  OBVIOUS
<1> HIDE DEF S, P
<1>4. ASSUME NEW x \in S PROVE <<x, x>> \notin P
  <2>1. ~Before(asks, x, x)
    BY <1>2 DEF Before
  <2>2. QED
    BY <2>1, <1>3
<1>5. ASSUME NEW x \in S, NEW y \in S, NEW z \in S, <<x, y>> \in P, <<y, z>> \in P
      PROVE  <<x, z>> \in P
  <2>1. Before(asks, x, y) /\ Before(asks, y, z)
    BY <1>3, <1>5
  <2>2. Before(asks, x, z)
    BY <2>1, <1>2 DEF Before
  <2>3. QED
    BY <2>2, <1>3
<1>6. ASSUME NEW x \in S, NEW y \in S, x # y
      PROVE  <<x, y>> \in P \/ <<y, x>> \in P
  <2>1. x.model # y.model
    BY <1>2, <1>6
  <2>2. First(asks, x.model) # First(asks, y.model)
    BY <1>2, <2>1
  <2>3. Before(asks, x, y) \/ Before(asks, y, x)
    BY <1>2, <2>2 DEF Before
  <2>4. QED
    BY <2>3, <1>3
<1>7. PICK t \in SetToSeqs(S) : \A i, j \in DOMAIN t : i < j => <<t[i], t[j]>> \in P
  BY <1>1, <1>4, <1>5, <1>6, SortedEnumeration
<1>8. \A i \in DOMAIN t : t[i] \in S
  BY <1>1, EnumerationCovers
<1>9. \A i, j \in DOMAIN t : i < j => Before(asks, t[i], t[j])
  BY <1>3, <1>7, <1>8
<1>10. CheapestFirst(asks) =
         CHOOSE s \in SetToSeqs(S) : \A i, j \in DOMAIN s : i < j => Before(asks, s[i], s[j])
  BY DEF CheapestFirst, S, Cheapest, Before, Ask, First, Offers
<1>11. /\ CheapestFirst(asks) \in SetToSeqs(S)
       /\ LET s == CheapestFirst(asks) IN
          \A i, j \in DOMAIN s : i < j => Before(asks, s[i], s[j])
  BY <1>9, <1>10
<1>12. QED
  BY <1>1, <1>11 DEF S

\* The list holds each model that is asked for once, at its lowest ask, and the
\* asks never fall along it.
LEMMA CheapestFirstIs ==
  ASSUME NEW asks, Priced(asks), NEW s, s = CheapestFirst(asks)
  PROVE  /\ Len(s) \in Nat /\ DOMAIN s = 1..Len(s)
         /\ \A i \in DOMAIN s : /\ s[i].price \in Nat
                                /\ \E k \in DOMAIN asks : s[i].model = asks[k].model /\ s[i].price = asks[k].price
                                /\ \A k \in DOMAIN asks : asks[k].model = s[i].model => s[i].price <= asks[k].price
         /\ \A k \in DOMAIN asks : \E i \in DOMAIN s : s[i].model = asks[k].model
         /\ \A i, j \in DOMAIN s : i <= j => s[i].price <= s[j].price
<1> DEFINE S == Cheapest(asks)
<1>1. IsFiniteSet(S) /\ s \in SetToSeqs(S)
      /\ \A i, j \in DOMAIN s : i < j => Before(asks, s[i], s[j])
  BY CheapestFirstSorts
<1>2. ASSUME NEW x \in S
      PROVE  /\ x.price \in Nat
             /\ \E k \in DOMAIN asks : x.model = asks[k].model /\ x.price = asks[k].price
             /\ \A k \in DOMAIN asks : asks[k].model = x.model => x.price <= asks[k].price
  <2>1. PICK i \in DOMAIN asks : x = [model |-> asks[i].model, price |-> Ask(asks, asks[i].model)]
    BY DEF Cheapest
  <2>2. x.model = asks[i].model /\ x.price = Ask(asks, x.model)
    BY <2>1
  <2>3. /\ Ask(asks, x.model) \in Nat
        /\ \E k \in Offers(asks, x.model) : asks[k].price = Ask(asks, x.model)
        /\ \A k \in Offers(asks, x.model) : Ask(asks, x.model) <= asks[k].price
    BY <2>2, AskIs
  <2>4. QED
    BY <2>2, <2>3 DEF Offers
<1>3. ASSUME NEW k \in DOMAIN asks PROVE \E x \in S : x.model = asks[k].model
  <2> DEFINE x == [model |-> asks[k].model, price |-> Ask(asks, asks[k].model)]
  <2>1. x \in S /\ x.model = asks[k].model
    BY DEF Cheapest
  <2> HIDE DEF x
  <2>2. QED
    BY <2>1
<1> HIDE DEF S
<1>4. /\ Cardinality(S) \in Nat /\ DOMAIN s = 1..Cardinality(S) /\ Len(s) = Cardinality(S)
      /\ \A i \in DOMAIN s : s[i] \in S
      /\ \A x \in S : \E i \in DOMAIN s : s[i] = x
  BY <1>1, EnumerationCovers
<1>5. \A k \in DOMAIN asks : \E i \in DOMAIN s : s[i].model = asks[k].model
  BY <1>3, <1>4
<1>6. ASSUME NEW i \in DOMAIN s, NEW j \in DOMAIN s, i <= j
      PROVE  s[i].price <= s[j].price
  <2>1. s[i].price \in Nat /\ s[j].price \in Nat
    BY <1>2, <1>4
  <2>2. i \in Int /\ j \in Int
    BY <1>4
  <2>3. CASE i = j
    BY <2>1, <2>3
  <2>4. CASE i < j
    BY <1>1, <2>1, <2>4 DEF Before
  <2>5. QED
    BY <1>6, <2>2, <2>3, <2>4
<1>7. QED
  BY <1>2, <1>4, <1>5, <1>6

-----------------------------------------------------------------------------
(* The market, and the route chosen on it.                                 *)

LiveAsks(providers) ==
  [i \in {k \in DOMAIN providers : providers[k].status = "live"} |->
     [model |-> providers[i].model, price |-> RouterPrice(providers[i])]]

LEMMA MarketRows ==
  ASSUME NEW providers \in BoundedSeq(MarketRow, MarketSize)
  PROVE  /\ IsFiniteSet(DOMAIN providers) /\ DOMAIN providers \subseteq Nat
         /\ \A i \in DOMAIN providers : /\ providers[i] \in MarketRow
                                        /\ RouterPrice(providers[i]) \in Nat
<1>1. PICK n \in 0..MarketSize : providers \in [1..n -> MarketRow]
  BY DEF BoundedSeq, SeqOf
<1>2. n \in Nat
  BY <1>1, MarketSizeAssumption
<1>3. IsFiniteSet(1..n)
  BY <1>2, FS_Interval
<1>4. ASSUME NEW i \in DOMAIN providers
      PROVE  providers[i] \in MarketRow /\ RouterPrice(providers[i]) \in Nat
  <2>1. providers[i] \in MarketRow
    BY <1>1
  <2>2. QED
    BY <2>1, AsksAssumption DEF MarketRow, RouterPrice
<1>5. QED
  BY <1>1, <1>2, <1>3, <1>4

LEMMA LiveAsksArePriced ==
  ASSUME NEW providers \in BoundedSeq(MarketRow, MarketSize)
  PROVE  /\ Priced(LiveAsks(providers))
         /\ liveModels(providers) = CheapestFirst(LiveAsks(providers))
<1> DEFINE live == {k \in DOMAIN providers : providers[k].status = "live"}
<1>1. live \in SUBSET DOMAIN providers
  OBVIOUS
<1>2. DOMAIN LiveAsks(providers) = live
      /\ \A i \in live : LiveAsks(providers)[i].price = RouterPrice(providers[i])
  BY DEF LiveAsks
<1>3. liveModels(providers) = CheapestFirst(LiveAsks(providers))
  BY DEF liveModels, LiveAsks
<1> HIDE DEF live
<1>4. IsFiniteSet(live)
  BY <1>1, MarketRows, FS_Subset
<1>5. QED
  BY <1>1, <1>2, <1>3, <1>4, MarketRows DEF Priced

\* The router's list, in terms of the live offers on the market.
ListsOffers(s, L) ==
  /\ Len(s) \in Nat /\ DOMAIN s = 1..Len(s)
  /\ \A i \in DOMAIN s : /\ s[i].price \in Nat
                         /\ \E p \in L : p.model = s[i].model /\ RouterPrice(p) = s[i].price
                         /\ \A p \in L : p.model = s[i].model => s[i].price <= RouterPrice(p)
  /\ \A p \in L : RouterPrice(p) \in Nat /\ \E i \in DOMAIN s : s[i].model = p.model
  /\ \A i, j \in DOMAIN s : i <= j => s[i].price <= s[j].price

LEMMA LiveModelsAre ==
  ASSUME NEW providers \in BoundedSeq(MarketRow, MarketSize), NEW s, s = liveModels(providers),
         NEW L, L = {p \in ToSet(providers) : p.status = "live"}
  PROVE  ListsOffers(s, L)
<1> DEFINE asks == LiveAsks(providers)
<1>1. Priced(asks) /\ s = CheapestFirst(asks)
  BY LiveAsksArePriced
<1>2. /\ \A k \in DOMAIN asks : /\ providers[k] \in L /\ asks[k].model = providers[k].model
                                /\ asks[k].price = RouterPrice(providers[k])
      /\ \A p \in L : \E k \in DOMAIN asks : providers[k] = p
  BY DEF LiveAsks, ToSet
<1>3. \A p \in L : RouterPrice(p) \in Nat
  BY MarketRows DEF ToSet
<1> HIDE DEF asks
<1>4. /\ Len(s) \in Nat /\ DOMAIN s = 1..Len(s)
      /\ \A i \in DOMAIN s : /\ s[i].price \in Nat
                             /\ \E k \in DOMAIN asks : s[i].model = asks[k].model /\ s[i].price = asks[k].price
                             /\ \A k \in DOMAIN asks : asks[k].model = s[i].model => s[i].price <= asks[k].price
      /\ \A k \in DOMAIN asks : \E i \in DOMAIN s : s[i].model = asks[k].model
      /\ \A i, j \in DOMAIN s : i <= j => s[i].price <= s[j].price
  BY <1>1, CheapestFirstIs
<1>5. ASSUME NEW i \in DOMAIN s
      PROVE  /\ \E p \in L : p.model = s[i].model /\ RouterPrice(p) = s[i].price
             /\ \A p \in L : p.model = s[i].model => s[i].price <= RouterPrice(p)
  <2>1. \E p \in L : p.model = s[i].model /\ RouterPrice(p) = s[i].price
    <3>1. PICK k \in DOMAIN asks : s[i].model = asks[k].model /\ s[i].price = asks[k].price
      BY <1>4
    <3>2. QED
      BY <1>2, <3>1
  <2>2. ASSUME NEW p \in L, p.model = s[i].model PROVE s[i].price <= RouterPrice(p)
    <3>1. PICK k \in DOMAIN asks : providers[k] = p
      BY <1>2
    <3>2. asks[k].model = s[i].model /\ asks[k].price = RouterPrice(p)
      BY <1>2, <2>2, <3>1
    <3>3. QED
      BY <1>4, <3>2
  <2>3. QED
    BY <2>1, <2>2
<1>6. ASSUME NEW p \in L PROVE \E i \in DOMAIN s : s[i].model = p.model
  BY <1>2, <1>4
<1>7. QED
  BY <1>3, <1>4, <1>5, <1>6 DEF ListsOffers

\* The three places of the list the router takes, when it is not empty.
LEMMA RoutesArePlaces ==
  ASSUME NEW q, NEW providers, NEW s, s = liveModels(providers), Len(s) \in Nat, Len(s) >= 1
  PROVE  LET mid == (Len(s) - 1) \div 2 + 1 IN
         /\ mid \in 1..Len(s)
         /\ q.hard => routeModel(q, providers) = [model |-> s[Len(s)].model, tier |-> "premium"]
         /\ ~q.hard /\ q.short => routeModel(q, providers) = [model |-> s[1].model, tier |-> "simple"]
         /\ ~q.hard /\ ~q.short => routeModel(q, providers) = [model |-> s[mid].model, tier |-> "medium"]
<1>1. (Len(s) - 1) \div 2 + 1 \in 1..Len(s)
  OBVIOUS
<1>2. Len(s) # 0
  OBVIOUS
<1>3. q.hard => routeModel(q, providers) = [model |-> s[Len(s)].model, tier |-> "premium"]
  BY <1>2 DEF routeModel
<1>4. ~q.hard /\ q.short => routeModel(q, providers) = [model |-> s[1].model, tier |-> "simple"]
  BY <1>2 DEF routeModel
<1>5. ~q.hard /\ ~q.short =>
        routeModel(q, providers) = [model |-> s[(Len(s) - 1) \div 2 + 1].model, tier |-> "medium"]
  BY <1>2 DEF routeModel
<1>6. QED
  BY <1>1, <1>3, <1>4, <1>5

RouteInv ==
  /\ market \in {Unreachable} \cup BoundedSeq(MarketRow, MarketSize)
  /\ query \in [hard : BOOLEAN, short : BOOLEAN]
  /\ route = NoRoute \/ route = routedBuyFor(query, pick, market)

LEMMA RouteInvAlways == RouteSpec => []RouteInv
<1>1. RouteInit => RouteInv
  BY DEF RouteInit, RouteInv
<1>2. RouteInv /\ [RouteNext]_routeVars => RouteInv'
  <2> SUFFICES ASSUME RouteInv, [RouteNext]_routeVars PROVE RouteInv'
    OBVIOUS
  <2>1. CASE Route
    BY <2>1 DEF RouteInv, Route
  <2>2. CASE UNCHANGED routeVars
    BY <2>2 DEF RouteInv, routeVars
  <2>3. QED
    BY <2>1, <2>2 DEF RouteNext
<1>3. QED
  BY <1>1, <1>2, PTL DEF RouteSpec

-----------------------------------------------------------------------------
\* The price of the model a goal is sent to follows its tier, on every market
\* (route-model.ts:3-4, 36-38): the cheapest model for a simple prompt, the
\* dearest for a hard one, and one in between for any other.
THEOREM PricesFollowTiers == RouteSpec => []TiersFollowPrices
<1>1. RouteInv => TiersFollowPrices
  <2> DEFINE L == LiveOffers
             of(m) == {p \in L : p.model = m}
             prices(m) == {RouterPrice(p) : p \in of(m)}
             ask(m) == CHOOSE x \in prices(m) : \A p \in of(m) : x <= RouterPrice(p)
             other(q) == ask(routeModel(q, market).model)
             Short == [hard |-> FALSE, short |-> TRUE]
             Hard == [hard |-> TRUE, short |-> FALSE]
  <2> SUFFICES ASSUME RouteInv, route # NoRoute, pick = NoPick, L # {}
               PROVE  /\ route.tier = "simple" => \A p \in L : ask(route.model) <= RouterPrice(p)
                      /\ route.tier = "premium" =>
                           {m \in Models : (\E p \in L : p.model = m) /\ ask(m) > ask(route.model)} = {}
                      /\ route.tier = "medium" =>
                           \A q \in {Short, Hard} :
                             IF q.hard THEN ask(route.model) <= other(q) ELSE other(q) <= ask(route.model)
    BY DEF TiersFollowPrices
  <2>1. /\ market \in BoundedSeq(MarketRow, MarketSize) /\ market # Unreachable
        /\ L = {p \in ToSet(market) : p.status = "live"}
    BY DEF LiveOffers, Reachable, RouteInv
  <2>2. route = routeModel(query, market)
    BY <2>1 DEF RouteInv, routedBuyFor
  <2> DEFINE s == liveModels(market)
             n == Len(s)
             mid == (n - 1) \div 2 + 1
  <2>3. /\ n \in Nat /\ DOMAIN s = 1..n
        /\ \A i \in DOMAIN s : /\ s[i].price \in Nat
                               /\ \E p \in L : p.model = s[i].model /\ RouterPrice(p) = s[i].price
                               /\ \A p \in L : p.model = s[i].model => s[i].price <= RouterPrice(p)
        /\ \A p \in L : RouterPrice(p) \in Nat /\ \E i \in DOMAIN s : s[i].model = p.model
        /\ \A i, j \in DOMAIN s : i <= j => s[i].price <= s[j].price
    <3>1. s = liveModels(market)
      OBVIOUS
    <3> HIDE DEF L, s
    <3>2. ListsOffers(s, L)
      BY <2>1, <3>1, LiveModelsAre
    <3>3. QED
      BY <3>2 DEF ListsOffers
  <2>4. n >= 1
    BY <2>3
  <2>5. mid \in 1..n
    BY <2>3, <2>4, RoutesArePlaces
  <2>6. /\ query.hard => route = [model |-> s[n].model, tier |-> "premium"]
        /\ ~query.hard /\ query.short => route = [model |-> s[1].model, tier |-> "simple"]
        /\ ~query.hard /\ ~query.short => route = [model |-> s[mid].model, tier |-> "medium"]
    <3>1. s = liveModels(market) /\ mid = (Len(s) - 1) \div 2 + 1
      OBVIOUS
    <3> HIDE DEF L, s, mid
    <3>2. QED
      BY <2>2, <2>3, <2>4, <3>1, RoutesArePlaces
  <2>7. routeModel(Short, market).model = s[1].model
    <3>1. s = liveModels(market) /\ n = Len(s) /\ Short.hard = FALSE /\ Short.short = TRUE
      OBVIOUS
    <3> HIDE DEF L, s, Short
    <3>2. routeModel(Short, market) = [model |-> s[1].model, tier |-> "simple"]
      BY <2>3, <2>4, <3>1, RoutesArePlaces
    <3>3. QED
      BY <3>2
  <2>8. routeModel(Hard, market).model = s[n].model
    <3>1. s = liveModels(market) /\ n = Len(s) /\ Hard.hard = TRUE
      OBVIOUS
    <3> HIDE DEF L, s, Hard
    <3>2. QED
      BY <2>3, <2>4, <3>1, RoutesArePlaces
  <2> HIDE DEF s, n, mid
  <2>9. ASSUME NEW i \in DOMAIN s PROVE ask(s[i].model) = s[i].price
    <3> DEFINE m == s[i].model
    <3>1. s[i].price \in prices(m) /\ \A p \in of(m) : s[i].price <= RouterPrice(p)
      BY <2>3
    <3>2. prices(m) \subseteq Nat /\ \A x \in prices(m) : \E p \in of(m) : RouterPrice(p) = x
      BY <2>3
    <3>3. \A p \in of(m) : RouterPrice(p) \in prices(m)
      OBVIOUS
    <3> HIDE DEF prices, of, L, m
    <3>4. ask(m) \in prices(m) /\ \A p \in of(m) : ask(m) <= RouterPrice(p)
      BY <3>1
    <3> HIDE DEF ask
    <3>5. ask(m) <= s[i].price /\ s[i].price <= ask(m)
      BY <3>1, <3>2, <3>4
    <3>6. ask(m) \in Nat /\ s[i].price \in Nat
      BY <3>1, <3>2, <3>4
    <3>7. ask(m) = s[i].price
      BY <3>5, <3>6
    <3>8. QED
      BY <3>7 DEF m
  <2>10. 1 \in DOMAIN s /\ n \in DOMAIN s /\ mid \in DOMAIN s /\ 1 <= mid /\ mid <= n
         /\ \A i \in DOMAIN s : 1 <= i /\ i <= n
    BY <2>3, <2>4, <2>5
  <2> HIDE DEF ask, L
  <2>11. ASSUME query.hard
         PROVE  {m \in Models : (\E p \in L : p.model = m) /\ ask(m) > ask(route.model)} = {}
    <3>1. ask(route.model) = s[n].price
      BY <2>6, <2>9, <2>10, <2>11
    <3>2. ASSUME NEW m, NEW p \in L, p.model = m PROVE ~(ask(m) > ask(route.model))
      <4>1. PICK i \in DOMAIN s : s[i].model = p.model
        BY <2>3
      <4>2. ask(m) = s[i].price /\ s[i].price <= s[n].price
        BY <2>3, <2>9, <2>10, <3>2, <4>1
      <4>3. s[i].price \in Nat /\ s[n].price \in Nat
        BY <2>3, <2>10
      <4>4. QED
        BY <3>1, <4>2, <4>3
    <3>3. QED
      BY <3>2
  <2>12. ASSUME ~query.hard, query.short, NEW p \in L
         PROVE  ask(route.model) <= RouterPrice(p)
    <3>1. ask(route.model) = s[1].price
      BY <2>6, <2>9, <2>10, <2>12
    <3>2. PICK i \in DOMAIN s : s[i].model = p.model
      BY <2>3
    <3>3. s[1].price <= s[i].price /\ s[i].price <= RouterPrice(p)
      BY <2>3, <2>10, <3>2
    <3>4. s[1].price \in Nat /\ s[i].price \in Nat /\ RouterPrice(p) \in Nat
      BY <2>3, <2>10
    <3>5. QED
      BY <3>1, <3>3, <3>4
  <2>13. ASSUME ~query.hard, ~query.short
         PROVE  other(Short) <= ask(route.model) /\ ask(route.model) <= other(Hard)
    <3>1. ask(route.model) = s[mid].price
      BY <2>6, <2>9, <2>10, <2>13
    <3>2. other(Short) = s[1].price /\ other(Hard) = s[n].price
      BY <2>7, <2>8, <2>9, <2>10
    <3>3. QED
      BY <2>3, <2>10, <3>1, <3>2
  <2>14. /\ query.hard \in BOOLEAN /\ query.short \in BOOLEAN
         /\ query.hard => route.tier = "premium"
         /\ ~query.hard /\ query.short => route.tier = "simple"
         /\ ~query.hard /\ ~query.short => route.tier = "medium"
    BY <2>6 DEF RouteInv
  <2>15. route.tier = "simple" => \A p \in L : ask(route.model) <= RouterPrice(p)
    BY <2>12, <2>14
  <2>16. route.tier = "premium" =>
           {m \in Models : (\E p \in L : p.model = m) /\ ask(m) > ask(route.model)} = {}
    BY <2>11, <2>14
  <2>17. route.tier = "medium" =>
           \A q \in {Short, Hard} :
             IF q.hard THEN ask(route.model) <= other(q) ELSE other(q) <= ask(route.model)
    <3>1. Short.hard = FALSE /\ Hard.hard = TRUE
      OBVIOUS
    <3> HIDE DEF Short, Hard, other
    <3>2. QED
      BY <2>13, <2>14, <3>1
  <2>18. QED
    BY <2>15, <2>16, <2>17
<1>2. QED
  BY <1>1, RouteInvAlways, PTL
=============================================================================
