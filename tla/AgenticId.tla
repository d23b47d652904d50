------------------------------- MODULE AgenticId -------------------------------
(***************************************************************************)
(* The agent's token on 0G Chain and the memory it points at: POST         *)
(* /agentic-id/mint of packages/agent/src/server.ts, the upload of         *)
(* memory-0g.ts, mintAgenticId and updateAgenticIdMemory of                *)
(* packages/shared/src/zerog.ts, and the contract AgentNFT.sol.            *)
(*                                                                         *)
(* A request serialises the calls bought so far, uploads them, and mints   *)
(* the token or re-points it.  The process knows its token by a variable   *)
(* that a restart forgets.  Transactions of the process's key are mined in *)
(* the order they were sent; minting waits for the receipt, re-pointing    *)
(* does not.                                                               *)
(*                                                                         *)
(* idMishaps counts what fails or overlaps; MaxIdMishaps, MaxBought and    *)
(* Posts bound the model.                                                  *)
(***************************************************************************)
EXTENDS Integers, Sequences

CONSTANTS
  Posts,        \* requests to POST /agentic-id/mint
  Me, Other,    \* the address of ZEROG_CHAIN_KEY, and another owner
  MaxBought,    \* calls bought by a process, at most
  MaxIdMishaps

ASSUME OwnersAssumption == Me # Other
ASSUME IdBoundsAssumption == MaxBought \in Nat /\ MaxIdMishaps \in Nat

VARIABLES
  registered, \* the process has registered its identity: boot is over
  bought,     \* calls in the buffer of the process
  agenticId,  \* the process's `agenticId`
  post,       \* per request: where it awaits and its variables
  storage,    \* uploads to 0G Storage; a root hash is a place here
  mempool,    \* transactions sent and not mined, in nonce order
  token,      \* AgentNFT: owner, root and described calls of each token
  idMishaps

idVars == <<registered, bought, agenticId, post, storage, mempool, token, idMishaps>>

Snapshot == [named : BOOLEAN, calls : Nat]
Token == [owner : {Me, Other}, root : Nat, count : Nat]
Transaction == [post : Posts, token : Nat, root : Nat, count : Nat]
IdState == [tokenId : Nat, root : Nat, count : Nat]
NoId == [tokenId |-> 0, root |-> 0, count |-> 0]

InFlight == {"reading", "uploading", "updating", "minting", "mined", "receipt"}
Request == [pc : InFlight \cup {"new", "ready", "failed"}, named : BOOLEAN, calls : Nat,
            token : Nat, root : Nat, count : Nat]
NewRequest == [pc |-> "new", named |-> FALSE, calls |-> 0, token |-> 0, root |-> 0, count |-> 0]

IdInit ==
  /\ registered = FALSE /\ bought = 0 /\ agenticId = NoId
  /\ post = [q \in Posts |-> NewRequest]
  /\ storage = << >> /\ mempool = << >> /\ token = << >>
  /\ idMishaps = 0

IdMishap(happened) ==
  /\ happened => idMishaps < MaxIdMishaps
  /\ idMishaps' = IF happened THEN idMishaps + 1 ELSE idMishaps

Quiet == mempool = << >> /\ \A q \in Posts : post[q].pc \notin InFlight

--------------------------------------------------------------------------------
\* boot: registerIdentity is over, with the identity's transaction or without.
Registers ==
  /\ ~registered
  /\ registered' = TRUE
  /\ UNCHANGED <<bought, agenticId, post, storage, mempool, token, idMishaps>>

\* recordCall of a run that goes on meanwhile.
Buys ==
  /\ registered /\ bought < MaxBought
  /\ bought' = bought + 1
  /\ UNCHANGED <<registered, agenticId, post, storage, mempool, token, idMishaps>>

\* POST /agentic-id/mint: nothing asks whether boot is over, or whether
\* another request is on its way.  The memory names the identity now; its
\* calls are the buffer itself.
PostMint(q) ==
  /\ post[q].pc = "new"
  /\ IdMishap(~Quiet)
  /\ post' = [post EXCEPT ![q].pc = "reading", ![q].named = registered]
  /\ UNCHANGED <<registered, bought, agenticId, storage, mempool, token>>

\* uploadMemory has loaded its SDKs: only now the calls are serialised.
Serialises(q) ==
  /\ post[q].pc = "reading"
  /\ post' = [post EXCEPT ![q].pc = "uploading", ![q].calls = bought]
  /\ UNCHANGED <<registered, bought, agenticId, storage, mempool, token, idMishaps>>

UploadFails(q) ==
  /\ post[q].pc = "uploading"
  /\ IdMishap(TRUE)
  /\ post' = [post EXCEPT ![q].pc = "failed"]
  /\ UNCHANGED <<registered, bought, agenticId, storage, mempool, token>>

\* The description counts the calls bought by the time the upload is done.
Described(q) == bought

\* The upload is final; the description is written and the request chooses
\* between minting and re-pointing by what the process knows now.
Uploaded(q) ==
  /\ post[q].pc = "uploading"
  /\ storage' = Append(storage, [named |-> post[q].named, calls |-> post[q].calls])
  /\ post' = [post EXCEPT ![q].root = Len(storage'), ![q].count = Described(q),
                          ![q].token = agenticId.tokenId,
                          ![q].pc = IF agenticId.tokenId # 0 THEN "updating" ELSE "minting"]
  /\ UNCHANGED <<registered, bought, agenticId, mempool, token, idMishaps>>

\* Mutant: the transaction names the memory the process showed before.
Sent_OldRoot(q) ==
  [post |-> q, token |-> post[q].token, count |-> post[q].count,
   root |-> IF agenticId.root # 0 THEN agenticId.root ELSE post[q].root]

\* The transaction a request sends: mint (token 0) or setMemory.
Sent(q) == [post |-> q, token |-> post[q].token, root |-> post[q].root, count |-> post[q].count]

\* Mutant: the token's number is not kept.
Shown_Forgets(q) == [tokenId |-> 0, root |-> post[q].root, count |-> bought]

\* What the process shows after re-pointing, whether the transaction was sent
\* or not; the rest of `agenticId` is spread as it is by then.
Shown(q) == [tokenId |-> agenticId.tokenId, root |-> post[q].root, count |-> bought]

\* updateAgenticIdMemory sends setMemory and does not wait for it.  Estimating
\* its gas fails when the token has another owner.
Updates(q) ==
  /\ post[q].pc = "updating"
  /\ \E sent \in BOOLEAN :
       /\ sent => token[post[q].token].owner = Me
       /\ IdMishap(~sent /\ token[post[q].token].owner = Me)
       /\ mempool' = IF sent THEN Append(mempool, Sent(q)) ELSE mempool
  /\ agenticId' = Shown(q)
  /\ post' = [post EXCEPT ![q].pc = "ready"]
  /\ UNCHANGED <<registered, bought, storage, token>>

\* mintAgenticId sends mint, and waits for its receipt.
Mints(q) ==
  /\ post[q].pc = "minting"
  /\ \E sent \in BOOLEAN :
       /\ IdMishap(~sent)
       /\ mempool' = IF sent THEN Append(mempool, Sent(q)) ELSE mempool
       /\ post' = [post EXCEPT ![q].pc = IF sent THEN "mined" ELSE "failed"]
  /\ UNCHANGED <<registered, bought, agenticId, storage, token>>

\* AgentNFT.mint: the next token, for the sender.
MintToken(tx) ==
  /\ tx.token = 0
  /\ token' = Append(token, [owner |-> Me, root |-> tx.root, count |-> tx.count])
  /\ post' = IF post[tx.post].pc = "mined"
             THEN [post EXCEPT ![tx.post].pc = "receipt", ![tx.post].token = Len(token')]
             ELSE post

\* Mutant: the contract lets anyone re-point a token.
MaySetMemory_Anyone(t) == TRUE

MaySetMemory(t) == token[t].owner = Me

\* AgentNFT.setMemory: reverted unless the sender owns the token by then.
SetMemory(tx) ==
  /\ tx.token # 0
  /\ token' = IF MaySetMemory(tx.token)
              THEN [token EXCEPT ![tx.token].root = tx.root, ![tx.token].count = tx.count]
              ELSE token
  /\ UNCHANGED post

Mine ==
  /\ mempool # << >>
  /\ MintToken(Head(mempool)) \/ SetMemory(Head(mempool))
  /\ mempool' = Tail(mempool)
  /\ UNCHANGED <<registered, bought, agenticId, storage, idMishaps>>

\* What the process shows after minting.
Minted(q) == [tokenId |-> post[q].token, root |-> post[q].root, count |-> bought]

\* The receipt names the token in its Minted event.  When it cannot be fetched,
\* the request fails though the token exists; when no event is found in it, the
\* process shows a memory without a token, and answers that it is ready.
Receipt(q) ==
  /\ post[q].pc = "receipt"
  /\ \/ /\ agenticId' = Minted(q)
        /\ post' = [post EXCEPT ![q].pc = "ready"]
        /\ UNCHANGED idMishaps
     \/ /\ agenticId' = [Minted(q) EXCEPT !.tokenId = 0]
        /\ post' = [post EXCEPT ![q].pc = "ready"]
        /\ IdMishap(TRUE)
     \/ /\ post' = [post EXCEPT ![q].pc = "failed"]
        /\ IdMishap(TRUE) /\ UNCHANGED agenticId
  /\ UNCHANGED <<registered, bought, storage, mempool, token>>

\* AgentNFT.transferFrom by the owner: the agent is sold, memory included.
Sells(t) ==
  /\ token[t].owner = Me
  /\ token' = [token EXCEPT ![t].owner = Other]
  /\ UNCHANGED <<registered, bought, agenticId, post, storage, mempool, idMishaps>>

\* A restart: `agenticId` is null again and the buffer of calls empty.
Restarts ==
  /\ registered
  /\ IdMishap(TRUE)
  /\ registered' = FALSE /\ bought' = 0 /\ agenticId' = NoId
  /\ post' = [q \in Posts |-> IF post[q].pc \in InFlight
                              THEN [post[q] EXCEPT !.pc = "failed"] ELSE post[q]]
  /\ UNCHANGED <<storage, mempool, token>>

IdNext ==
  \/ Registers \/ Buys \/ Mine \/ Restarts
  \/ \E q \in Posts : \/ PostMint(q) \/ Serialises(q)
                      \/ UploadFails(q) \/ Uploaded(q)
                      \/ Updates(q) \/ Mints(q) \/ Receipt(q)
  \/ \E t \in DOMAIN token : Sells(t)

IdSpec == IdInit /\ [][IdNext]_idVars

--------------------------------------------------------------------------------
IdTypeOK ==
  /\ registered \in BOOLEAN /\ bought \in Nat /\ agenticId \in IdState
  /\ post \in [Posts -> Request]
  /\ storage \in Seq(Snapshot) /\ mempool \in Seq(Transaction) /\ token \in Seq(Token)
  /\ idMishaps \in Nat

\* Requests that neither fail nor overlap make one token, however many there
\* are (server.ts:291-305).
OneTokenPerAgent == idMishaps = 0 => Len(token) <= 1

\* They also leave the memory shown by GET /agentic-id and the memory the token
\* points at the same, as long as the process owns the token (server.ts:40-41).
ShownMemoryIsTheTokens ==
  idMishaps = 0 /\ Quiet /\ agenticId.tokenId # 0 =>
    token[agenticId.tokenId].owner = Other \/ token[agenticId.tokenId].root = agenticId.root

\* A token that is sold keeps the memory it was sold with, though a re-pointing
\* may be under way when it is (AgentNFT.sol:45, server.ts:293).
SoldMemoryStays ==
  [][\A t \in DOMAIN token : token[t].owner = Other => token'[t] = token[t]]_idVars
================================================================================
