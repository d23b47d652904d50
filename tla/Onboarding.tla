------------------------------ MODULE Onboarding ------------------------------
(***************************************************************************)
(* The provider MCP server (packages/provider-mcp) beside the provider     *)
(* services of Registration.  Its tools create an account, stake, check an *)
(* endpoint, register it and look whether the exchange lists it; the       *)
(* orchestrator provision_provider runs all of them in that order.  Tools  *)
(* run concurrently in one process; each core operation is a synchronous   *)
(* piece (its guards, the cache and .env it reads and writes) and the      *)
(* piece after its await.  The services of the box share its .env and its  *)
(* cache file; a container is configured from what coreDeploy returns.     *)
(***************************************************************************)
EXTENDS Registration

CONSTANTS
  Calls,    \* tool calls
  Tools     \* the tools that are called

AllTools == {"create", "stake", "check", "register", "provision"}
ASSUME ToolsAssumption == Tools \subseteq AllTools

VARIABLES
  call,     \* per call: where it awaits and its variables
  created   \* accounts the operator has created

onboardVars == <<transfers, topic, file, svc, env, config, boots, mishaps, call, created>>
toolVars == <<call, created>>

Awaiting == {"creating", "staking", "checking", "registering"}
Begins == {"create", "stake", "check", "register", "verify"}
ToolCall == [pc : {"new", "done", "failed"} \cup Begins \cup Awaiting,
             tool : AllTools \cup {"none"}, url : Public \cup {Unset}, mustAnswer : BOOLEAN,
             account : Accounts \cup {Unset}, stakedAs : Accounts \cup {Unset},
             stakeTx : Nat, live : BOOLEAN]
NewCall == [pc |-> "new", tool |-> "none", url |-> Unset, mustAnswer |-> TRUE,
            account |-> Unset, stakedAs |-> Unset, stakeTx |-> 0, live |-> FALSE]

OnboardInit == RegInit /\ call = [c \in Calls |-> NewCall] /\ created = {}

Busy == SomeServiceWorks \/ \E c \in Calls : call[c].pc \in Begins \cup Awaiting

\* A tool of its own ends with its operation; provision_provider goes on.
After(c, step) ==
  IF call[c].tool # "provision" THEN "done"
  ELSE CASE step = "create" -> "stake"
         [] step = "stake"  -> IF call[c].mustAnswer THEN "check" ELSE "register"
         [] step = "check"  -> "register"
         [] OTHER           -> "verify"

GoTo(c, pc) == call' = [call EXCEPT ![c].pc = pc]

\* Where a call begins: register_provider fails without an endpoint.
FirstPiece(tool, endpoint) ==
  IF tool = "provision" THEN "create"
  ELSE IF tool = "register" /\ endpoint = Unset THEN "failed" ELSE tool

\* A tool is called.  register_provider without a publicUrl takes the one in
\* .env.
CallTool(c, tool, url, mustAnswer) ==
  LET endpoint == IF tool = "register" /\ url = Unset THEN env.url ELSE url IN
  /\ call[c].pc = "new"
  /\ Mishap(Busy)
  /\ tool \in {"check", "provision"} => url # Unset
  /\ call' = [call EXCEPT ![c] = [NewCall EXCEPT
       !.pc = FirstPiece(tool, endpoint), !.tool = tool, !.url = endpoint, !.mustAnswer = mustAnswer]]
  /\ UNCHANGED <<transfers, topic, file, svc, env, config, boots, created>>

--------------------------------------------------------------------------------
(* coreCreateAccount *)

CreateBegins(c) ==
  /\ call[c].pc = "create"
  /\ GoTo(c, IF env.account # Unset THEN After(c, "create") ELSE "creating")
  /\ UNCHANGED <<regVars, created>>

\* createAndFundAccount: a new account, appended to .env; an account whose
\* receipt is lost is lost with its key.
CreateEnds(c) ==
  /\ call[c].pc = "creating"
  /\ \/ /\ \E a \in Accounts \ created :
             /\ created' = created \cup {a}
             /\ env' = [env EXCEPT !.account = a]
             /\ GoTo(c, After(c, "create"))
        /\ UNCHANGED mishaps
     \/ GoTo(c, "failed") /\ Mishap(TRUE) /\ UNCHANGED <<env, created>>
  /\ UNCHANGED <<transfers, topic, file, svc, config, boots>>

--------------------------------------------------------------------------------
(* coreStake *)

\* requireProviderAccount, then the cache of the box: a stake it records is
\* returned as it is.
StakeBegins(c) ==
  LET cached == file[Box][env.account].staked IN
  /\ call[c].pc = "stake"
  /\ call' = IF env.account = Unset THEN [call EXCEPT ![c].pc = "failed"]
             ELSE [call EXCEPT ![c].pc = IF cached # 0 THEN After(c, "stake") ELSE "staking",
                               ![c].stakedAs = env.account, ![c].stakeTx = cached]
  /\ UNCHANGED <<regVars, created>>

\* The transfer, then setStaked: the file is read again, and only the stake of
\* this account changes.
StakeEnds(c) ==
  LET a == call[c].stakedAs IN
  /\ call[c].pc = "staking"
  /\ \E outcome \in Outcomes :
       /\ Mishap(outcome # "ok")
       /\ Transferred(outcome, a, Box)
       /\ IF outcome = "ok"
          THEN /\ file' = [file EXCEPT ![Box][a].staked = Len(transfers')]
               /\ call' = [call EXCEPT ![c].pc = After(c, "stake"), ![c].stakeTx = Len(transfers')]
          ELSE UNCHANGED file /\ GoTo(c, "failed")
  /\ UNCHANGED <<topic, svc, env, config, boots, created>>

--------------------------------------------------------------------------------
(* coreDeploy *)

CheckBegins(c) ==
  /\ call[c].pc = "check"
  /\ call' = IF env.account = Unset THEN [call EXCEPT ![c].pc = "failed"]
             ELSE [call EXCEPT ![c].pc = "checking", ![c].account = env.account]
  /\ UNCHANGED <<regVars, created>>

\* Who answers at an endpoint: a service that was given it.
Serving(url) == {p \in Services : svc[p].pc # "off" /\ svc[p].endpoint = url}

\* checkEndpoint, then the configuration for a host, whatever the answer.  An
\* endpoint that answered becomes PROVIDER_PUBLIC_URL.  An endpoint that did
\* not ends provision_provider; deploy_provider returns it as an error too.
CheckEnds(c) ==
  LET url == call[c].url IN
  /\ call[c].pc = "checking"
  /\ config' = [account |-> call[c].account, url |-> url]
  /\ \E reachable \in BOOLEAN :
       /\ reachable => Serving(url) # {}
       /\ Mishap(~reachable /\ Serving(url) # {})
       /\ env' = IF reachable THEN [env EXCEPT !.url = url] ELSE env
       /\ GoTo(c, IF reachable THEN After(c, "check") ELSE "failed")
  /\ UNCHANGED <<transfers, topic, file, svc, boots, created>>

--------------------------------------------------------------------------------
(* coreRegister *)

\* Mutant: any registration of the account will do.
AlreadyRegistered_Anywhere(cached, url) == cached.registered # 0

AlreadyRegistered(cached, url) == cached.registered # 0 /\ cached.endpoint = url

\* .env first, then the cache: a registration of this very endpoint is
\* returned as it is.  The stake to name is the one cached now.
RegisterBegins(c) ==
  LET cached == file[Box][env.account]
      url == call[c].url IN
  /\ call[c].pc = "register"
  /\ IF env.account = Unset THEN GoTo(c, "failed") /\ UNCHANGED env
     ELSE /\ env' = [env EXCEPT !.url = url]
          /\ call' = [call EXCEPT
               ![c].pc = IF AlreadyRegistered(cached, url) THEN After(c, "register") ELSE "registering",
               ![c].account = env.account, ![c].stakeTx = cached.staked]
  /\ UNCHANGED <<transfers, topic, file, svc, config, boots, mishaps, created>>

\* Mutant: the cache entry is replaced, not extended.
setRegistered_Replaces(f, a, message, url) ==
  [f EXCEPT ![a] = [staked |-> 0, registered |-> message, endpoint |-> url]]

setRegistered(f, a, message, url) ==
  [f EXCEPT ![a] = [@ EXCEPT !.registered = message, !.endpoint = url]]

RegisterEnds(c) ==
  LET a == call[c].account
      url == call[c].url IN
  /\ call[c].pc = "registering"
  /\ \E outcome \in Outcomes :
       /\ Mishap(outcome # "ok")
       /\ Published(outcome, [account |-> a, endpoint |-> url, stakeTx |-> call[c].stakeTx])
       /\ IF outcome = "ok"
          THEN /\ file' = [file EXCEPT ![Box] = setRegistered(@, a, Len(topic'), url)]
               /\ GoTo(c, After(c, "register"))
          ELSE UNCHANGED file /\ GoTo(c, "failed")
  /\ UNCHANGED <<transfers, svc, env, config, boots, created>>

--------------------------------------------------------------------------------
(* coreVerify *)

\* The exchange lists an endpoint the account registered and that answers.
Discoverable(a) ==
  \E i \in DOMAIN topic : topic[i].account = a /\ Serving(topic[i].endpoint) # {}

\* verifyLive polls the exchange until its deadline; it reports and changes
\* nothing.
Verify(c) ==
  /\ call[c].pc = "verify"
  /\ \E live \in BOOLEAN :
       /\ live => Discoverable(env.account)
       /\ call' = [call EXCEPT ![c].pc = "done", ![c].live = live]
  /\ UNCHANGED <<regVars, created>>

--------------------------------------------------------------------------------
\* The MCP server ends, and every call with it; what they awaited may happen.
ServerDies ==
  /\ \E c \in Calls : call[c].pc \in Begins \cup Awaiting
  /\ Mishap(TRUE)
  /\ call' = [c \in Calls |-> IF call[c].pc \in Begins \cup Awaiting
                              THEN [call[c] EXCEPT !.pc = "failed"] ELSE call[c]]
  /\ \/ UNCHANGED <<transfers, topic>>
     \/ \E c \in Calls : /\ call[c].pc = "staking"
                         /\ Transferred("lost", call[c].stakedAs, Box)
                         /\ UNCHANGED topic
     \/ \E c \in Calls : /\ call[c].pc = "registering"
                         /\ Published("lost", [account |-> call[c].account, endpoint |-> call[c].url,
                                               stakeTx |-> call[c].stakeTx])
                         /\ UNCHANGED transfers
  /\ UNCHANGED <<file, svc, env, config, boots, created>>

ToolStep(c) ==
  \/ CreateBegins(c) \/ CreateEnds(c)
  \/ StakeBegins(c) \/ StakeEnds(c)
  \/ CheckBegins(c) \/ CheckEnds(c)
  \/ RegisterBegins(c) \/ RegisterEnds(c)
  \/ Verify(c)

OnboardNext ==
  \/ \E p \in Services : (Boot(p, Busy) \/ ServiceStep(p)) /\ UNCHANGED toolVars
  \/ \E h \in Hosts : Redeploy(h) /\ UNCHANGED toolVars
  \/ \E c \in Calls :
       \/ \E tool \in Tools, url \in Public \cup {Unset}, mustAnswer \in BOOLEAN :
            CallTool(c, tool, url, mustAnswer)
       \/ ToolStep(c)
  \/ ServerDies

OnboardSpec == OnboardInit /\ [][OnboardNext]_onboardVars

--------------------------------------------------------------------------------
(* Properties.                                                             *)

OnboardTypeOK == RegTypeOK /\ call \in [Calls -> ToolCall] /\ created \subseteq Accounts

StakeOf(a, tx) == tx \in DOMAIN transfers /\ transfers[tx].account = a

\* What the records claim happened: a stake named by a cache file or by the
\* topic is a transfer of that very account, and a cached registration is a
\* message of the account for the endpoint cached with it (registry.ts:195,
\* provider-mcp registry.ts:19-29), whatever failed or overlapped.
RecordsAreTrue ==
  /\ \A i \in DOMAIN topic :
       topic[i].stakeTx # 0 => StakeOf(topic[i].account, topic[i].stakeTx)
  /\ \A h \in Hosts, a \in Accounts :
       LET e == file[h][a] IN
       /\ e.staked # 0 => StakeOf(a, e.staked)
       /\ e.registered # 0 => /\ e.registered \in DOMAIN topic
                              /\ topic[e.registered].account = a
                              /\ topic[e.registered].endpoint = e.endpoint

StakesFrom(a, hosts) ==
  {tx \in DOMAIN transfers : transfers[tx].account = a /\ transfers[tx].host \in hosts}

\* Where nothing failed and nothing overlapped, the box moves an account's
\* collateral once, however often its service is restarted and its tools are
\* called: the cache file both write carries it (index.ts:260).
BoxStakesOnce ==
  mishaps = 0 => \A a \in Accounts : Cardinality(StakesFrom(a, {Box})) <= 1

\* "Provisioned" (index.ts:436) means that the account registered the endpoint
\* on the topic and, unless something overlapped, put a stake in escrow.
ProvisionedIsOnChain ==
  \A c \in Calls : call[c].tool = "provision" /\ call[c].pc = "done" =>
    /\ \E i \in DOMAIN topic : topic[i].account = call[c].account /\ topic[i].endpoint = call[c].url
    /\ mishaps = 0 => StakesFrom(call[c].account, Hosts) # {}

\* index.ts:387, of provision_provider: "Each step is idempotent, so a re-run
\* resumes/repairs rather than duplicating."
StakedOnce ==
  mishaps = 0 => \A a \in Accounts : Cardinality(StakesFrom(a, Hosts)) <= 1
================================================================================
