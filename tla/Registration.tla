----------------------------- MODULE Registration -----------------------------
(***************************************************************************)
(* How a provider service stakes and registers when it boots               *)
(* (packages/provider/src/registry.ts, called from index.ts once the port  *)
(* is open), over the three records it leaves: transfers to the escrow     *)
(* account, the HCS registry topic, and a cache file on its host.          *)
(*                                                                         *)
(* ensureRegistered reads the whole cache file, awaits the mirror node,    *)
(* the transfer and the publication in turn, and writes the whole file     *)
(* back.  Each await is a step.  What goes wrong, or is done at the same   *)
(* time as something else, is counted in `mishaps`, whose bound is         *)
(* MaxMishaps; MaxBoots bounds the boots.                                  *)
(*                                                                         *)
(* Onboarding adds the MCP server, which writes the same records.          *)
(***************************************************************************)
EXTENDS Integers, Sequences, FiniteSets, FiniteSetsExt

CONSTANTS
  Accounts,    \* Hedera accounts
  Public,      \* endpoints a remote exchange can reach
  Local,       \* http://localhost:<port>
  Unset,       \* an account or an endpoint that is not set
  Hosts,       \* machines with a file system of their own
  Box,         \* the one whose .env the service and the MCP server share
  Services,    \* provider processes
  HostOf,      \* where each of them runs
  Window,      \* how many messages a lookup reads
  MaxBoots, MaxMishaps

ASSUME HostsAssumption == Box \in Hosts /\ HostOf \in [Services -> Hosts]
ASSUME UnsetAssumption == Unset \notin Accounts \cup Public \cup {Local} /\ Local \notin Public
ASSUME BoundsAssumption == Window \in Nat /\ MaxBoots \in Nat /\ MaxMishaps \in Nat

VARIABLES
  transfers,  \* stakes that reached the escrow account: whose, and from which host
  topic,      \* the registry topic, oldest first
  file,       \* .registry-cache.json of each host
  svc,        \* per service: where ensureRegistered awaits, and its variables
  env,        \* the box's .env: the provider account and PROVIDER_PUBLIC_URL
  config,     \* the account and endpoint a container is configured with
  boots, mishaps

regVars == <<transfers, topic, file, svc, env, config, boots, mishaps>>

Endpoints == Public \cup {Local}

\* A transaction is named by its place in `transfers`, a message by its place
\* on the topic; 0 is undefined.
Entry == [staked : Nat, registered : Nat, endpoint : Endpoints \cup {Unset}]
NoEntry == [staked |-> 0, registered |-> 0, endpoint |-> Unset]
Message == [account : Accounts, endpoint : Endpoints, stakeTx : Nat]
Stake == [account : Accounts, host : Hosts]
Settings == [account : Accounts \cup {Unset}, url : Public \cup {Unset}]
EmptyFile == [a \in Accounts |-> NoEntry]

Working == {"lookup", "staking", "publishing"}
Service == [pc : Working \cup {"off", "serving"}, account : Accounts \cup {Unset},
            endpoint : Endpoints \cup {Unset}, entry : Entry, cache : [Accounts -> Entry]]
Off == [pc |-> "off", account |-> Unset, endpoint |-> Unset, entry |-> NoEntry,
        cache |-> EmptyFile]

RegInit ==
  /\ transfers = << >> /\ topic = << >>
  /\ file = [h \in Hosts |-> EmptyFile]
  /\ svc = [p \in Services |-> Off]
  /\ env = [account |-> Unset, url |-> Unset] /\ config = env
  /\ boots = 0 /\ mishaps = 0

SomeServiceWorks == \E p \in Services : svc[p].pc \in Working

Mishap(happened) ==
  /\ happened => mishaps < MaxMishaps
  /\ mishaps' = IF happened THEN mishaps + 1 ELSE mishaps

--------------------------------------------------------------------------------
(* The pieces of ensureRegistered.                                         *)

\* The account's newest registration among the messages `seen`, with the stake
\* of the newest one that names a stake.
onChainRegistration(a, seen) ==
  LET mine == {i \in DOMAIN seen : seen[i].account = a /\ i > Len(seen) - Window}
      stakes == {i \in mine : seen[i].stakeTx # 0} IN
  IF mine = {} THEN NoEntry
  ELSE [staked |-> IF stakes = {} THEN 0 ELSE seen[Max(stakes)].stakeTx,
        registered |-> Max(mine), endpoint |-> seen[Max(mine)].endpoint]

\* A changed endpoint is registered anew, but a public one never gives way to
\* localhost.
Repointed(e, endpoint) ==
  IF e.registered # 0 /\ e.endpoint # endpoint /\ (endpoint # Local \/ e.endpoint = Local)
  THEN [e EXCEPT !.registered = 0] ELSE e

\* On to the next await that `e` calls for.  When there is none, the cache as
\* it was read at boot goes back to the file, with the account's entry replaced.
Proceed(p, me, e, mayStake) ==
  LET stake == mayStake /\ e.staked = 0
      publish == ~stake /\ e.registered = 0
      pc == IF stake THEN "staking" ELSE IF publish THEN "publishing" ELSE "serving" IN
  /\ svc' = [svc EXCEPT ![p] = [me EXCEPT !.pc = pc, !.entry = e]]
  /\ file' = IF pc = "serving"
             THEN [file EXCEPT ![HostOf[p]] = [me.cache EXCEPT ![me.account] = e]]
             ELSE file

--------------------------------------------------------------------------------
(* The services.                                                           *)

\* The account and the endpoint a boot finds in its environment.
SettingsOf(p) == IF HostOf[p] = Box THEN env ELSE config

\* The process starts, opens its port and enters ensureRegistered.
Boot(p, busy) ==
  LET s == SettingsOf(p)
      e == file[HostOf[p]][s.account]
      me == [Off EXCEPT !.account = s.account, !.cache = file[HostOf[p]],
                        !.endpoint = IF s.url = Unset THEN Local ELSE s.url] IN
  /\ svc[p].pc = "off" /\ boots < MaxBoots
  /\ s.account # Unset
  /\ boots' = boots + 1
  /\ Mishap(busy)
  /\ IF e.staked = 0 /\ e.registered = 0
     THEN /\ svc' = [svc EXCEPT ![p] = [me EXCEPT !.pc = "lookup"]]
          /\ UNCHANGED file
     ELSE Proceed(p, me, Repointed(e, me.endpoint), TRUE)
  /\ UNCHANGED <<transfers, topic, env, config>>

\* The mirror node answers, or does not (its answer may also be some messages
\* late); without an answer the empty entry of the cache decides.
Lookup(p) ==
  /\ svc[p].pc = "lookup"
  /\ \E seen \in 0..Len(topic), answers \in BOOLEAN :
       LET found == IF answers THEN onChainRegistration(svc[p].account, SubSeq(topic, 1, seen))
                    ELSE NoEntry IN
       /\ answers \/ seen = 0
       /\ Mishap(~answers \/ seen < Len(topic))
       /\ Proceed(p, svc[p], Repointed(found, svc[p].endpoint), TRUE)
  /\ UNCHANGED <<transfers, topic, env, config, boots>>

\* Mutant: the transaction is recorded when it is sent, whatever becomes of it.
StakeEntry_WhenSent(e, outcome) == [e EXCEPT !.staked = Len(transfers) + 1]

\* Only a transfer whose receipt arrived is recorded.
StakeEntry(e, outcome) ==
  IF outcome = "ok" THEN [e EXCEPT !.staked = Len(transfers')] ELSE e

\* stakeToEscrow: it goes through, fails, or goes through and its receipt is
\* lost, which the caller takes for a failure.
Transferred(outcome, account, host) ==
  transfers' = IF outcome = "fail" THEN transfers
               ELSE Append(transfers, [account |-> account, host |-> host])

\* publishToTopic, with the same three outcomes.
Published(outcome, message) ==
  topic' = IF outcome = "fail" THEN topic ELSE Append(topic, message)

Outcomes == {"ok", "fail", "lost"}

StakeToEscrow(p) ==
  /\ svc[p].pc = "staking"
  /\ \E outcome \in Outcomes :
       /\ Mishap(outcome # "ok")
       /\ Transferred(outcome, svc[p].account, HostOf[p])
       /\ Proceed(p, svc[p], StakeEntry(svc[p].entry, outcome), FALSE)
  /\ UNCHANGED <<topic, env, config, boots>>

\* Whatever the outcome, the entry is saved: without a registration when it
\* failed, so that the next boot tries again.
Publish(p) ==
  LET me == svc[p] IN
  /\ me.pc = "publishing"
  /\ \E outcome \in Outcomes :
       /\ Mishap(outcome # "ok")
       /\ Published(outcome, [account |-> me.account, endpoint |-> me.endpoint,
                              stakeTx |-> me.entry.staked])
       /\ LET e == IF outcome = "ok"
                   THEN [me.entry EXCEPT !.registered = Len(topic'), !.endpoint = me.endpoint]
                   ELSE me.entry IN
          /\ svc' = [svc EXCEPT ![p] = [me EXCEPT !.pc = "serving", !.entry = e]]
          /\ file' = [file EXCEPT ![HostOf[p]] = [me.cache EXCEPT ![me.account] = e]]
  /\ UNCHANGED <<transfers, env, config, boots>>

\* The process ends, and with it what it awaited: the network may still do it.
Stop(p) ==
  LET me == svc[p] IN
  /\ me.pc # "off"
  /\ svc' = [svc EXCEPT ![p] = Off]
  /\ Mishap(me.pc \in Working)
  /\ \E outcome \in {"fail", "lost"} :
       /\ IF me.pc = "staking" THEN Transferred(outcome, me.account, HostOf[p])
          ELSE UNCHANGED transfers
       /\ IF me.pc = "publishing"
          THEN Published(outcome, [account |-> me.account, endpoint |-> me.endpoint,
                                   stakeTx |-> me.entry.staked])
          ELSE UNCHANGED topic
  /\ UNCHANGED <<file, env, config, boots>>

\* A container is rebuilt: its file system starts empty.
Redeploy(h) ==
  /\ h # Box
  /\ \A p \in Services : HostOf[p] = h => svc[p].pc = "off"
  /\ file[h] # EmptyFile
  /\ file' = [file EXCEPT ![h] = EmptyFile]
  /\ UNCHANGED <<transfers, topic, svc, env, config, boots, mishaps>>

\* Serving keeps its records: nothing else of a service changes them.
ServiceStep(p) == Lookup(p) \/ StakeToEscrow(p) \/ Publish(p) \/ Stop(p)

RegTypeOK ==
  /\ transfers \in Seq(Stake) /\ topic \in Seq(Message)
  /\ file \in [Hosts -> [Accounts -> Entry]]
  /\ svc \in [Services -> Service]
  /\ env \in Settings /\ config \in Settings
  /\ boots \in Nat /\ mishaps \in Nat
================================================================================
