--------------------------- MODULE OnboardingProofs ---------------------------
(***************************************************************************)
(* Theorems about registration and onboarding, for every set of hosts,     *)
(* services, tool calls, accounts and endpoints, and every number of boots *)
(* and mishaps.                                                            *)
(***************************************************************************)
EXTENDS Onboarding, FiniteSetTheorems, WellFoundedInduction, TLAPS

-----------------------------------------------------------------------------
(* The newest message of a set of them is one of them.                     *)

LEMMA MaxIsAMember ==
  ASSUME NEW n \in Nat, NEW S, S \subseteq 1..n, S # {}
  PROVE  Max(S) \in S
<1> DEFINE T == {n - i : i \in S}
<1>1. T \subseteq Nat /\ T # {}
  <2>1. \A i \in S : n - i \in Nat
    <3>1. \A i \in 1..n : n - i \in Nat
      OBVIOUS
    <3>2. QED
      BY <3>1
  <2>2. QED
    BY <2>1
<1>2. PICK x \in T : \A y \in T : ~(<<y, x>> \in OpToRel(<, Nat))
  BY <1>1, NatLessThanWellFounded, WFMin
<1>3. PICK m \in S : x = n - m
  OBVIOUS
<1>4. ASSUME NEW i \in S PROVE m >= i
  <2>1. n - i \in T /\ n - i \in Nat /\ x \in Nat
    BY <1>1
  <2>2. ~(n - i < x)
    BY <1>2, <2>1 DEF OpToRel
  <2>3. i \in 1..n /\ m \in 1..n
    OBVIOUS
  <2>4. QED
    BY <1>3, <2>2, <2>3
<1>5. QED
  BY <1>4 DEF Max

-----------------------------------------------------------------------------
(* The records, as predicates of the two ledgers `tr` (transfers) and `tp` *)
(* (topic), which only grow.                                               *)

StakeIn(tr, a, tx) == tx \in DOMAIN tr /\ tr[tx].account = a

TrueEntry(tr, tp, a, e) ==
  /\ e.staked # 0 => StakeIn(tr, a, e.staked)
  /\ e.registered # 0 => /\ e.registered \in DOMAIN tp
                         /\ tp[e.registered].account = a
                         /\ tp[e.registered].endpoint = e.endpoint

TrueTopic(tr, tp) ==
  /\ tr \in Seq(Stake) /\ tp \in Seq(Message)
  /\ \A i \in DOMAIN tp : tp[i].stakeTx # 0 => StakeIn(tr, tp[i].account, tp[i].stakeTx)

TrueFiles(tr, tp, f) ==
  /\ f \in [Hosts -> [Accounts -> Entry]]
  /\ \A h \in Hosts, a \in Accounts : TrueEntry(tr, tp, a, f[h][a])

TrueService(tr, tp, s) ==
  s.pc # "off" =>
    /\ s.account \in Accounts /\ s.endpoint \in Endpoints
    /\ TrueEntry(tr, tp, s.account, s.entry)
    /\ \A a \in Accounts : TrueEntry(tr, tp, a, s.cache[a])

TrueServices(tr, tp, S) ==
  /\ S \in [Services -> Service]
  /\ \A p \in Services : TrueService(tr, tp, S[p])

TrueCall(tr, c) ==
  /\ c.pc = "staking" => c.stakedAs \in Accounts
  /\ c.pc = "register" \/ c.tool = "provision" => c.url \in Public
  /\ c.pc = "registering" =>
       /\ c.account \in Accounts /\ c.url \in Public
       /\ c.stakeTx # 0 => StakeIn(tr, c.account, c.stakeTx)

TrueCalls(tr, C) ==
  /\ C \in [Calls -> ToolCall]
  /\ \A c \in Calls : TrueCall(tr, C[c])

Counted ==
  /\ env \in Settings /\ config \in Settings
  /\ boots \in Nat /\ mishaps \in Nat /\ created \subseteq Accounts

OnboardInv ==
  /\ TrueTopic(transfers, topic)
  /\ TrueFiles(transfers, topic, file)
  /\ TrueServices(transfers, topic, svc)
  /\ TrueCalls(transfers, call)
  /\ Counted

Extends(new, old) == \A i \in DOMAIN old : i \in DOMAIN new /\ new[i] = old[i]

Grown == Extends(transfers', transfers) /\ Extends(topic', topic)

LEMMA EntryStays ==
  ASSUME Grown, NEW a, NEW e, TrueEntry(transfers, topic, a, e)
  PROVE  TrueEntry(transfers', topic', a, e)
BY DEF Grown, Extends, TrueEntry, StakeIn

LEMMA FilesStay ==
  ASSUME Grown, TrueFiles(transfers, topic, file)
  PROVE  TrueFiles(transfers', topic', file)
BY EntryStays DEF TrueFiles

LEMMA ServicesStay ==
  ASSUME Grown, TrueServices(transfers, topic, svc)
  PROVE  TrueServices(transfers', topic', svc)
BY EntryStays DEF TrueServices, TrueService

LEMMA CallsStay ==
  ASSUME Grown, TrueCalls(transfers, call)
  PROVE  TrueCalls(transfers', call)
BY DEF TrueCalls, TrueCall, StakeIn, Grown, Extends

LEMMA Same == ASSUME UNCHANGED <<transfers, topic>> PROVE Grown
BY DEF Grown, Extends

LEMMA ServiceFields ==
  ASSUME NEW s \in Service
  PROVE  /\ s.pc \in Working \cup {"off", "serving"} /\ s.account \in Accounts \cup {Unset}
         /\ s.endpoint \in Endpoints \cup {Unset} /\ s.entry \in Entry
         /\ s.cache \in [Accounts -> Entry]
BY DEF Service

LEMMA EntryFields ==
  ASSUME NEW e \in Entry
  PROVE  e.staked \in Nat /\ e.registered \in Nat /\ e.endpoint \in Endpoints \cup {Unset}
BY DEF Entry

LEMMA NoEntryIsTrue ==
  /\ NoEntry \in Entry
  /\ \A tr, tp, a : TrueEntry(tr, tp, a, NoEntry)
BY DEF NoEntry, Entry, TrueEntry

\* What a transfer does, whatever its outcome.
LEMMA TransferGrows ==
  ASSUME transfers \in Seq(Stake), NEW outcome, NEW a \in Accounts, NEW h \in Hosts,
         Transferred(outcome, a, h)
  PROVE  /\ transfers' \in Seq(Stake) /\ Extends(transfers', transfers)
         /\ outcome # "fail" => /\ StakeIn(transfers', a, Len(transfers'))
                                /\ Len(transfers') \in Nat
<1> DEFINE x == [account |-> a, host |-> h]
<1>1. x \in Stake /\ x.account = a
  BY DEF Stake
<1>2. transfers' = IF outcome = "fail" THEN transfers ELSE Append(transfers, x)
  BY DEF Transferred
<1> HIDE DEF x
<1>3. /\ Append(transfers, x) \in Seq(Stake) /\ Extends(Append(transfers, x), transfers)
      /\ Len(Append(transfers, x)) \in DOMAIN Append(transfers, x)
      /\ Append(transfers, x)[Len(Append(transfers, x))] = x
      /\ Len(Append(transfers, x)) \in Nat
  BY <1>1 DEF Extends
<1>4. QED
  BY <1>1, <1>2, <1>3 DEF StakeIn, Extends

\* What a publication does, when the stake it names is the account's.
LEMMA PublicationGrows ==
  ASSUME TrueTopic(transfers, topic), UNCHANGED transfers,
         NEW outcome, NEW m \in Message, Published(outcome, m),
         m.stakeTx # 0 => StakeIn(transfers, m.account, m.stakeTx)
  PROVE  /\ TrueTopic(transfers', topic') /\ Grown
         /\ outcome # "fail" => /\ Len(topic') \in DOMAIN topic' /\ topic'[Len(topic')] = m
                                /\ Len(topic') \in Nat
<1>1. topic \in Seq(Message) /\ topic' = IF outcome = "fail" THEN topic ELSE Append(topic, m)
  BY DEF Published, TrueTopic
<1>2. /\ Append(topic, m) \in Seq(Message) /\ Extends(Append(topic, m), topic)
      /\ Len(Append(topic, m)) \in DOMAIN Append(topic, m)
      /\ Append(topic, m)[Len(Append(topic, m))] = m
      /\ Len(Append(topic, m)) \in Nat
      /\ \A i \in DOMAIN Append(topic, m) :
           (i \in DOMAIN topic /\ Append(topic, m)[i] = topic[i]) \/ Append(topic, m)[i] = m
  BY <1>1 DEF Extends
<1>3. TrueTopic(transfers, Append(topic, m))
  BY <1>2 DEF TrueTopic
<1>4. QED
  BY <1>1, <1>2, <1>3 DEF Grown, Extends

LEMMA MishapCounts ==
  ASSUME mishaps \in Nat, NEW happened \in BOOLEAN, Mishap(happened)
  PROVE  mishaps' \in Nat
BY DEF Mishap

-----------------------------------------------------------------------------
(* The pieces of ensureRegistered.                                         *)

LEMMA RepointedIsTrue ==
  ASSUME NEW tr, NEW tp, NEW a, NEW e \in Entry, TrueEntry(tr, tp, a, e), NEW endpoint
  PROVE  Repointed(e, endpoint) \in Entry /\ TrueEntry(tr, tp, a, Repointed(e, endpoint))
<1> DEFINE f == [e EXCEPT !.registered = 0]
<1>1. f \in Entry /\ f.staked = e.staked /\ f.registered = 0
  BY DEF Entry
<1>2. TrueEntry(tr, tp, a, f)
  BY <1>1 DEF TrueEntry
<1>3. Repointed(e, endpoint) = f \/ Repointed(e, endpoint) = e
  BY DEF Repointed
<1> HIDE DEF f
<1>4. QED
  BY <1>1, <1>2, <1>3

\* What the mirror node tells is on the topic, and the topic names true stakes.
LEMMA LookupIsTrue ==
  ASSUME TrueTopic(transfers, topic), NEW a \in Accounts, NEW k \in 0..Len(topic)
  PROVE  LET e == onChainRegistration(a, SubSeq(topic, 1, k)) IN
         e \in Entry /\ TrueEntry(transfers, topic, a, e)
<1> DEFINE seen == SubSeq(topic, 1, k)
           mine == {i \in DOMAIN seen : seen[i].account = a /\ i > Len(seen) - Window}
           stakes == {i \in mine : seen[i].stakeTx # 0}
           e == [staked |-> IF stakes = {} THEN 0 ELSE seen[Max(stakes)].stakeTx,
                 registered |-> Max(mine), endpoint |-> seen[Max(mine)].endpoint]
<1>1. topic \in Seq(Message) /\ Len(topic) \in Nat /\ k \in Nat /\ k <= Len(topic)
  BY DEF TrueTopic
<1>2. DOMAIN seen = 1..k /\ \A i \in 1..k : i \in DOMAIN topic /\ seen[i] = topic[i]
  BY <1>1
<1>3. onChainRegistration(a, seen) = IF mine = {} THEN NoEntry ELSE e
  BY DEF onChainRegistration
<1>4. mine \subseteq 1..k /\ stakes \subseteq mine
  BY <1>2
<1>5. \A i \in mine : i \in DOMAIN topic /\ seen[i] = topic[i] /\ topic[i].account = a
  BY <1>2
<1>6. \A i \in stakes : topic[i].stakeTx # 0
  BY <1>2
<1> HIDE DEF seen, mine, stakes
<1>7. CASE mine = {}
  BY <1>3, <1>7, NoEntryIsTrue DEF seen
<1>8. CASE mine # {}
  <2>1. Max(mine) \in mine
    BY <1>1, <1>4, <1>8, MaxIsAMember
  <2>2. /\ Max(mine) \in DOMAIN topic /\ topic[Max(mine)].account = a
        /\ seen[Max(mine)] = topic[Max(mine)]
    BY <1>5, <2>1
  <2>3. \A i \in DOMAIN topic : topic[i] \in Message /\ i \in Nat
    BY <1>1
  <2>4. e.registered = Max(mine) /\ e.endpoint = topic[Max(mine)].endpoint
    BY <2>2
  <2>5. e.endpoint \in Endpoints /\ e.registered \in Nat
    BY <2>2, <2>3, <2>4 DEF Message
  <2>6. e.staked \in Nat /\ (e.staked # 0 => StakeIn(transfers, a, e.staked))
    <3>1. CASE stakes = {}
      BY <3>1
    <3>2. CASE stakes # {}
      <4>1. Max(stakes) \in stakes
        BY <1>1, <1>4, <3>2, MaxIsAMember
      <4>2. /\ Max(stakes) \in DOMAIN topic /\ topic[Max(stakes)].account = a
            /\ seen[Max(stakes)] = topic[Max(stakes)] /\ topic[Max(stakes)].stakeTx # 0
        BY <1>4, <1>5, <1>6, <4>1
      <4>3. e.staked = topic[Max(stakes)].stakeTx
        BY <3>2, <4>2
      <4>4. topic[Max(stakes)].stakeTx \in Nat
        BY <2>3, <4>2 DEF Message
      <4>5. StakeIn(transfers, a, topic[Max(stakes)].stakeTx)
        BY <4>2 DEF TrueTopic
      <4>6. QED
        BY <4>3, <4>4, <4>5
    <3>3. QED
      BY <3>1, <3>2
  <2>7. e = [staked |-> e.staked, registered |-> e.registered, endpoint |-> e.endpoint]
    OBVIOUS
  <2> HIDE DEF e
  <2>8. e \in Entry
    BY <2>5, <2>6, <2>7 DEF Entry
  <2>9. TrueEntry(transfers, topic, a, e)
    BY <2>2, <2>4, <2>6 DEF TrueEntry
  <2>10. QED
    BY <1>3, <1>8, <2>8, <2>9 DEF seen
<1>9. QED
  BY <1>7, <1>8

\* A cache with a true entry for one account replaced.
LEMMA CacheIsTrue ==
  ASSUME NEW tr, NEW tp, NEW cache \in [Accounts -> Entry],
         \A b \in Accounts : TrueEntry(tr, tp, b, cache[b]),
         NEW a \in Accounts, NEW e \in Entry, TrueEntry(tr, tp, a, e)
  PROVE  /\ [cache EXCEPT ![a] = e] \in [Accounts -> Entry]
         /\ \A b \in Accounts : TrueEntry(tr, tp, b, [cache EXCEPT ![a] = e][b])
  OBVIOUS

LEMMA FileIsTrue ==
  ASSUME NEW tr, NEW tp, NEW f, TrueFiles(tr, tp, f), NEW h \in Hosts,
         NEW cache \in [Accounts -> Entry], \A b \in Accounts : TrueEntry(tr, tp, b, cache[b])
  PROVE  TrueFiles(tr, tp, [f EXCEPT ![h] = cache])
BY DEF TrueFiles

\* A service on which everything it carries is true.
Carries(tr, tp, s) ==
  /\ s \in Service /\ s.account \in Accounts /\ s.endpoint \in Endpoints
  /\ \A a \in Accounts : TrueEntry(tr, tp, a, s.cache[a])

LEMMA ServiceMoves ==
  ASSUME NEW tr, NEW tp, TrueServices(tr, tp, svc), NEW p \in Services,
         NEW me, Carries(tr, tp, me), NEW e \in Entry, TrueEntry(tr, tp, me.account, e),
         NEW pc \in Working \cup {"serving"}
  PROVE  TrueServices(tr, tp, [svc EXCEPT ![p] = [me EXCEPT !.pc = pc, !.entry = e]])
<1> DEFINE s == [me EXCEPT !.pc = pc, !.entry = e]
<1>1. me \in Service
  BY DEF Carries
<1>2. s \in Service
  BY <1>1 DEF Service
<1>3. /\ s.account = me.account /\ s.endpoint = me.endpoint /\ s.cache = me.cache
      /\ s.entry = e
  BY <1>1 DEF Service
<1> HIDE DEF s
<1>4. TrueService(tr, tp, s)
  BY <1>3 DEF TrueService, Carries
<1>5. TrueServices(tr, tp, [svc EXCEPT ![p] = s])
  BY <1>2, <1>4 DEF TrueServices
<1>6. QED
  BY <1>5 DEF s

LEMMA ProceedIsTrue ==
  ASSUME NEW p \in Services, NEW tr, NEW tp, TrueServices(tr, tp, svc), TrueFiles(tr, tp, file),
         NEW me, Carries(tr, tp, me), NEW e \in Entry, TrueEntry(tr, tp, me.account, e),
         NEW mayStake \in BOOLEAN, Proceed(p, me, e, mayStake)
  PROVE  TrueServices(tr, tp, svc') /\ TrueFiles(tr, tp, file')
<1> DEFINE stake == mayStake /\ e.staked = 0
           publish == ~stake /\ e.registered = 0
           pc == IF stake THEN "staking" ELSE IF publish THEN "publishing" ELSE "serving"
<1>1. pc \in Working \cup {"serving"}
  BY DEF Working
<1>2. /\ svc' = [svc EXCEPT ![p] = [me EXCEPT !.pc = pc, !.entry = e]]
      /\ file' = IF pc = "serving"
                 THEN [file EXCEPT ![HostOf[p]] = [me.cache EXCEPT ![me.account] = e]]
                 ELSE file
  BY DEF Proceed
<1> HIDE DEF pc
<1>3. TrueServices(tr, tp, svc')
  BY <1>1, <1>2, ServiceMoves
<1>4. me.cache \in [Accounts -> Entry] /\ me.account \in Accounts
  BY ServiceFields DEF Carries
<1> DEFINE cache == [me.cache EXCEPT ![me.account] = e]
<1>5. cache \in [Accounts -> Entry] /\ \A b \in Accounts : TrueEntry(tr, tp, b, cache[b])
  BY <1>4, CacheIsTrue DEF Carries
<1>6. HostOf[p] \in Hosts
  BY HostsAssumption
<1> HIDE DEF cache
<1>7. TrueFiles(tr, tp, [file EXCEPT ![HostOf[p]] = cache])
  BY <1>5, <1>6, FileIsTrue
<1>8. QED
  BY <1>2, <1>3, <1>7 DEF cache

-----------------------------------------------------------------------------
(* The services' actions.                                                  *)

\* A step of a service leaves the tools alone.
LEMMA ServiceKeeps ==
  ASSUME OnboardInv, Grown, TrueTopic(transfers', topic'), TrueFiles(transfers', topic', file'),
         TrueServices(transfers', topic', svc'), boots' \in Nat, mishaps' \in Nat,
         UNCHANGED <<env, config, call, created>>
  PROVE  OnboardInv'
<1>1. TrueCalls(transfers', call')
  BY CallsStay DEF OnboardInv
<1>2. QED
  BY <1>1 DEF OnboardInv, Counted

\* The variables of a service that has just started.
Booted(x, y, z) == [Off EXCEPT !.account = x, !.cache = y, !.endpoint = z]

LEMMA BootRecord ==
  ASSUME NEW x \in Accounts, NEW y \in [Accounts -> Entry], NEW z \in Endpoints
  PROVE  /\ Booted(x, y, z) \in Service
         /\ Booted(x, y, z).account = x /\ Booted(x, y, z).cache = y
         /\ Booted(x, y, z).endpoint = z /\ Booted(x, y, z).entry = NoEntry
<1>1. Off \in Service /\ Off.entry = NoEntry
  BY NoEntryIsTrue DEF Off, Service, EmptyFile
<1>2. QED
  BY <1>1 DEF Service, Booted

LEMMA BootKeeps ==
  ASSUME OnboardInv, NEW p \in Services, NEW busy \in BOOLEAN, Boot(p, busy), UNCHANGED toolVars
  PROVE  OnboardInv'
<1> DEFINE s == SettingsOf(p)
           e == file[HostOf[p]][s.account]
           endpoint == IF s.url = Unset THEN Local ELSE s.url
           me == Booted(s.account, file[HostOf[p]], endpoint)
<1>1. s \in Settings /\ s.account \in Accounts
  BY DEF Boot, SettingsOf, OnboardInv, Counted, Settings
<1>2. /\ HostOf[p] \in Hosts /\ file[HostOf[p]] \in [Accounts -> Entry]
      /\ \A a \in Accounts : TrueEntry(transfers, topic, a, file[HostOf[p]][a])
  BY HostsAssumption DEF OnboardInv, TrueFiles
<1>3. e \in Entry /\ TrueEntry(transfers, topic, s.account, e)
  BY <1>1, <1>2
<1>4. endpoint \in Endpoints
  BY <1>1 DEF Settings, Endpoints
<1> HIDE DEF s, endpoint
<1>6. me \in Service
  BY <1>1, <1>2, <1>4, BootRecord
<1>7. me.account = s.account /\ me.cache = file[HostOf[p]] /\ me.endpoint \in Endpoints
      /\ me.entry = NoEntry
  BY <1>1, <1>2, <1>4, BootRecord
<1>9. Carries(transfers, topic, me)
  BY <1>1, <1>2, <1>6, <1>7 DEF Carries
<1>10. /\ UNCHANGED <<transfers, topic, env, config>> /\ boots' = boots + 1
       /\ Mishap(busy)
       /\ IF e.staked = 0 /\ e.registered = 0
          THEN /\ svc' = [svc EXCEPT ![p] = [me EXCEPT !.pc = "lookup"]]
               /\ UNCHANGED file
          ELSE Proceed(p, me, Repointed(e, me.endpoint), TRUE)
  BY DEF Boot, Booted, s, endpoint
<1>11. boots' \in Nat
  BY <1>10 DEF OnboardInv, Counted
<1> HIDE DEF e, me
<1>12. mishaps' \in Nat
  BY <1>10, MishapCounts DEF OnboardInv, Counted
<1>13. TrueServices(transfers, topic, svc) /\ TrueFiles(transfers, topic, file)
  BY DEF OnboardInv
<1>14. TrueServices(transfers, topic, svc') /\ TrueFiles(transfers, topic, file')
  <2>1. CASE e.staked = 0 /\ e.registered = 0
    <3>1. [me EXCEPT !.pc = "lookup"] = [me EXCEPT !.pc = "lookup", !.entry = NoEntry]
      BY <1>6, <1>7 DEF Service
    <3>2. "lookup" \in Working \cup {"serving"}
      BY DEF Working
    <3>3. TrueServices(transfers, topic,
                       [svc EXCEPT ![p] = [me EXCEPT !.pc = "lookup", !.entry = NoEntry]])
      BY <1>9, <1>13, <3>2, NoEntryIsTrue, ServiceMoves
    <3>4. QED
      BY <1>10, <1>13, <2>1, <3>1, <3>3
  <2>2. CASE ~(e.staked = 0 /\ e.registered = 0)
    <3>1. Proceed(p, me, Repointed(e, me.endpoint), TRUE)
      BY <1>10, <2>2
    <3>2. /\ Repointed(e, me.endpoint) \in Entry
          /\ TrueEntry(transfers, topic, me.account, Repointed(e, me.endpoint))
      BY <1>3, <1>7, RepointedIsTrue
    <3>3. TRUE \in BOOLEAN
      OBVIOUS
    <3>4. QED
      BY <1>9, <1>13, <3>1, <3>2, <3>3, ProceedIsTrue
  <2>3. QED
    BY <2>1, <2>2
<1>15. Grown /\ TrueTopic(transfers', topic')
  BY <1>10, Same DEF OnboardInv
<1>16. QED
  BY <1>10, <1>11, <1>12, <1>14, <1>15, ServiceKeeps DEF toolVars

\* A service that awaits something carries true records.
LEMMA AwaitingCarries ==
  ASSUME OnboardInv, NEW p \in Services, svc[p].pc # "off"
  PROVE  /\ Carries(transfers, topic, svc[p])
         /\ svc[p].entry \in Entry /\ TrueEntry(transfers, topic, svc[p].account, svc[p].entry)
         /\ svc[p].account \in Accounts /\ svc[p].endpoint \in Endpoints
         /\ svc[p].cache \in [Accounts -> Entry] /\ HostOf[p] \in Hosts
<1>1. svc[p] \in Service /\ TrueService(transfers, topic, svc[p])
  BY DEF OnboardInv, TrueServices
<1>2. QED
  BY <1>1, ServiceFields, HostsAssumption DEF TrueService, Carries

LEMMA CarriesStays ==
  ASSUME Grown, NEW s, Carries(transfers, topic, s)
  PROVE  Carries(transfers', topic', s)
BY EntryStays DEF Carries

LEMMA LookupKeeps ==
  ASSUME OnboardInv, NEW p \in Services, Lookup(p), UNCHANGED toolVars
  PROVE  OnboardInv'
<1> DEFINE a == svc[p].account
<1>1. PICK seen \in 0..Len(topic), answers \in BOOLEAN :
        LET found == IF answers THEN onChainRegistration(a, SubSeq(topic, 1, seen)) ELSE NoEntry IN
        /\ Mishap(~answers \/ seen < Len(topic))
        /\ Proceed(p, svc[p], Repointed(found, svc[p].endpoint), TRUE)
  BY DEF Lookup
<1>2. svc[p].pc # "off" /\ UNCHANGED <<transfers, topic, env, config, boots>>
  BY DEF Lookup
<1> DEFINE found == IF answers THEN onChainRegistration(a, SubSeq(topic, 1, seen)) ELSE NoEntry
<1>3. found \in Entry /\ TrueEntry(transfers, topic, a, found)
  BY <1>2, AwaitingCarries, LookupIsTrue, NoEntryIsTrue DEF OnboardInv
<1>4. Mishap(~answers \/ seen < Len(topic)) /\ Proceed(p, svc[p], Repointed(found, svc[p].endpoint), TRUE)
  BY <1>1
<1> HIDE DEF found
<1>5. mishaps' \in Nat
  BY <1>4 DEF OnboardInv, Counted, Mishap
<1>6. /\ Repointed(found, svc[p].endpoint) \in Entry
      /\ TrueEntry(transfers, topic, a, Repointed(found, svc[p].endpoint))
  BY <1>3, RepointedIsTrue
<1>7. TRUE \in BOOLEAN /\ TrueServices(transfers, topic, svc) /\ TrueFiles(transfers, topic, file)
      /\ Carries(transfers, topic, svc[p])
  BY <1>2, AwaitingCarries DEF OnboardInv
<1>8. TrueServices(transfers, topic, svc') /\ TrueFiles(transfers, topic, file')
  BY <1>4, <1>6, <1>7, ProceedIsTrue
<1>9. Grown /\ TrueTopic(transfers', topic') /\ boots' \in Nat
  BY <1>2, Same DEF OnboardInv, Counted
<1>10. QED
  BY <1>2, <1>5, <1>8, <1>9, ServiceKeeps DEF toolVars

LEMMA StakeToEscrowKeeps ==
  ASSUME OnboardInv, NEW p \in Services, StakeToEscrow(p), UNCHANGED toolVars
  PROVE  OnboardInv'
<1>1. svc[p].pc # "off" /\ UNCHANGED <<topic, env, config, boots>>
  BY DEF StakeToEscrow
<1>2. PICK outcome \in Outcomes :
        /\ Mishap(outcome # "ok")
        /\ Transferred(outcome, svc[p].account, HostOf[p])
        /\ Proceed(p, svc[p], StakeEntry(svc[p].entry, outcome), FALSE)
  BY DEF StakeToEscrow
<1>3. TrueTopic(transfers, topic) /\ transfers \in Seq(Stake)
  BY DEF OnboardInv, TrueTopic
<1>4. /\ transfers' \in Seq(Stake) /\ Extends(transfers', transfers)
      /\ outcome # "fail" => /\ StakeIn(transfers', svc[p].account, Len(transfers'))
                             /\ Len(transfers') \in Nat
  BY <1>1, <1>2, <1>3, AwaitingCarries, TransferGrows
<1>5. Grown
  BY <1>1, <1>4 DEF Grown, Extends
<1>6. TrueTopic(transfers', topic')
  BY <1>1, <1>3, <1>4 DEF TrueTopic, StakeIn, Extends
<1> DEFINE e == StakeEntry(svc[p].entry, outcome)
<1>7. e \in Entry /\ TrueEntry(transfers', topic', svc[p].account, e)
  <2>1. svc[p].entry \in Entry /\ TrueEntry(transfers', topic', svc[p].account, svc[p].entry)
    BY <1>1, <1>5, AwaitingCarries, EntryStays
  <2>2. CASE outcome # "ok"
    BY <2>1, <2>2 DEF StakeEntry
  <2>3. CASE outcome = "ok"
    <3>1. e = [svc[p].entry EXCEPT !.staked = Len(transfers')]
      BY <2>3 DEF StakeEntry
    <3>2. Len(transfers') \in Nat /\ StakeIn(transfers', svc[p].account, Len(transfers'))
      BY <1>4, <2>3
    <3>3. /\ e \in Entry /\ e.staked = Len(transfers')
          /\ e.registered = svc[p].entry.registered /\ e.endpoint = svc[p].entry.endpoint
      BY <2>1, <3>1, <3>2 DEF Entry
    <3>4. QED
      BY <2>1, <3>2, <3>3 DEF TrueEntry
  <2>4. QED
    BY <2>2, <2>3
<1>8. Proceed(p, svc[p], e, FALSE)
  BY <1>2
<1> HIDE DEF e
<1>9. TrueServices(transfers', topic', svc) /\ TrueFiles(transfers', topic', file)
  BY <1>5, ServicesStay, FilesStay DEF OnboardInv
<1>10. Carries(transfers', topic', svc[p]) /\ FALSE \in BOOLEAN
  BY <1>1, <1>5, AwaitingCarries, CarriesStays
<1>11. TrueServices(transfers', topic', svc') /\ TrueFiles(transfers', topic', file')
  BY <1>7, <1>8, <1>9, <1>10, ProceedIsTrue
<1>12. mishaps' \in Nat /\ boots' \in Nat
  BY <1>1, <1>2 DEF OnboardInv, Counted, Mishap
<1>13. QED
  BY <1>1, <1>5, <1>6, <1>11, <1>12, ServiceKeeps DEF toolVars

LEMMA PublishKeeps ==
  ASSUME OnboardInv, NEW p \in Services, Publish(p), UNCHANGED toolVars
  PROVE  OnboardInv'
<1> DEFINE me == svc[p]
           m == [account |-> me.account, endpoint |-> me.endpoint, stakeTx |-> me.entry.staked]
<1>1. me.pc # "off" /\ UNCHANGED <<transfers, env, config, boots>>
  BY DEF Publish
<1>2. PICK outcome \in Outcomes :
        /\ Mishap(outcome # "ok")
        /\ Published(outcome, m)
        /\ LET e == IF outcome = "ok"
                    THEN [me.entry EXCEPT !.registered = Len(topic'), !.endpoint = me.endpoint]
                    ELSE me.entry IN
           /\ svc' = [svc EXCEPT ![p] = [me EXCEPT !.pc = "serving", !.entry = e]]
           /\ file' = [file EXCEPT ![HostOf[p]] = [me.cache EXCEPT ![me.account] = e]]
  BY DEF Publish
<1>3. /\ Carries(transfers, topic, me)
      /\ me.entry \in Entry /\ TrueEntry(transfers, topic, me.account, me.entry)
      /\ me.account \in Accounts /\ me.endpoint \in Endpoints
      /\ me.cache \in [Accounts -> Entry] /\ HostOf[p] \in Hosts
  BY <1>1, AwaitingCarries
<1>4. /\ m \in Message /\ m.account = me.account /\ m.endpoint = me.endpoint
      /\ m.stakeTx # 0 => StakeIn(transfers, m.account, m.stakeTx)
  BY <1>3, EntryFields DEF Message, TrueEntry
<1> DEFINE e == IF outcome = "ok"
                THEN [me.entry EXCEPT !.registered = Len(topic'), !.endpoint = me.endpoint]
                ELSE me.entry
           cache == [me.cache EXCEPT ![me.account] = e]
<1>5. /\ svc' = [svc EXCEPT ![p] = [me EXCEPT !.pc = "serving", !.entry = e]]
      /\ file' = [file EXCEPT ![HostOf[p]] = cache]
  BY <1>2
<1>6. Published(outcome, m) /\ Mishap(outcome # "ok")
  BY <1>2
<1> HIDE DEF me, m
<1>7. /\ TrueTopic(transfers', topic') /\ Grown
      /\ outcome # "fail" => /\ Len(topic') \in DOMAIN topic' /\ topic'[Len(topic')] = m
                             /\ Len(topic') \in Nat
  BY <1>1, <1>4, <1>6, PublicationGrows DEF OnboardInv
<1>8. e \in Entry /\ TrueEntry(transfers', topic', me.account, e)
  <2>1. TrueEntry(transfers', topic', me.account, me.entry)
    BY <1>3, <1>7, EntryStays
  <2>2. CASE outcome # "ok"
    BY <1>3, <2>1, <2>2
  <2>3. CASE outcome = "ok"
    <3>1. e = [me.entry EXCEPT !.registered = Len(topic'), !.endpoint = me.endpoint]
      BY <2>3
    <3>2. Len(topic') \in Nat /\ Len(topic') \in DOMAIN topic' /\ topic'[Len(topic')] = m
      BY <1>7, <2>3
    <3> HIDE DEF e
    <3>3. /\ e \in Entry /\ e.staked = me.entry.staked
          /\ e.registered = Len(topic') /\ e.endpoint = me.endpoint
      BY <1>3, <3>1, <3>2 DEF Entry
    <3>4. QED
      BY <1>4, <2>1, <3>2, <3>3 DEF TrueEntry
  <2>4. QED
    BY <2>2, <2>3
<1> HIDE DEF e
<1>9. TrueServices(transfers', topic', svc) /\ TrueFiles(transfers', topic', file)
  BY <1>7, ServicesStay, FilesStay DEF OnboardInv
<1>10. Carries(transfers', topic', me) /\ "serving" \in Working \cup {"serving"}
  BY <1>3, <1>7, CarriesStays
<1>11. TrueServices(transfers', topic', svc')
  BY <1>5, <1>8, <1>9, <1>10, ServiceMoves
<1>12. cache \in [Accounts -> Entry] /\ \A b \in Accounts : TrueEntry(transfers', topic', b, cache[b])
  BY <1>3, <1>8, <1>10, CacheIsTrue DEF Carries
<1> HIDE DEF cache
<1>13. TrueFiles(transfers', topic', file')
  BY <1>3, <1>5, <1>9, <1>12, FileIsTrue
<1>14. mishaps' \in Nat /\ boots' \in Nat
  BY <1>1, <1>6 DEF OnboardInv, Counted, Mishap
<1>15. QED
  BY <1>1, <1>7, <1>11, <1>13, <1>14, ServiceKeeps DEF toolVars

LEMMA StopKeeps ==
  ASSUME OnboardInv, NEW p \in Services, Stop(p), UNCHANGED toolVars
  PROVE  OnboardInv'
<1> DEFINE me == svc[p]
           m == [account |-> me.account, endpoint |-> me.endpoint, stakeTx |-> me.entry.staked]
<1>1. me.pc # "off" /\ UNCHANGED <<file, env, config, boots>> /\ svc' = [svc EXCEPT ![p] = Off]
      /\ Mishap(me.pc \in Working)
  BY DEF Stop
<1>2. PICK outcome \in {"fail", "lost"} :
        /\ IF me.pc = "staking" THEN Transferred(outcome, me.account, HostOf[p])
           ELSE UNCHANGED transfers
        /\ IF me.pc = "publishing" THEN Published(outcome, m) ELSE UNCHANGED topic
  BY DEF Stop
<1>3. /\ me.entry \in Entry /\ TrueEntry(transfers, topic, me.account, me.entry)
      /\ me.account \in Accounts /\ me.endpoint \in Endpoints /\ HostOf[p] \in Hosts
  BY <1>1, AwaitingCarries
<1>4. /\ m \in Message /\ m.account = me.account
      /\ m.stakeTx # 0 => StakeIn(transfers, m.account, m.stakeTx)
  BY <1>3, EntryFields DEF Message, TrueEntry
<1>5. TrueTopic(transfers, topic) /\ transfers \in Seq(Stake)
  BY DEF OnboardInv, TrueTopic
<1> HIDE DEF me, m
<1>6. Grown /\ TrueTopic(transfers', topic')
  <2>1. CASE me.pc = "staking"
    <3>1. Transferred(outcome, me.account, HostOf[p]) /\ UNCHANGED topic
      BY <1>2, <2>1
    <3>2. transfers' \in Seq(Stake) /\ Extends(transfers', transfers)
      BY <1>3, <1>5, <3>1, TransferGrows
    <3>3. QED
      BY <1>5, <3>1, <3>2 DEF TrueTopic, StakeIn, Extends, Grown
  <2>2. CASE me.pc = "publishing"
    <3>1. Published(outcome, m) /\ UNCHANGED transfers
      BY <1>2, <2>2
    <3>2. QED
      BY <1>4, <1>5, <3>1, PublicationGrows
  <2>3. CASE me.pc # "staking" /\ me.pc # "publishing"
    BY <1>2, <1>5, <2>3, Same
  <2>4. QED
    BY <2>1, <2>2, <2>3
<1>7. TrueServices(transfers', topic', svc) /\ TrueFiles(transfers', topic', file)
  BY <1>6, ServicesStay, FilesStay DEF OnboardInv
<1>8. Off \in Service /\ TrueService(transfers', topic', Off)
  BY NoEntryIsTrue DEF Off, Service, EmptyFile, TrueService
<1>9. TrueServices(transfers', topic', svc')
  BY <1>1, <1>7, <1>8 DEF TrueServices
<1>10. mishaps' \in Nat /\ boots' \in Nat
  BY <1>1 DEF OnboardInv, Counted, Mishap
<1>11. QED
  BY <1>1, <1>6, <1>7, <1>9, <1>10, ServiceKeeps DEF toolVars

LEMMA RedeployKeeps ==
  ASSUME OnboardInv, NEW h \in Hosts, Redeploy(h), UNCHANGED toolVars
  PROVE  OnboardInv'
<1>1. UNCHANGED <<transfers, topic, svc, env, config, boots, mishaps>>
      /\ file' = [file EXCEPT ![h] = EmptyFile]
  BY DEF Redeploy
<1>2. EmptyFile \in [Accounts -> Entry]
      /\ \A a \in Accounts : TrueEntry(transfers, topic, a, EmptyFile[a])
  BY NoEntryIsTrue DEF EmptyFile
<1>3. TrueFiles(transfers, topic, file')
  BY <1>1, <1>2, FileIsTrue DEF OnboardInv
<1>4. Grown
  BY <1>1, Same
<1>5. QED
  BY <1>1, <1>3, <1>4, ServiceKeeps DEF OnboardInv, Counted, toolVars

-----------------------------------------------------------------------------
(* The tools' actions.                                                     *)

\* A step of a tool call leaves the services alone.
LEMMA ToolKeeps ==
  ASSUME OnboardInv, Grown, TrueTopic(transfers', topic'), TrueFiles(transfers', topic', file'),
         UNCHANGED <<svc, boots>>, env' \in Settings, config' \in Settings,
         mishaps' \in Nat, created' \subseteq Accounts, TrueCalls(transfers', call')
  PROVE  OnboardInv'
<1>1. TrueServices(transfers', topic', svc')
  BY ServicesStay DEF OnboardInv
<1>2. QED
  BY <1>1 DEF OnboardInv, Counted

LEMMA CallFields ==
  ASSUME NEW k \in ToolCall
  PROVE  /\ k.tool \in AllTools \cup {"none"} /\ k.url \in Public \cup {Unset}
         /\ k.mustAnswer \in BOOLEAN /\ k.account \in Accounts \cup {Unset}
         /\ k.stakedAs \in Accounts \cup {Unset} /\ k.stakeTx \in Nat /\ k.live \in BOOLEAN
BY DEF ToolCall

LEMMA CallMoves ==
  ASSUME NEW tr, TrueCalls(tr, call), NEW c \in Calls, NEW k \in ToolCall, TrueCall(tr, k)
  PROVE  TrueCalls(tr, [call EXCEPT ![c] = k])
BY DEF TrueCalls

\* Where a call may go without claiming anything.
Plain == {"done", "failed", "create", "stake", "check", "register", "verify", "creating", "checking"}

LEMMA PlainIsTrue ==
  ASSUME NEW tr, TrueCalls(tr, call), NEW c \in Calls, NEW pc \in Plain,
         pc = "register" => call[c].url \in Public
  PROVE  /\ [call[c] EXCEPT !.pc = pc] \in ToolCall
         /\ TrueCall(tr, [call[c] EXCEPT !.pc = pc])
<1> DEFINE k == [call[c] EXCEPT !.pc = pc]
<1>1. call[c] \in ToolCall /\ TrueCall(tr, call[c])
  BY DEF TrueCalls
<1>2. k \in ToolCall
  BY <1>1 DEF ToolCall, Plain, Begins, Awaiting
<1>3. k.pc = pc /\ k.tool = call[c].tool /\ k.url = call[c].url
  BY <1>1 DEF ToolCall
<1> HIDE DEF k
<1>4. TrueCall(tr, k)
  BY <1>1, <1>3 DEF TrueCall, Plain
<1>5. QED
  BY <1>2, <1>4 DEF k

LEMMA GoesOn ==
  ASSUME NEW tr, TrueCalls(tr, call), NEW c \in Calls, NEW pc \in Plain,
         pc = "register" => call[c].url \in Public, GoTo(c, pc)
  PROVE  TrueCalls(tr, call')
<1>1. call' = [call EXCEPT ![c] = [call[c] EXCEPT !.pc = pc]]
  BY DEF GoTo, TrueCalls
<1>2. QED
  BY <1>1, PlainIsTrue, CallMoves

\* Only provision_provider goes on to register, and it has an endpoint.
LEMMA AfterIsPlain ==
  ASSUME NEW tr, TrueCalls(tr, call), NEW c \in Calls, NEW step \in Begins
  PROVE  After(c, step) \in Plain /\ (After(c, step) = "register" => call[c].url \in Public)
<1>1. TrueCall(tr, call[c])
  BY DEF TrueCalls
<1>2. CASE call[c].tool # "provision"
  BY <1>2 DEF After, Plain
<1>3. CASE call[c].tool = "provision"
  BY <1>1, <1>3 DEF After, Plain, Begins, TrueCall
<1>4. QED
  BY <1>2, <1>3

\* What the invariant says of a step that changes neither ledger nor file.
LEMMA Quietly ==
  ASSUME OnboardInv, UNCHANGED <<transfers, topic, file, svc, boots>>,
         env' \in Settings, config' \in Settings, mishaps' \in Nat, created' \subseteq Accounts,
         TrueCalls(transfers, call')
  PROVE  OnboardInv'
BY Same, ToolKeeps DEF OnboardInv

LEMMA EnvFields ==
  ASSUME OnboardInv
  PROVE  /\ env \in Settings /\ config \in Settings
         /\ env.account \in Accounts \cup {Unset} /\ env.url \in Public \cup {Unset}
         /\ Unset \notin Accounts /\ Unset \notin Public
         /\ mishaps \in Nat /\ created \subseteq Accounts /\ boots \in Nat
         /\ TrueCalls(transfers, call)
BY UnsetAssumption DEF OnboardInv, Counted, Settings

LEMMA CallToolKeeps ==
  ASSUME OnboardInv, NEW c \in Calls, NEW tool \in Tools, NEW url \in Public \cup {Unset},
         NEW mustAnswer \in BOOLEAN, CallTool(c, tool, url, mustAnswer)
  PROVE  OnboardInv'
<1> DEFINE endpoint == IF tool = "register" /\ url = Unset THEN env.url ELSE url
           pc == FirstPiece(tool, endpoint)
           k == [NewCall EXCEPT !.pc = pc, !.tool = tool, !.url = endpoint,
                                !.mustAnswer = mustAnswer]
<1>1. /\ tool \in {"check", "provision"} => url # Unset
      /\ Mishap(Busy)
      /\ call' = [call EXCEPT ![c] = k]
      /\ UNCHANGED <<transfers, topic, file, svc, env, config, boots, created>>
  BY DEF CallTool
<1>2. endpoint \in Public \cup {Unset} /\ tool \in AllTools
  BY EnvFields, ToolsAssumption
<1>3. tool = "provision" => endpoint \in Public
  BY <1>1
<1> HIDE DEF endpoint
<1>4. /\ pc \in {"create", "stake", "check", "register", "failed"}
      /\ pc = "register" => endpoint \in Public
  BY <1>2 DEF FirstPiece, AllTools
<1> HIDE DEF pc
<1>5. NewCall \in ToolCall
  BY DEF NewCall, ToolCall
<1>6. k \in ToolCall
  BY <1>2, <1>4, <1>5 DEF ToolCall, Begins
<1>7. k.pc = pc /\ k.tool = tool /\ k.url = endpoint
  BY <1>5 DEF ToolCall
<1> HIDE DEF k
<1>8. TrueCall(transfers, k)
  BY <1>3, <1>4, <1>7 DEF TrueCall
<1>9. TrueCalls(transfers, call')
  BY <1>1, <1>6, <1>8, EnvFields, CallMoves
<1>10. mishaps' \in Nat
  BY <1>1, EnvFields DEF Mishap
<1>11. QED
  BY <1>1, <1>9, <1>10, EnvFields, Quietly

LEMMA CreateBeginsKeeps ==
  ASSUME OnboardInv, NEW c \in Calls, CreateBegins(c)
  PROVE  OnboardInv'
<1> DEFINE pc == IF env.account # Unset THEN After(c, "create") ELSE "creating"
<1>1. GoTo(c, pc) /\ UNCHANGED <<regVars, created>>
  BY DEF CreateBegins
<1>2. "create" \in Begins
  BY DEF Begins
<1>3. pc \in Plain /\ (pc = "register" => call[c].url \in Public)
  BY <1>2, EnvFields, AfterIsPlain DEF Plain
<1> HIDE DEF pc
<1>4. TrueCalls(transfers, call')
  BY <1>1, <1>3, EnvFields, GoesOn
<1>5. QED
  BY <1>1, <1>4, EnvFields, Quietly DEF regVars

LEMMA CreateEndsKeeps ==
  ASSUME OnboardInv, NEW c \in Calls, CreateEnds(c)
  PROVE  OnboardInv'
<1>1. UNCHANGED <<transfers, topic, file, svc, config, boots>>
  BY DEF CreateEnds
<1>2. ASSUME NEW a \in Accounts, created' = created \cup {a}, env' = [env EXCEPT !.account = a],
             GoTo(c, After(c, "create")), UNCHANGED mishaps
      PROVE  OnboardInv'
  <2>1. "create" \in Begins
    BY DEF Begins
  <2>2. TrueCalls(transfers, call')
    BY <1>2, <2>1, EnvFields, AfterIsPlain, GoesOn
  <2>3. env' \in Settings /\ created' \subseteq Accounts
    BY <1>2, EnvFields DEF Settings
  <2>4. QED
    BY <1>1, <1>2, <2>2, <2>3, EnvFields, Quietly
<1>3. CASE GoTo(c, "failed") /\ Mishap(TRUE) /\ UNCHANGED <<env, created>>
  <2>1. "failed" \in Plain /\ "failed" # "register"
    BY DEF Plain
  <2>2. TrueCalls(transfers, call')
    BY <1>3, <2>1, EnvFields, GoesOn
  <2>3. mishaps' \in Nat
    BY <1>3, EnvFields DEF Mishap
  <2>4. QED
    BY <1>1, <1>3, <2>2, <2>3, EnvFields, Quietly
<1>4. QED
  BY <1>2, <1>3 DEF CreateEnds

LEMMA StakeBeginsKeeps ==
  ASSUME OnboardInv, NEW c \in Calls, StakeBegins(c)
  PROVE  OnboardInv'
<1> DEFINE cached == file[Box][env.account].staked
           pc == IF cached # 0 THEN After(c, "stake") ELSE "staking"
           k == [call[c] EXCEPT !.pc = pc, !.stakedAs = env.account, !.stakeTx = cached]
<1>1. UNCHANGED <<regVars, created>>
  BY DEF StakeBegins
<1>2. call[c] \in ToolCall /\ TrueCall(transfers, call[c])
  BY EnvFields DEF TrueCalls
<1>3. CASE env.account = Unset
  <2>1. GoTo(c, "failed")
    BY <1>3 DEF StakeBegins, GoTo
  <2>2. "failed" \in Plain /\ "failed" # "register"
    BY DEF Plain
  <2>3. TrueCalls(transfers, call')
    BY <2>1, <2>2, EnvFields, GoesOn
  <2>4. QED
    BY <1>1, <2>3, EnvFields, Quietly DEF regVars
<1>4. CASE env.account # Unset
  <2>1. env.account \in Accounts
    BY <1>4, EnvFields
  <2>2. cached \in Nat
    BY <2>1, HostsAssumption, EntryFields DEF OnboardInv, TrueFiles
  <2>3. "stake" \in Begins
    BY DEF Begins
  <2>4. pc \in Plain \cup {"staking"} /\ (pc = "register" => call[c].url \in Public)
    BY <2>3, EnvFields, AfterIsPlain
  <2>5. call' = [call EXCEPT ![c] = k]
    BY <1>4, EnvFields DEF StakeBegins, TrueCalls
  <2> HIDE DEF cached, pc
  <2>6. k \in ToolCall
    BY <1>2, <2>1, <2>2, <2>4 DEF ToolCall, Plain, Begins, Awaiting
  <2>7. k.pc = pc /\ k.tool = call[c].tool /\ k.url = call[c].url /\ k.stakedAs = env.account
    BY <1>2 DEF ToolCall
  <2> HIDE DEF k
  <2>8. TrueCall(transfers, k)
    BY <1>2, <2>1, <2>4, <2>7 DEF TrueCall, Plain
  <2>9. TrueCalls(transfers, call')
    BY <2>5, <2>6, <2>8, EnvFields, CallMoves
  <2>10. QED
    BY <1>1, <2>9, EnvFields, Quietly DEF regVars
<1>5. QED
  BY <1>3, <1>4

LEMMA StakeEndsKeeps ==
  ASSUME OnboardInv, NEW c \in Calls, StakeEnds(c)
  PROVE  OnboardInv'
<1> DEFINE a == call[c].stakedAs
<1>1. call[c].pc = "staking" /\ UNCHANGED <<topic, svc, env, config, boots, created>>
  BY DEF StakeEnds
<1>2. PICK outcome \in Outcomes :
        /\ Mishap(outcome # "ok")
        /\ Transferred(outcome, a, Box)
        /\ IF outcome = "ok"
           THEN /\ file' = [file EXCEPT ![Box][a].staked = Len(transfers')]
                /\ call' = [call EXCEPT ![c].pc = After(c, "stake"), ![c].stakeTx = Len(transfers')]
           ELSE UNCHANGED file /\ GoTo(c, "failed")
  BY DEF StakeEnds
<1>3. a \in Accounts /\ Box \in Hosts /\ TrueTopic(transfers, topic) /\ transfers \in Seq(Stake)
  BY <1>1, HostsAssumption DEF OnboardInv, TrueCalls, TrueCall, TrueTopic
<1>4. call[c] \in ToolCall /\ TrueCall(transfers, call[c])
  BY EnvFields DEF TrueCalls
<1> HIDE DEF a
<1>5. /\ transfers' \in Seq(Stake) /\ Extends(transfers', transfers)
      /\ outcome # "fail" => StakeIn(transfers', a, Len(transfers')) /\ Len(transfers') \in Nat
  BY <1>2, <1>3, TransferGrows
<1>6. Grown
  BY <1>1, <1>5 DEF Grown, Extends
<1>7. TrueTopic(transfers', topic')
  BY <1>1, <1>3, <1>5 DEF TrueTopic, StakeIn, Extends
<1>8. TrueFiles(transfers', topic', file) /\ TrueCalls(transfers', call)
  BY <1>6, FilesStay, CallsStay DEF OnboardInv
<1>9. mishaps' \in Nat
  BY <1>2, EnvFields DEF Mishap
<1>10. CASE outcome = "ok"
  <2> DEFINE e == [file[Box][a] EXCEPT !.staked = Len(transfers')]
             k == [call[c] EXCEPT !.pc = After(c, "stake"), !.stakeTx = Len(transfers')]
  <2>1. Len(transfers') \in Nat /\ StakeIn(transfers', a, Len(transfers'))
    BY <1>5, <1>10
  <2>2. /\ file[Box] \in [Accounts -> Entry] /\ file[Box][a] \in Entry
        /\ \A b \in Accounts : TrueEntry(transfers', topic', b, file[Box][b])
    BY <1>3, <1>8 DEF TrueFiles
  <2>3. /\ e \in Entry /\ e.staked = Len(transfers')
        /\ e.registered = file[Box][a].registered /\ e.endpoint = file[Box][a].endpoint
    BY <2>1, <2>2 DEF Entry
  <2>4. file' = [file EXCEPT ![Box] = [file[Box] EXCEPT ![a] = e]]
    BY <1>2, <1>3, <1>8, <1>10 DEF TrueFiles
  <2> HIDE DEF e
  <2>5. TrueEntry(transfers', topic', a, e)
    BY <1>3, <2>1, <2>2, <2>3 DEF TrueEntry
  <2> DEFINE cache == [file[Box] EXCEPT ![a] = e]
  <2>6. cache \in [Accounts -> Entry] /\ \A b \in Accounts : TrueEntry(transfers', topic', b, cache[b])
    BY <1>3, <2>2, <2>3, <2>5, CacheIsTrue
  <2> HIDE DEF cache
  <2>7. TrueFiles(transfers', topic', file')
    BY <1>3, <1>8, <2>4, <2>6, FileIsTrue DEF cache
  <2>8. "stake" \in Begins
    BY DEF Begins
  <2>9. After(c, "stake") \in Plain /\ (After(c, "stake") = "register" => call[c].url \in Public)
    BY <2>8, EnvFields, AfterIsPlain
  <2>10. call' = [call EXCEPT ![c] = k]
    BY <1>2, <1>10, EnvFields DEF TrueCalls
  <2>11. k \in ToolCall
    BY <1>4, <2>1, <2>9 DEF ToolCall, Plain, Begins, Awaiting
  <2>12. k.pc = After(c, "stake") /\ k.tool = call[c].tool /\ k.url = call[c].url
    BY <1>4 DEF ToolCall
  <2> HIDE DEF k
  <2>13. TrueCall(transfers', k)
    BY <1>4, <2>9, <2>12 DEF TrueCall, Plain
  <2>14. TrueCalls(transfers', call')
    BY <1>8, <2>10, <2>11, <2>13, CallMoves
  <2>15. QED
    BY <1>1, <1>6, <1>7, <1>9, <2>7, <2>14, EnvFields, ToolKeeps
<1>11. CASE outcome # "ok"
  <2>1. UNCHANGED file /\ GoTo(c, "failed")
    BY <1>2, <1>11
  <2>2. "failed" \in Plain /\ "failed" # "register"
    BY DEF Plain
  <2>3. TrueCalls(transfers', call')
    BY <1>8, <2>1, <2>2, GoesOn
  <2>4. QED
    BY <1>1, <1>6, <1>7, <1>8, <1>9, <2>1, <2>3, EnvFields, ToolKeeps
<1>12. QED
  BY <1>10, <1>11

LEMMA CheckBeginsKeeps ==
  ASSUME OnboardInv, NEW c \in Calls, CheckBegins(c)
  PROVE  OnboardInv'
<1> DEFINE k == [call[c] EXCEPT !.pc = "checking", !.account = env.account]
<1>1. UNCHANGED <<regVars, created>>
  BY DEF CheckBegins
<1>2. call[c] \in ToolCall /\ TrueCall(transfers, call[c])
  BY EnvFields DEF TrueCalls
<1>3. CASE env.account = Unset
  <2>1. GoTo(c, "failed")
    BY <1>3 DEF CheckBegins, GoTo
  <2>2. "failed" \in Plain /\ "failed" # "register"
    BY DEF Plain
  <2>3. TrueCalls(transfers, call')
    BY <2>1, <2>2, EnvFields, GoesOn
  <2>4. QED
    BY <1>1, <2>3, EnvFields, Quietly DEF regVars
<1>4. CASE env.account # Unset
  <2>1. env.account \in Accounts
    BY <1>4, EnvFields
  <2>2. call' = [call EXCEPT ![c] = k]
    BY <1>4, EnvFields DEF CheckBegins, TrueCalls
  <2>3. k \in ToolCall
    BY <1>2, <2>1 DEF ToolCall, Awaiting
  <2>4. k.pc = "checking" /\ k.tool = call[c].tool /\ k.url = call[c].url
    BY <1>2 DEF ToolCall
  <2> HIDE DEF k
  <2>5. TrueCall(transfers, k)
    BY <1>2, <2>4 DEF TrueCall
  <2>6. TrueCalls(transfers, call')
    BY <2>2, <2>3, <2>5, EnvFields, CallMoves
  <2>7. QED
    BY <1>1, <2>6, EnvFields, Quietly DEF regVars
<1>5. QED
  BY <1>3, <1>4

LEMMA CheckEndsKeeps ==
  ASSUME OnboardInv, NEW c \in Calls, CheckEnds(c)
  PROVE  OnboardInv'
<1> DEFINE url == call[c].url
<1>1. /\ config' = [account |-> call[c].account, url |-> url]
      /\ UNCHANGED <<transfers, topic, file, svc, boots, created>>
  BY DEF CheckEnds
<1>2. PICK reachable \in BOOLEAN :
        /\ Mishap(~reachable /\ Serving(url) # {})
        /\ env' = IF reachable THEN [env EXCEPT !.url = url] ELSE env
        /\ GoTo(c, IF reachable THEN After(c, "check") ELSE "failed")
  BY DEF CheckEnds
<1>3. call[c] \in ToolCall
  BY EnvFields DEF TrueCalls
<1>4. url \in Public \cup {Unset} /\ call[c].account \in Accounts \cup {Unset}
  BY <1>3, CallFields
<1>5. config' \in Settings
  BY <1>1, <1>4 DEF Settings
<1>6. env' \in Settings
  BY <1>2, <1>4, EnvFields DEF Settings
<1>7. mishaps' \in Nat
  BY <1>2, EnvFields DEF Mishap
<1>8. "check" \in Begins
  BY DEF Begins
<1> DEFINE pc == IF reachable THEN After(c, "check") ELSE "failed"
<1>9. pc \in Plain /\ (pc = "register" => call[c].url \in Public)
  BY <1>8, EnvFields, AfterIsPlain DEF Plain
<1>10. GoTo(c, pc)
  BY <1>2
<1> HIDE DEF pc
<1>11. TrueCalls(transfers, call')
  BY <1>9, <1>10, EnvFields, GoesOn
<1>12. QED
  BY <1>1, <1>5, <1>6, <1>7, <1>11, EnvFields, Quietly

LEMMA RegisterBeginsKeeps ==
  ASSUME OnboardInv, NEW c \in Calls, RegisterBegins(c)
  PROVE  OnboardInv'
<1> DEFINE cached == file[Box][env.account]
           url == call[c].url
           pc == IF AlreadyRegistered(cached, url) THEN After(c, "register") ELSE "registering"
           k == [call[c] EXCEPT !.pc = pc, !.account = env.account, !.stakeTx = cached.staked]
<1>1. call[c].pc = "register"
      /\ UNCHANGED <<transfers, topic, file, svc, config, boots, mishaps, created>>
  BY DEF RegisterBegins
<1>2. call[c] \in ToolCall /\ TrueCall(transfers, call[c]) /\ url \in Public
  BY <1>1, EnvFields DEF TrueCalls, TrueCall
<1>3. CASE env.account = Unset
  <2>1. GoTo(c, "failed") /\ UNCHANGED env
    BY <1>3 DEF RegisterBegins
  <2>2. "failed" \in Plain /\ "failed" # "register"
    BY DEF Plain
  <2>3. TrueCalls(transfers, call')
    BY <2>1, <2>2, EnvFields, GoesOn
  <2>4. QED
    BY <1>1, <2>1, <2>3, EnvFields, Quietly
<1>4. CASE env.account # Unset
  <2>1. env.account \in Accounts
    BY <1>4, EnvFields
  <2>2. cached.staked \in Nat /\ (cached.staked # 0 => StakeIn(transfers, env.account, cached.staked))
    BY <2>1, HostsAssumption, EntryFields DEF OnboardInv, TrueFiles, TrueEntry
  <2>3. "register" \in Begins
    BY DEF Begins
  <2>4. pc \in Plain \cup {"registering"} /\ (pc = "register" => call[c].url \in Public)
    BY <2>3, EnvFields, AfterIsPlain
  <2>5. call' = [call EXCEPT ![c] = k]
    BY <1>4, EnvFields DEF RegisterBegins, TrueCalls
  <2>6. env' = [env EXCEPT !.url = url]
    BY <1>4 DEF RegisterBegins
  <2>7. env' \in Settings
    BY <1>2, <2>6, EnvFields DEF Settings
  <2> HIDE DEF cached, pc
  <2>8. k \in ToolCall
    BY <1>2, <2>1, <2>2, <2>4 DEF ToolCall, Plain, Begins, Awaiting
  <2>9. /\ k.pc = pc /\ k.tool = call[c].tool /\ k.url = url /\ k.account = env.account
        /\ k.stakeTx = cached.staked
    BY <1>2 DEF ToolCall
  <2> HIDE DEF k
  <2>10. TrueCall(transfers, k)
    BY <1>2, <2>1, <2>2, <2>4, <2>9 DEF TrueCall, Plain
  <2>11. TrueCalls(transfers, call')
    BY <2>5, <2>8, <2>10, EnvFields, CallMoves
  <2>12. QED
    BY <1>1, <2>7, <2>11, EnvFields, Quietly
<1>5. QED
  BY <1>3, <1>4

LEMMA RegisterEndsKeeps ==
  ASSUME OnboardInv, NEW c \in Calls, RegisterEnds(c)
  PROVE  OnboardInv'
<1> DEFINE a == call[c].account
           url == call[c].url
           m == [account |-> a, endpoint |-> url, stakeTx |-> call[c].stakeTx]
<1>1. call[c].pc = "registering" /\ UNCHANGED <<transfers, svc, env, config, boots, created>>
  BY DEF RegisterEnds
<1>2. PICK outcome \in Outcomes :
        /\ Mishap(outcome # "ok")
        /\ Published(outcome, m)
        /\ IF outcome = "ok"
           THEN /\ file' = [file EXCEPT ![Box] = setRegistered(@, a, Len(topic'), url)]
                /\ GoTo(c, After(c, "register"))
           ELSE UNCHANGED file /\ GoTo(c, "failed")
  BY DEF RegisterEnds
<1>3. call[c] \in ToolCall /\ TrueCall(transfers, call[c])
  BY EnvFields DEF TrueCalls
<1>4. /\ a \in Accounts /\ url \in Public /\ call[c].stakeTx \in Nat
      /\ call[c].stakeTx # 0 => StakeIn(transfers, a, call[c].stakeTx)
  BY <1>1, <1>3, CallFields DEF TrueCall
<1>5. m \in Message
  BY <1>4 DEF Message, Endpoints
<1>6. /\ m.account = a /\ m.endpoint = url
      /\ m.stakeTx # 0 => StakeIn(transfers, m.account, m.stakeTx)
  BY <1>4
<1> HIDE DEF a, url, m
<1>7. /\ TrueTopic(transfers', topic') /\ Grown
      /\ outcome # "fail" => /\ Len(topic') \in DOMAIN topic' /\ topic'[Len(topic')] = m
                             /\ Len(topic') \in Nat
  BY <1>1, <1>2, <1>5, <1>6, PublicationGrows DEF OnboardInv
<1>8. TrueFiles(transfers', topic', file) /\ TrueCalls(transfers', call) /\ Box \in Hosts
  BY <1>7, FilesStay, CallsStay, HostsAssumption DEF OnboardInv
<1>9. mishaps' \in Nat
  BY <1>2, EnvFields DEF Mishap
<1>10. CASE outcome = "ok"
  <2> DEFINE e == [file[Box][a] EXCEPT !.registered = Len(topic'), !.endpoint = url]
  <2>1. Len(topic') \in Nat /\ Len(topic') \in DOMAIN topic' /\ topic'[Len(topic')] = m
    BY <1>7, <1>10
  <2>2. /\ file[Box] \in [Accounts -> Entry] /\ file[Box][a] \in Entry
        /\ \A b \in Accounts : TrueEntry(transfers', topic', b, file[Box][b])
    BY <1>4, <1>8 DEF TrueFiles, a
  <2>3. a \in Accounts /\ url \in Endpoints
    BY <1>4 DEF a, url, Endpoints
  <2>4. /\ e \in Entry /\ e.staked = file[Box][a].staked
        /\ e.registered = Len(topic') /\ e.endpoint = url
    BY <2>1, <2>2, <2>3 DEF Entry
  <2>5. file' = [file EXCEPT ![Box] = [file[Box] EXCEPT ![a] = e]]
    BY <1>2, <1>8, <1>10, <2>2, <2>3 DEF TrueFiles, setRegistered
  <2> HIDE DEF e
  <2>6. TrueEntry(transfers', topic', a, e)
    BY <1>6, <2>1, <2>2, <2>3, <2>4 DEF TrueEntry
  <2> DEFINE cache == [file[Box] EXCEPT ![a] = e]
  <2>7. cache \in [Accounts -> Entry] /\ \A b \in Accounts : TrueEntry(transfers', topic', b, cache[b])
    BY <2>2, <2>3, <2>4, <2>6, CacheIsTrue
  <2>8. file' = [file EXCEPT ![Box] = cache]
    BY <2>5
  <2> HIDE DEF cache
  <2>9. TrueFiles(transfers', topic', file')
    BY <1>8, <2>7, <2>8, FileIsTrue
  <2>10. "register" \in Begins
    BY DEF Begins
  <2>11. After(c, "register") \in Plain /\ (After(c, "register") = "register" => call[c].url \in Public)
    BY <2>10, EnvFields, AfterIsPlain
  <2>12. TrueCalls(transfers', call')
    BY <1>2, <1>8, <1>10, <2>11, GoesOn
  <2>13. QED
    BY <1>1, <1>7, <1>9, <2>9, <2>12, EnvFields, ToolKeeps
<1>11. CASE outcome # "ok"
  <2>1. UNCHANGED file /\ GoTo(c, "failed")
    BY <1>2, <1>11
  <2>2. "failed" \in Plain /\ "failed" # "register"
    BY DEF Plain
  <2>3. TrueCalls(transfers', call')
    BY <1>8, <2>1, <2>2, GoesOn
  <2>4. QED
    BY <1>1, <1>7, <1>8, <1>9, <2>1, <2>3, EnvFields, ToolKeeps
<1>12. QED
  BY <1>10, <1>11

LEMMA VerifyKeeps ==
  ASSUME OnboardInv, NEW c \in Calls, Verify(c)
  PROVE  OnboardInv'
<1>1. UNCHANGED <<regVars, created>>
  BY DEF Verify
<1>2. PICK live \in BOOLEAN : call' = [call EXCEPT ![c].pc = "done", ![c].live = live]
  BY DEF Verify
<1> DEFINE k == [call[c] EXCEPT !.pc = "done", !.live = live]
<1>3. call[c] \in ToolCall /\ TrueCall(transfers, call[c])
  BY EnvFields DEF TrueCalls
<1>4. call' = [call EXCEPT ![c] = k]
  BY <1>2, EnvFields DEF TrueCalls
<1>5. k \in ToolCall /\ k.pc = "done" /\ k.tool = call[c].tool /\ k.url = call[c].url
  BY <1>3 DEF ToolCall
<1> HIDE DEF k
<1>6. TrueCall(transfers, k)
  BY <1>3, <1>5 DEF TrueCall
<1>7. TrueCalls(transfers, call')
  BY <1>4, <1>5, <1>6, EnvFields, CallMoves
<1>8. QED
  BY <1>1, <1>7, EnvFields, Quietly DEF regVars

LEMMA ServerDiesKeeps ==
  ASSUME OnboardInv, ServerDies
  PROVE  OnboardInv'
<1> DEFINE dead(c) == [call[c] EXCEPT !.pc = "failed"]
<1>1. /\ Mishap(TRUE) /\ UNCHANGED <<file, svc, env, config, boots, created>>
      /\ call' = [c \in Calls |-> IF call[c].pc \in Begins \cup Awaiting THEN dead(c) ELSE call[c]]
  BY DEF ServerDies
<1>2. TrueTopic(transfers, topic) /\ transfers \in Seq(Stake) /\ Box \in Hosts
  BY HostsAssumption DEF OnboardInv, TrueTopic
<1>3. UNCHANGED <<transfers, topic>> => Grown /\ TrueTopic(transfers', topic')
  BY <1>2, Same
<1>4. ASSUME NEW c \in Calls, call[c].pc = "staking", Transferred("lost", call[c].stakedAs, Box),
             UNCHANGED topic
      PROVE  Grown /\ TrueTopic(transfers', topic')
  <2>1. call[c].stakedAs \in Accounts
    BY <1>4, EnvFields DEF TrueCalls, TrueCall
  <2>2. transfers' \in Seq(Stake) /\ Extends(transfers', transfers)
    BY <1>2, <1>4, <2>1, TransferGrows
  <2>3. QED
    BY <1>2, <1>4, <2>2 DEF TrueTopic, StakeIn, Extends, Grown
<1>5. ASSUME NEW c \in Calls, call[c].pc = "registering", UNCHANGED transfers,
             Published("lost", [account |-> call[c].account, endpoint |-> call[c].url,
                                stakeTx |-> call[c].stakeTx])
      PROVE  Grown /\ TrueTopic(transfers', topic')
  <2> DEFINE m == [account |-> call[c].account, endpoint |-> call[c].url,
                   stakeTx |-> call[c].stakeTx]
  <2>1. call[c] \in ToolCall /\ TrueCall(transfers, call[c])
    BY EnvFields DEF TrueCalls
  <2>2. /\ call[c].account \in Accounts /\ call[c].url \in Public /\ call[c].stakeTx \in Nat
        /\ call[c].stakeTx # 0 => StakeIn(transfers, call[c].account, call[c].stakeTx)
    BY <1>5, <2>1, CallFields DEF TrueCall
  <2>3. m \in Message
    BY <2>2 DEF Message, Endpoints
  <2>4. m.stakeTx # 0 => StakeIn(transfers, m.account, m.stakeTx)
    BY <2>2
  <2>5. Published("lost", m)
    BY <1>5
  <2> HIDE DEF m
  <2>6. QED
    BY <1>2, <1>5, <2>3, <2>4, <2>5, PublicationGrows
<1>6. Grown /\ TrueTopic(transfers', topic')
  BY <1>3, <1>4, <1>5 DEF ServerDies
<1>7. TrueFiles(transfers', topic', file) /\ TrueCalls(transfers', call)
  BY <1>6, FilesStay, CallsStay DEF OnboardInv
<1>8. "failed" \in Plain /\ "failed" # "register"
  BY DEF Plain
<1>9. \A c \in Calls : dead(c) \in ToolCall /\ TrueCall(transfers', dead(c))
  BY <1>7, <1>8, PlainIsTrue
<1>10. \A c \in Calls : call[c] \in ToolCall /\ TrueCall(transfers', call[c])
  BY <1>7 DEF TrueCalls
<1> HIDE DEF dead
<1>11. TrueCalls(transfers', call')
  BY <1>1, <1>9, <1>10 DEF TrueCalls
<1>12. mishaps' \in Nat
  BY <1>1, EnvFields DEF Mishap
<1>13. QED
  BY <1>1, <1>6, <1>7, <1>11, <1>12, EnvFields, ToolKeeps

-----------------------------------------------------------------------------
LEMMA OnboardInvInit == OnboardInit => OnboardInv
<1> SUFFICES ASSUME OnboardInit PROVE OnboardInv
  OBVIOUS
<1>1. transfers = << >> /\ topic = << >>
  BY DEF OnboardInit, RegInit
<1>2. TrueTopic(transfers, topic)
  BY <1>1 DEF TrueTopic
<1>3. TrueFiles(transfers, topic, file)
  BY NoEntryIsTrue DEF OnboardInit, RegInit, TrueFiles, EmptyFile
<1>4. Off \in Service /\ TrueService(transfers, topic, Off)
  BY NoEntryIsTrue DEF Off, Service, EmptyFile, TrueService
<1>5. TrueServices(transfers, topic, svc)
  BY <1>4 DEF OnboardInit, RegInit, TrueServices
<1>6. NewCall \in ToolCall /\ TrueCall(transfers, NewCall)
  BY DEF NewCall, ToolCall, TrueCall
<1>7. TrueCalls(transfers, call)
  BY <1>6 DEF OnboardInit, TrueCalls
<1>8. Counted
  BY DEF OnboardInit, RegInit, Counted, Settings
<1>9. QED
  BY <1>2, <1>3, <1>5, <1>7, <1>8 DEF OnboardInv

LEMMA OnboardInvStep == OnboardInv /\ [OnboardNext]_onboardVars => OnboardInv'
<1> SUFFICES ASSUME OnboardInv, [OnboardNext]_onboardVars PROVE OnboardInv'
  OBVIOUS
<1>1. ASSUME NEW p \in Services, Boot(p, Busy) \/ ServiceStep(p), UNCHANGED toolVars
      PROVE  OnboardInv'
  <2>1. Busy \in BOOLEAN
    BY DEF Busy, SomeServiceWorks
  <2>2. QED
    BY <1>1, <2>1, BootKeeps, LookupKeeps, StakeToEscrowKeeps, PublishKeeps, StopKeeps
    DEF ServiceStep
<1>2. ASSUME NEW h \in Hosts, Redeploy(h), UNCHANGED toolVars PROVE OnboardInv'
  BY <1>2, RedeployKeeps
<1>3. ASSUME NEW c \in Calls, NEW tool \in Tools, NEW url \in Public \cup {Unset},
             NEW mustAnswer \in BOOLEAN, CallTool(c, tool, url, mustAnswer)
      PROVE  OnboardInv'
  BY <1>3, CallToolKeeps
<1>4. ASSUME NEW c \in Calls, ToolStep(c) PROVE OnboardInv'
  BY <1>4, CreateBeginsKeeps, CreateEndsKeeps, StakeBeginsKeeps, StakeEndsKeeps, CheckBeginsKeeps,
     CheckEndsKeeps, RegisterBeginsKeeps, RegisterEndsKeeps, VerifyKeeps DEF ToolStep
<1>5. CASE ServerDies
  BY <1>5, ServerDiesKeeps
<1>6. CASE UNCHANGED onboardVars
  BY <1>6, EnvFields, Quietly DEF onboardVars
<1>7. QED
  BY <1>1, <1>2, <1>3, <1>4, <1>5, <1>6 DEF OnboardNext

LEMMA OnboardInvAlways == OnboardSpec => []OnboardInv
BY OnboardInvInit, OnboardInvStep, PTL DEF OnboardSpec

-----------------------------------------------------------------------------
\* Every variable of registration and onboarding keeps its type.
THEOREM OnboardTypeCorrect == OnboardSpec => []OnboardTypeOK
<1>1. OnboardInv => OnboardTypeOK
  BY DEF OnboardInv, OnboardTypeOK, RegTypeOK, TrueTopic, TrueFiles, TrueServices, TrueCalls, Counted
<1>2. QED
  BY <1>1, OnboardInvAlways, PTL

\* The stakes and registrations that cache files and the registry topic name
\* are the account's own, whatever fails, restarts or overlaps
\* (registry.ts:195, provider-mcp registry.ts:19-29).
THEOREM RecordsStayTrue == OnboardSpec => []RecordsAreTrue
<1>1. OnboardInv => RecordsAreTrue
  BY DEF OnboardInv, RecordsAreTrue, TrueTopic, TrueFiles, TrueEntry, StakeIn, StakeOf
<1>2. QED
  BY <1>1, OnboardInvAlways, PTL

-----------------------------------------------------------------------------
(* Where nothing failed and nothing overlapped.  At most one service or    *)
(* call is at work (`Alone`), and the file of the box, with the entry that *)
(* a service on the box is about to write into it, names every stake that  *)
(* left the box (`BoxInv`).                                                *)

ServiceIdle(p) == svc[p].pc \notin Working

CallIdle(c) == call[c].pc \notin Begins \cup Awaiting

Alone ==
  /\ \A p \in Services : ServiceIdle(p) \/ /\ \A q \in Services \ {p} : ServiceIdle(q)
                                           /\ \A c \in Calls : CallIdle(c)
  /\ \A c \in Calls : CallIdle(c) \/ /\ \A d \in Calls \ {c} : CallIdle(d)
                                     /\ \A p \in Services : ServiceIdle(p)

\* The stake that an account has made from the box, if any, is the one that
\* the cache `f` names.
Told(tr, f) ==
  \A a \in Accounts : \A tx \in DOMAIN tr :
    tr[tx].account = a /\ tr[tx].host = Box => tx = f[a].staked

AtWorkOnBox(p) == HostOf[p] = Box /\ ~ServiceIdle(p)

\* What a service is about to write back.
Written(s) == [s.cache EXCEPT ![s.account] = s.entry]

BoxService(tr, f, s) ==
  /\ s.cache = f[Box] /\ Told(tr, Written(s))
  /\ s.pc \in {"lookup", "staking"} => s.entry.staked = 0

BoxInv ==
  /\ (\A p \in Services : ~AtWorkOnBox(p)) => Told(transfers, file[Box])
  /\ \A p \in Services : AtWorkOnBox(p) => BoxService(transfers, file, svc[p])
  /\ \A c \in Calls : call[c].pc = "staking" => file[Box][call[c].stakedAs].staked = 0

HasStake(tr, a) == \E tx \in DOMAIN tr : tr[tx].account = a

\* What provision_provider has done where it is, when .env names `account`.
Provisions(tr, account, k) ==
  k.tool = "provision" =>
    /\ k.pc \in {"staking", "check", "checking", "register", "registering"} => k.stakedAs = account
    /\ k.pc \in {"check", "checking", "register", "registering"} => HasStake(tr, k.stakedAs)
    /\ k.pc \in {"registering", "verify", "done"} => HasStake(tr, k.account)

AllProvision == \A c \in Calls : Provisions(transfers, env.account, call[c])

SoloInv == mishaps = 0 => Alone /\ BoxInv /\ AllProvision

OthersIdle(p) ==
  /\ \A q \in Services \ {p} : ServiceIdle(q)
  /\ \A c \in Calls : CallIdle(c)

OtherCallsIdle(c) ==
  /\ \A d \in Calls \ {c} : CallIdle(d)
  /\ \A p \in Services : ServiceIdle(p)

LEMMA NothingHappened ==
  ASSUME mishaps \in Nat, NEW happened \in BOOLEAN, Mishap(happened), mishaps' = 0
  PROVE  mishaps = 0 /\ ~happened
BY DEF Mishap

LEMMA FreeMeansIdle ==
  ASSUME ~Busy
  PROVE  (\A p \in Services : ServiceIdle(p)) /\ (\A c \in Calls : CallIdle(c))
BY DEF Busy, SomeServiceWorks, ServiceIdle, CallIdle

\* A ledger that is appended to keeps what it had.
LEMMA AppendExtends ==
  ASSUME NEW S, NEW s \in Seq(S), NEW x
  PROVE  Extends(Append(s, x), s)
<1>1. s \in Seq(S \cup {x}) /\ x \in S \cup {x}
  OBVIOUS
<1>2. QED
  BY <1>1 DEF Extends

LEMMA LedgersExtend ==
  ASSUME transfers \in Seq(Stake), topic \in Seq(Message), NEW outcome
  PROVE  /\ \A a, h : Transferred(outcome, a, h) => Extends(transfers', transfers)
         /\ \A m : Published(outcome, m) => Extends(topic', topic)
<1>1. ASSUME NEW a, NEW h, Transferred(outcome, a, h) PROVE Extends(transfers', transfers)
  <2>1. CASE outcome = "fail"
    BY <1>1, <2>1 DEF Transferred, Extends
  <2>2. CASE outcome # "fail"
    <3>1. transfers' = Append(transfers, [account |-> a, host |-> h])
      BY <1>1, <2>2 DEF Transferred
    <3>2. QED
      BY <3>1, AppendExtends
  <2>3. QED
    BY <2>1, <2>2
<1>2. ASSUME NEW m, Published(outcome, m) PROVE Extends(topic', topic)
  <2>1. CASE outcome = "fail"
    BY <1>2, <2>1 DEF Published, Extends
  <2>2. CASE outcome # "fail"
    <3>1. topic' = Append(topic, m)
      BY <1>2, <2>2 DEF Published
    <3>2. QED
      BY <3>1, AppendExtends
  <2>3. QED
    BY <2>1, <2>2
<1>3. QED
  BY <1>1, <1>2

\* Neither ledger ever loses a record.
LEMMA LedgersGrow == ASSUME OnboardInv, [OnboardNext]_onboardVars PROVE Grown
<1>1. transfers \in Seq(Stake) /\ topic \in Seq(Message)
  BY DEF OnboardInv, TrueTopic
<1>2. Extends(transfers, transfers) /\ Extends(topic, topic)
  BY DEF Extends
<1>3. ASSUME NEW p \in Services, Boot(p, Busy) \/ ServiceStep(p) PROVE Grown
  <2>1. CASE Boot(p, Busy) \/ Lookup(p)
    BY <2>1, Same DEF Boot, Lookup
  <2>2. CASE StakeToEscrow(p)
    BY <1>1, <1>2, <2>2, LedgersExtend DEF StakeToEscrow, Grown
  <2>3. CASE Publish(p)
    BY <1>1, <1>2, <2>3, LedgersExtend DEF Publish, Grown
  <2>4. CASE Stop(p)
    <3>1. Extends(transfers', transfers)
      BY <1>1, <1>2, <2>4, LedgersExtend DEF Stop
    <3>2. Extends(topic', topic)
      BY <1>1, <1>2, <2>4, LedgersExtend DEF Stop
    <3>3. QED
      BY <3>1, <3>2 DEF Grown
  <2>5. QED
    BY <1>3, <2>1, <2>2, <2>3, <2>4 DEF ServiceStep
<1>4. ASSUME NEW h \in Hosts, Redeploy(h) PROVE Grown
  BY <1>4, Same DEF Redeploy
<1>5. ASSUME NEW c \in Calls, ToolStep(c) PROVE Grown
  <2>1. CASE StakeEnds(c)
    BY <1>1, <1>2, <2>1, LedgersExtend DEF StakeEnds, Grown
  <2>2. CASE RegisterEnds(c)
    BY <1>1, <1>2, <2>2, LedgersExtend DEF RegisterEnds, Grown
  <2>3. CASE CreateBegins(c) \/ CreateEnds(c) \/ StakeBegins(c)
    BY <2>3, Same DEF CreateBegins, CreateEnds, StakeBegins, regVars
  <2>4. CASE CheckBegins(c) \/ CheckEnds(c) \/ RegisterBegins(c) \/ Verify(c)
    BY <2>4, Same DEF CheckBegins, CheckEnds, RegisterBegins, Verify, regVars
  <2>5. QED
    BY <1>5, <2>1, <2>2, <2>3, <2>4 DEF ToolStep
<1>6. ASSUME NEW c \in Calls, NEW tool, NEW url, NEW mustAnswer, CallTool(c, tool, url, mustAnswer)
      PROVE  Grown
  BY <1>6, Same DEF CallTool
<1>7. CASE ServerDies
  BY <1>1, <1>2, <1>7, LedgersExtend DEF ServerDies, Grown
<1>8. CASE UNCHANGED onboardVars
  BY <1>8, Same DEF onboardVars
<1>9. QED
  BY <1>3, <1>4, <1>5, <1>6, <1>7, <1>8 DEF OnboardNext

\* Two caches that differ in one account only, which has no stake from the box.
LEMMA ToldAgain ==
  ASSUME NEW tr \in Seq(Stake), NEW f, Told(tr, f), NEW a \in Accounts, NEW g,
         \A b \in Accounts \ {a} : g[b].staked = f[b].staked,
         f[a].staked = 0 \/ g[a].staked = f[a].staked
  PROVE  Told(tr, g)
<1> SUFFICES ASSUME NEW b \in Accounts, NEW tx \in DOMAIN tr, tr[tx].account = b, tr[tx].host = Box
             PROVE  tx = g[b].staked
  BY DEF Told
<1>1. tx = f[b].staked
  BY DEF Told
<1>2. tx # 0
  OBVIOUS
<1>3. QED
  BY <1>1, <1>2

\* The first stake of an account from the box, and the cache that names it.
LEMMA ToldOfStake ==
  ASSUME NEW tr \in Seq(Stake), NEW f, Told(tr, f), NEW a \in Accounts, f[a].staked = 0, NEW g,
         \A b \in Accounts \ {a} : g[b].staked = f[b].staked,
         g[a].staked = Len(tr) + 1
  PROVE  Told(Append(tr, [account |-> a, host |-> Box]), g)
<1> DEFINE x == [account |-> a, host |-> Box]
           tr2 == Append(tr, x)
<1>1. x \in Stake /\ x.account = a
  BY HostsAssumption DEF Stake
<1> HIDE DEF x
<1>2. /\ DOMAIN tr2 = 1..(Len(tr) + 1) /\ tr2[Len(tr) + 1] = x
      /\ \A tx \in DOMAIN tr : tr2[tx] = tr[tx]
      /\ \A tx \in DOMAIN tr2 : tx \in DOMAIN tr \/ tx = Len(tr) + 1
  BY <1>1
<1>3. \A tx \in DOMAIN tr : tx # 0
  OBVIOUS
<1> HIDE DEF tr2
<1>4. ASSUME NEW b \in Accounts, NEW tx \in DOMAIN tr2, tr2[tx].account = b, tr2[tx].host = Box
      PROVE  tx = g[b].staked
  <2>1. CASE tx \in DOMAIN tr
    <3>1. tx = f[b].staked
      BY <1>2, <1>4, <2>1 DEF Told
    <3>2. QED
      BY <1>3, <2>1, <3>1
  <2>2. CASE tx = Len(tr) + 1
    BY <1>1, <1>2, <1>4, <2>2
  <2>3. QED
    BY <1>2, <2>1, <2>2
<1>5. Told(tr2, g)
  BY <1>4 DEF Told
<1>6. QED
  BY <1>5 DEF tr2, x

\* A stake from another machine.
LEMMA ToldElsewhere ==
  ASSUME NEW tr \in Seq(Stake), NEW f, Told(tr, f), NEW a \in Accounts,
         NEW h \in Hosts, h # Box
  PROVE  Told(Append(tr, [account |-> a, host |-> h]), f)
<1> DEFINE x == [account |-> a, host |-> h]
           tr2 == Append(tr, x)
<1>1. x \in Stake /\ x.host # Box
  BY DEF Stake
<1> HIDE DEF x
<1>2. \A tx \in DOMAIN tr2 : (tx \in DOMAIN tr /\ tr2[tx] = tr[tx]) \/ tr2[tx] = x
  BY <1>1
<1> HIDE DEF tr2
<1>3. Told(tr2, f)
  BY <1>1, <1>2 DEF Told
<1>4. QED
  BY <1>3 DEF tr2, x

-----------------------------------------------------------------------------
(* The services, alone.                                                    *)

\* A service that moves while nothing else is at work.
LEMMA ServiceSolo ==
  ASSUME svc \in [Services -> Service], BoxInv, NEW p \in Services, OthersIdle(p),
         NEW s, svc' = [svc EXCEPT ![p] = s], UNCHANGED call,
         IF HostOf[p] = Box /\ s.pc \in Working
         THEN BoxService(transfers', file', s) ELSE Told(transfers', file'[Box])
  PROVE  Alone' /\ BoxInv'
<1>1. svc'[p] = s /\ \A q \in Services \ {p} : svc'[q] = svc[q]
  OBVIOUS
<1>2. \A q \in Services \ {p} : svc'[q].pc \notin Working
  BY <1>1 DEF OthersIdle, ServiceIdle
<1>3. \A c \in Calls : call'[c].pc \notin Begins \cup Awaiting
  BY DEF OthersIdle, CallIdle
<1>4. Alone'
  BY <1>2, <1>3 DEF Alone, ServiceIdle, CallIdle
<1>5. \A c \in Calls : call'[c].pc # "staking"
  BY <1>3 DEF Awaiting
<1>6. \A q \in Services : AtWorkOnBox(q)' => q = p /\ HostOf[p] = Box /\ s.pc \in Working
  BY <1>1, <1>2 DEF AtWorkOnBox, ServiceIdle
<1>7. HostOf[p] = Box /\ s.pc \in Working => AtWorkOnBox(p)'
  BY <1>1 DEF AtWorkOnBox, ServiceIdle
<1>8. BoxInv'
  BY <1>1, <1>5, <1>6, <1>7 DEF BoxInv
<1>9. QED
  BY <1>4, <1>8

LEMMA FileFields ==
  ASSUME OnboardInv
  PROVE  /\ file \in [Hosts -> [Accounts -> Entry]] /\ svc \in [Services -> Service]
         /\ Box \in Hosts /\ file[Box] \in [Accounts -> Entry]
         /\ transfers \in Seq(Stake) /\ topic \in Seq(Message)
         /\ mishaps \in Nat /\ call \in [Calls -> ToolCall]
         /\ \A p \in Services : HostOf[p] \in Hosts
BY HostsAssumption DEF OnboardInv, TrueFiles, TrueServices, TrueTopic, TrueCalls, Counted

\* Where Proceed leads, on the box: what it writes, now or later, is `e`.
LEMMA ProceedOnBox ==
  ASSUME OnboardInv, NEW p \in Services, HostOf[p] = Box,
         NEW me \in Service, me.account \in Accounts, me.cache = file[Box], NEW e \in Entry,
         NEW tr, Told(tr, [me.cache EXCEPT ![me.account] = e]),
         NEW mayStake \in BOOLEAN, Proceed(p, me, e, mayStake)
  PROVE  \E s : /\ svc' = [svc EXCEPT ![p] = s]
                /\ IF s.pc \in Working THEN BoxService(tr, file', s) ELSE Told(tr, file'[Box])
<1> DEFINE stake == mayStake /\ e.staked = 0
           publish == ~stake /\ e.registered = 0
           pc == IF stake THEN "staking" ELSE IF publish THEN "publishing" ELSE "serving"
           s == [me EXCEPT !.pc = pc, !.entry = e]
           new == [me.cache EXCEPT ![me.account] = e]
<1>1. /\ svc' = [svc EXCEPT ![p] = s]
      /\ file' = IF pc = "serving" THEN [file EXCEPT ![Box] = new] ELSE file
  BY DEF Proceed
<1>2. pc \in {"staking", "publishing", "serving"} /\ (pc = "staking" => e.staked = 0)
  OBVIOUS
<1>3. Told(tr, new)
  OBVIOUS
<1> HIDE DEF pc, new
<1>4. s.pc = pc /\ s.entry = e /\ s.cache = me.cache /\ s.account = me.account
  BY DEF Service
<1> HIDE DEF s
<1>5. Written(s) = new
  BY <1>4 DEF Written, new
<1>6. CASE pc = "serving"
  <2>1. file'[Box] = new
    BY <1>1, <1>6, FileFields
  <2>2. s.pc \notin Working
    BY <1>4, <1>6 DEF Working
  <2>3. QED
    BY <1>1, <1>3, <2>1, <2>2
<1>7. CASE pc # "serving"
  <2>1. s.pc \in Working /\ file' = file
    BY <1>1, <1>2, <1>4, <1>7 DEF Working
  <2>2. BoxService(tr, file', s)
    BY <1>2, <1>3, <1>4, <1>5, <1>7, <2>1 DEF BoxService
  <2>3. QED
    BY <1>1, <2>1, <2>2
<1>8. QED
  BY <1>6, <1>7

LEMMA ProceedElsewhere ==
  ASSUME OnboardInv, NEW p \in Services, HostOf[p] # Box, NEW me, NEW e, NEW mayStake,
         Proceed(p, me, e, mayStake)
  PROVE  file'[Box] = file[Box] /\ \E s : svc' = [svc EXCEPT ![p] = s]
BY FileFields DEF Proceed

LEMMA RepointedKeepsStake ==
  ASSUME NEW e \in Entry, NEW endpoint
  PROVE  Repointed(e, endpoint) \in Entry /\ Repointed(e, endpoint).staked = e.staked
BY DEF Repointed, Entry

\* While nothing on the box works, its file names the stakes.
LEMMA IdleBoxTold ==
  ASSUME BoxInv, \A q \in Services : HostOf[q] = Box => ServiceIdle(q)
  PROVE  Told(transfers, file[Box])
BY DEF BoxInv, AtWorkOnBox

LEMMA BootSolo ==
  ASSUME OnboardInv, Alone, BoxInv, NEW p \in Services, Boot(p, FALSE), ~Busy, UNCHANGED call
  PROVE  Alone' /\ BoxInv'
<1> DEFINE set == SettingsOf(p)
           e == file[HostOf[p]][set.account]
           endpoint == IF set.url = Unset THEN Local ELSE set.url
           me == Booted(set.account, file[HostOf[p]], endpoint)
<1>1. set \in Settings /\ set.account \in Accounts
  BY DEF Boot, SettingsOf, OnboardInv, Counted, Settings
<1>2. endpoint \in Endpoints
  BY <1>1 DEF Settings, Endpoints
<1>3. HostOf[p] \in Hosts /\ file[HostOf[p]] \in [Accounts -> Entry] /\ e \in Entry
  BY <1>1, FileFields
<1>4. /\ transfers' = transfers
      /\ IF e.staked = 0 /\ e.registered = 0
         THEN /\ svc' = [svc EXCEPT ![p] = [me EXCEPT !.pc = "lookup"]]
              /\ UNCHANGED file
         ELSE Proceed(p, me, Repointed(e, me.endpoint), TRUE)
  BY DEF Boot, Booted
<1> HIDE DEF set, endpoint
<1>5. /\ me \in Service /\ me.account = set.account /\ me.cache = file[HostOf[p]]
      /\ me.entry = NoEntry
  BY <1>1, <1>2, <1>3, BootRecord
<1>6. OthersIdle(p) /\ Told(transfers, file[Box])
  BY FreeMeansIdle, IdleBoxTold DEF OthersIdle
<1> HIDE DEF me
<1>7. CASE HostOf[p] # Box
  <2>1. file'[Box] = file[Box] /\ \E s : svc' = [svc EXCEPT ![p] = s]
    BY <1>4, <1>7, ProceedElsewhere
  <2>2. QED
    BY <1>4, <1>6, <1>7, <2>1, FileFields, ServiceSolo
<1>8. CASE HostOf[p] = Box
  <2>1. me.cache = file[Box] /\ e = file[Box][set.account] /\ file[Box] \in [Accounts -> Entry]
    BY <1>5, <1>8, FileFields
  <2>2. CASE e.staked = 0 /\ e.registered = 0
    <3> DEFINE s == [me EXCEPT !.pc = "lookup"]
    <3>1. /\ s.pc = "lookup" /\ s.entry = NoEntry /\ s.cache = file[Box] /\ s.account = set.account
      BY <1>5, <2>1 DEF Service
    <3>2. svc' = [svc EXCEPT ![p] = s] /\ file' = file
      BY <1>4, <2>2
    <3> HIDE DEF s
    <3>3. Written(s) = [file[Box] EXCEPT ![set.account] = NoEntry]
      BY <3>1 DEF Written
    <3>4. NoEntry.staked = 0
      BY DEF NoEntry
    <3>5. /\ Written(s)[set.account].staked = file[Box][set.account].staked
          /\ \A b \in Accounts \ {set.account} : Written(s)[b].staked = file[Box][b].staked
      BY <1>1, <2>1, <2>2, <3>3, <3>4
    <3>6. Told(transfers, Written(s))
      BY <1>1, <1>6, <3>5, FileFields, ToldAgain
    <3>7. BoxService(transfers', file', s) /\ s.pc \in Working
      BY <1>4, <3>1, <3>2, <3>4, <3>6 DEF BoxService, Working
    <3>8. QED
      BY <1>6, <1>8, <3>2, <3>7, FileFields, ServiceSolo
  <2>3. CASE ~(e.staked = 0 /\ e.registered = 0)
    <3> DEFINE r == Repointed(e, me.endpoint)
               new == [me.cache EXCEPT ![me.account] = r]
    <3>1. r \in Entry /\ r.staked = e.staked
      BY <1>3, RepointedKeepsStake
    <3>2. Proceed(p, me, r, TRUE)
      BY <1>4, <2>3
    <3> HIDE DEF r
    <3>3. /\ new[set.account].staked = file[Box][set.account].staked
          /\ \A b \in Accounts \ {set.account} : new[b].staked = file[Box][b].staked
      BY <1>1, <1>5, <2>1, <3>1
    <3> HIDE DEF new
    <3>4. Told(transfers, new)
      BY <1>1, <1>6, <3>3, FileFields, ToldAgain
    <3>5. me.account \in Accounts /\ TRUE \in BOOLEAN
      BY <1>1, <1>5
    <3>6. PICK s : /\ svc' = [svc EXCEPT ![p] = s]
                   /\ IF s.pc \in Working THEN BoxService(transfers, file', s)
                      ELSE Told(transfers, file'[Box])
      BY <1>5, <1>8, <2>1, <3>1, <3>2, <3>4, <3>5, ProceedOnBox DEF new
    <3>7. QED
      BY <1>4, <1>6, <1>8, <3>6, FileFields, ServiceSolo
  <2>4. QED
    BY <2>2, <2>3
<1>9. QED
  BY <1>7, <1>8

\* What a service at work has to itself.
LEMMA AtWorkAlone ==
  ASSUME OnboardInv, Alone, BoxInv, NEW p \in Services, svc[p].pc \in Working
  PROVE  /\ OthersIdle(p)
         /\ HostOf[p] # Box => Told(transfers, file[Box])
         /\ HostOf[p] = Box => BoxService(transfers, file, svc[p])
         /\ svc[p] \in Service /\ svc[p].account \in Accounts /\ svc[p].entry \in Entry
         /\ svc[p].cache \in [Accounts -> Entry]
<1>1. OthersIdle(p)
  BY DEF Alone, OthersIdle, ServiceIdle
<1>2. HostOf[p] # Box => Told(transfers, file[Box])
  BY <1>1, IdleBoxTold DEF OthersIdle
<1>3. HostOf[p] = Box => BoxService(transfers, file, svc[p])
  BY DEF BoxInv, AtWorkOnBox, ServiceIdle
<1>4. svc[p].pc # "off"
  BY DEF Working
<1>5. QED
  BY <1>1, <1>2, <1>3, <1>4, AwaitingCarries DEF Carries

LEMMA LookupSolo ==
  ASSUME OnboardInv, Alone, BoxInv, NEW p \in Services, Lookup(p), UNCHANGED call
  PROVE  Alone' /\ BoxInv'
<1> DEFINE me == svc[p]
<1>1. me.pc = "lookup" /\ "lookup" \in Working /\ UNCHANGED transfers
  BY DEF Lookup, Working
<1>2. /\ OthersIdle(p) /\ me \in Service /\ me.account \in Accounts
      /\ me.cache \in [Accounts -> Entry]
      /\ HostOf[p] # Box => Told(transfers, file[Box])
      /\ HostOf[p] = Box => BoxService(transfers, file, me)
  BY <1>1, AtWorkAlone
<1>3. PICK seen \in 0..Len(topic), answers \in BOOLEAN :
        LET found == IF answers THEN onChainRegistration(me.account, SubSeq(topic, 1, seen))
                     ELSE NoEntry IN
        Proceed(p, me, Repointed(found, me.endpoint), TRUE)
  BY DEF Lookup
<1> DEFINE found == IF answers THEN onChainRegistration(me.account, SubSeq(topic, 1, seen))
                    ELSE NoEntry
           e == Repointed(found, me.endpoint)
           new == [me.cache EXCEPT ![me.account] = e]
<1>4. found \in Entry
  BY <1>2, LookupIsTrue, NoEntryIsTrue DEF OnboardInv
<1>5. Proceed(p, me, e, TRUE)
  BY <1>3
<1> HIDE DEF found
<1>6. e \in Entry
  BY <1>4, RepointedKeepsStake
<1> HIDE DEF e, me
<1>7. CASE HostOf[p] # Box
  <2>1. file'[Box] = file[Box] /\ \E s : svc' = [svc EXCEPT ![p] = s]
    BY <1>5, <1>7, ProceedElsewhere
  <2>2. QED
    BY <1>1, <1>2, <1>7, <2>1, FileFields, ServiceSolo
<1>8. CASE HostOf[p] = Box
  <2>1. me.cache = file[Box] /\ Told(transfers, Written(me)) /\ me.entry.staked = 0
    BY <1>1, <1>2, <1>8 DEF BoxService
  <2>2. /\ Written(me)[me.account].staked = 0
        /\ \A b \in Accounts \ {me.account} : new[b].staked = Written(me)[b].staked
    BY <1>2, <2>1 DEF Written
  <2> HIDE DEF new
  <2>3. Told(transfers, new)
    BY <1>2, <2>1, <2>2, FileFields, ToldAgain
  <2>4. TRUE \in BOOLEAN
    OBVIOUS
  <2>5. PICK s : /\ svc' = [svc EXCEPT ![p] = s]
                 /\ IF s.pc \in Working THEN BoxService(transfers, file', s)
                    ELSE Told(transfers, file'[Box])
    BY <1>2, <1>5, <1>6, <1>8, <2>1, <2>3, <2>4, ProceedOnBox DEF new
  <2>6. QED
    BY <1>1, <1>2, <1>8, <2>5, FileFields, ServiceSolo
<1>9. QED
  BY <1>7, <1>8

LEMMA StakeToEscrowSolo ==
  ASSUME OnboardInv, Alone, BoxInv, NEW p \in Services, StakeToEscrow(p), UNCHANGED call,
         mishaps' = 0
  PROVE  Alone' /\ BoxInv'
<1> DEFINE me == svc[p]
           x == [account |-> me.account, host |-> HostOf[p]]
           tr == Append(transfers, x)
           e == StakeEntry(me.entry, "ok")
           new == [me.cache EXCEPT ![me.account] = e]
<1>1. me.pc = "staking" /\ "staking" \in Working
  BY DEF StakeToEscrow, Working
<1>2. PICK outcome \in Outcomes :
        /\ Mishap(outcome # "ok")
        /\ Transferred(outcome, me.account, HostOf[p])
        /\ Proceed(p, me, StakeEntry(me.entry, outcome), FALSE)
  BY DEF StakeToEscrow
<1>3. outcome = "ok"
  BY <1>2, FileFields, NothingHappened
<1>4. transfers' = tr /\ Proceed(p, me, e, FALSE)
  BY <1>2, <1>3 DEF Transferred
<1>5. /\ OthersIdle(p) /\ me \in Service /\ me.account \in Accounts /\ me.entry \in Entry
      /\ me.cache \in [Accounts -> Entry]
      /\ HostOf[p] # Box => Told(transfers, file[Box])
      /\ HostOf[p] = Box => BoxService(transfers, file, me)
  BY <1>1, AtWorkAlone
<1>6. HostOf[p] \in Hosts /\ transfers \in Seq(Stake)
  BY FileFields
<1>7. x \in Stake
  BY <1>5, <1>6 DEF Stake
<1>8. Len(tr) = Len(transfers) + 1 /\ Len(tr) \in Nat
  BY <1>6, <1>7
<1>9. e = [me.entry EXCEPT !.staked = Len(tr)]
  BY <1>4 DEF StakeEntry
<1> HIDE DEF e
<1>10. e \in Entry /\ e.staked = Len(transfers) + 1
  BY <1>5, <1>8, <1>9 DEF Entry
<1> HIDE DEF me, tr
<1>11. CASE HostOf[p] # Box
  <2>1. file'[Box] = file[Box] /\ \E s : svc' = [svc EXCEPT ![p] = s]
    BY <1>4, <1>11, ProceedElsewhere
  <2>2. Told(transfers', file'[Box])
    BY <1>4, <1>5, <1>6, <1>11, <2>1, ToldElsewhere DEF tr
  <2>3. QED
    BY <1>5, <1>11, <2>1, <2>2, FileFields, ServiceSolo
<1>12. CASE HostOf[p] = Box
  <2>1. me.cache = file[Box] /\ Told(transfers, Written(me)) /\ me.entry.staked = 0
    BY <1>1, <1>5, <1>12 DEF BoxService
  <2>2. /\ Written(me)[me.account].staked = 0 /\ new[me.account].staked = Len(transfers) + 1
        /\ \A b \in Accounts \ {me.account} : new[b].staked = Written(me)[b].staked
    BY <1>5, <1>10, <2>1 DEF Written
  <2> HIDE DEF new
  <2>3. Told(Append(transfers, [account |-> me.account, host |-> Box]), new)
    BY <1>5, <1>6, <2>1, <2>2, ToldOfStake
  <2>4. Told(tr, new)
    BY <1>12, <2>3 DEF tr
  <2>5. FALSE \in BOOLEAN
    OBVIOUS
  <2>6. PICK s : /\ svc' = [svc EXCEPT ![p] = s]
                 /\ IF s.pc \in Working THEN BoxService(tr, file', s)
                    ELSE Told(tr, file'[Box])
    BY <1>4, <1>5, <1>10, <1>12, <2>1, <2>4, <2>5, ProceedOnBox DEF new
  <2>7. QED
    BY <1>4, <1>5, <1>12, <2>6, FileFields, ServiceSolo
<1>13. QED
  BY <1>11, <1>12

LEMMA PublishSolo ==
  ASSUME OnboardInv, Alone, BoxInv, NEW p \in Services, Publish(p), UNCHANGED call
  PROVE  Alone' /\ BoxInv'
<1> DEFINE me == svc[p]
<1>1. me.pc = "publishing" /\ "publishing" \in Working /\ UNCHANGED transfers
  BY DEF Publish, Working
<1>2. /\ OthersIdle(p) /\ me \in Service /\ me.account \in Accounts /\ me.entry \in Entry
      /\ me.cache \in [Accounts -> Entry]
      /\ HostOf[p] # Box => Told(transfers, file[Box])
      /\ HostOf[p] = Box => BoxService(transfers, file, me)
  BY <1>1, AtWorkAlone
<1>3. PICK outcome \in Outcomes :
        LET e == IF outcome = "ok"
                 THEN [me.entry EXCEPT !.registered = Len(topic'), !.endpoint = me.endpoint]
                 ELSE me.entry IN
        /\ svc' = [svc EXCEPT ![p] = [me EXCEPT !.pc = "serving", !.entry = e]]
        /\ file' = [file EXCEPT ![HostOf[p]] = [me.cache EXCEPT ![me.account] = e]]
  BY DEF Publish
<1> DEFINE e == IF outcome = "ok"
                THEN [me.entry EXCEPT !.registered = Len(topic'), !.endpoint = me.endpoint]
                ELSE me.entry
           s == [me EXCEPT !.pc = "serving", !.entry = e]
           new == [me.cache EXCEPT ![me.account] = e]
<1>4. svc' = [svc EXCEPT ![p] = s] /\ file' = [file EXCEPT ![HostOf[p]] = new]
  BY <1>3
<1>5. e.staked = me.entry.staked
  BY <1>2 DEF Entry
<1> HIDE DEF e
<1>6. s.pc = "serving" /\ s.pc \notin Working
  BY <1>2 DEF Service, Working
<1> HIDE DEF s, me
<1>7. Told(transfers, file'[Box])
  <2>1. CASE HostOf[p] # Box
    <3>1. file'[Box] = file[Box]
      BY <1>4, <2>1, FileFields
    <3>2. QED
      BY <1>2, <2>1, <3>1
  <2>2. CASE HostOf[p] = Box
    <3>1. Told(transfers, Written(me))
      BY <1>2, <2>2 DEF BoxService
    <3>2. /\ new[me.account].staked = Written(me)[me.account].staked
          /\ \A b \in Accounts \ {me.account} : new[b].staked = Written(me)[b].staked
      BY <1>2, <1>5 DEF Written
    <3>3. file'[Box] = new
      BY <1>4, <2>2, FileFields
    <3> HIDE DEF new
    <3>4. Told(transfers, new)
      BY <1>2, <3>1, <3>2, FileFields, ToldAgain
    <3>5. QED
      BY <3>3, <3>4
  <2>3. QED
    BY <2>1, <2>2
<1>8. QED
  BY <1>1, <1>2, <1>4, <1>6, <1>7, FileFields, ServiceSolo

\* Without a mishap only a service that serves is stopped.
LEMMA StopSolo ==
  ASSUME OnboardInv, Alone, BoxInv, NEW p \in Services, Stop(p), UNCHANGED call, mishaps' = 0
  PROVE  Alone' /\ BoxInv'
<1>1. /\ svc' = [svc EXCEPT ![p] = Off] /\ UNCHANGED file /\ Mishap(svc[p].pc \in Working)
  BY DEF Stop
<1>2. ServiceIdle(p)
  BY <1>1, FileFields, NothingHappened DEF ServiceIdle
<1>3. UNCHANGED transfers
  BY <1>2 DEF Stop, ServiceIdle, Working
<1>4. Off.pc \notin Working
  BY DEF Off, Working
<1>5. svc'[p] = Off /\ \A q \in Services \ {p} : svc'[q] = svc[q]
  BY <1>1, FileFields
<1>6. \A q \in Services : /\ svc'[q].pc \notin Working <=> svc[q].pc \notin Working
                          /\ svc[q].pc \in Working => svc'[q] = svc[q]
  BY <1>2, <1>4, <1>5 DEF ServiceIdle
<1>7. Alone'
  BY <1>6 DEF Alone, ServiceIdle, CallIdle
<1>8. BoxInv'
  BY <1>1, <1>3, <1>6 DEF BoxInv, AtWorkOnBox, ServiceIdle
<1>9. QED
  BY <1>7, <1>8

\* A step that moves none of this.
LEMMA StillSolo ==
  ASSUME Alone, BoxInv, UNCHANGED <<transfers, svc, call>>, file'[Box] = file[Box]
  PROVE  Alone' /\ BoxInv'
BY DEF Alone, BoxInv, BoxService, AtWorkOnBox, ServiceIdle, CallIdle

LEMMA RedeploySolo ==
  ASSUME OnboardInv, Alone, BoxInv, NEW h \in Hosts, Redeploy(h), UNCHANGED call
  PROVE  Alone' /\ BoxInv'
<1>1. file'[Box] = file[Box] /\ UNCHANGED <<transfers, svc>>
  BY FileFields DEF Redeploy
<1>2. QED
  BY <1>1, StillSolo

-----------------------------------------------------------------------------
(* The tool calls, alone.                                                  *)

LEMMA CallSolo ==
  ASSUME call \in [Calls -> ToolCall], AllProvision, NEW c \in Calls, OtherCallsIdle(c),
         NEW k, call' = [call EXCEPT ![c] = k], UNCHANGED svc,
         Extends(transfers', transfers), Told(transfers', file'[Box]),
         k.pc = "staking" => file'[Box][k.stakedAs].staked = 0,
         Provisions(transfers', env'.account, k)
  PROVE  Alone' /\ BoxInv' /\ AllProvision'
<1>1. call'[c] = k /\ \A d \in Calls \ {c} : call'[d] = call[d]
  OBVIOUS
<1>2. \A d \in Calls \ {c} : call'[d].pc \notin Begins \cup Awaiting
  BY <1>1 DEF OtherCallsIdle, CallIdle
<1>3. \A p \in Services : svc'[p].pc \notin Working
  BY DEF OtherCallsIdle, ServiceIdle
<1>4. Alone'
  BY <1>2, <1>3 DEF Alone, ServiceIdle, CallIdle
<1>5. \A p \in Services : ~AtWorkOnBox(p)'
  BY <1>3 DEF AtWorkOnBox, ServiceIdle
<1>6. \A d \in Calls : call'[d].pc = "staking" => d = c
  BY <1>2 DEF Awaiting
<1>7. BoxInv'
  BY <1>1, <1>5, <1>6 DEF BoxInv
<1>8. ASSUME NEW d \in Calls \ {c} PROVE Provisions(transfers', env'.account, call'[d])
  <2>1. Provisions(transfers, env.account, call[d]) /\ call'[d] = call[d]
    BY <1>1 DEF AllProvision
  <2>2. call'[d].pc \notin {"staking", "check", "checking", "register", "registering", "verify"}
    BY <1>2 DEF Begins, Awaiting
  <2>3. \A a : HasStake(transfers, a) => HasStake(transfers', a)
    BY DEF HasStake, Extends
  <2>4. QED
    BY <2>1, <2>2, <2>3 DEF Provisions
<1>9. AllProvision'
  BY <1>1, <1>8 DEF AllProvision
<1>10. QED
  BY <1>4, <1>7, <1>9

\* What a call at work has to itself.
LEMMA CallAlone ==
  ASSUME OnboardInv, Alone, BoxInv, NEW c \in Calls, call[c].pc \in Begins \cup Awaiting
  PROVE  OtherCallsIdle(c) /\ Told(transfers, file[Box])
<1>1. OtherCallsIdle(c)
  BY DEF Alone, OtherCallsIdle, CallIdle
<1>2. QED
  BY <1>1, IdleBoxTold DEF OtherCallsIdle

\* A tool step that leaves transfers and file alone.
LEMMA QuietSolo ==
  ASSUME OnboardInv, Alone, BoxInv, AllProvision, NEW c \in Calls,
         call[c].pc \in Begins \cup Awaiting, UNCHANGED <<transfers, file, svc>>,
         NEW k, call' = [call EXCEPT ![c] = k],
         k.pc = "staking" => file[Box][k.stakedAs].staked = 0,
         Provisions(transfers, env'.account, k)
  PROVE  Alone' /\ BoxInv' /\ AllProvision'
<1>1. OtherCallsIdle(c) /\ Told(transfers, file[Box])
  BY CallAlone
<1>2. Extends(transfers', transfers) /\ call \in [Calls -> ToolCall]
  BY FileFields DEF Extends
<1>3. QED
  BY <1>1, <1>2, CallSolo

\* Where each step of a call leads.
LEMMA AfterSteps ==
  ASSUME NEW c
  PROVE  /\ call[c].tool # "provision" => \A step : After(c, step) = "done"
         /\ call[c].tool = "provision" =>
              /\ After(c, "create") = "stake" /\ After(c, "stake") \in {"check", "register"}
              /\ After(c, "check") = "register" /\ After(c, "register") = "verify"
BY DEF After

\* What a call is after GoTo.
Moved(c, pc) == [call[c] EXCEPT !.pc = pc]

LEMMA MovedFields ==
  ASSUME OnboardInv, NEW c \in Calls, NEW pc
  PROVE  /\ GoTo(c, pc) => call' = [call EXCEPT ![c] = Moved(c, pc)]
         /\ Moved(c, pc).pc = pc /\ Moved(c, pc).tool = call[c].tool
         /\ Moved(c, pc).url = call[c].url /\ Moved(c, pc).account = call[c].account
         /\ Moved(c, pc).stakedAs = call[c].stakedAs
<1>1. call \in [Calls -> ToolCall] /\ call[c] \in ToolCall
  BY FileFields
<1>2. QED
  BY <1>1 DEF GoTo, Moved, ToolCall

LEMMA FailedSolo ==
  ASSUME OnboardInv, Alone, BoxInv, AllProvision, NEW c \in Calls,
         call[c].pc \in Begins \cup Awaiting, UNCHANGED <<transfers, file, svc>>,
         GoTo(c, "failed")
  PROVE  Alone' /\ BoxInv' /\ AllProvision'
<1> DEFINE k == Moved(c, "failed")
<1>1. call' = [call EXCEPT ![c] = k] /\ k.pc = "failed"
  BY MovedFields
<1> HIDE DEF k
<1>2. Provisions(transfers, env'.account, k) /\ k.pc # "staking"
  BY <1>1 DEF Provisions
<1>3. QED
  BY <1>1, <1>2, QuietSolo

LEMMA CallToolSolo ==
  ASSUME OnboardInv, Alone, BoxInv, AllProvision, mishaps' = 0, NEW c \in Calls,
         NEW tool \in Tools, NEW url, NEW mustAnswer, CallTool(c, tool, url, mustAnswer)
  PROVE  Alone' /\ BoxInv' /\ AllProvision'
<1> DEFINE endpoint == IF tool = "register" /\ url = Unset THEN env.url ELSE url
           pc == FirstPiece(tool, endpoint)
           k == [NewCall EXCEPT !.pc = pc, !.tool = tool, !.url = endpoint,
                                !.mustAnswer = mustAnswer]
<1>1. /\ Mishap(Busy) /\ call' = [call EXCEPT ![c] = k]
      /\ UNCHANGED <<transfers, file, svc>>
  BY DEF CallTool
<1>2. ~Busy
  <2>1. Busy \in BOOLEAN
    BY DEF Busy, SomeServiceWorks
  <2>2. QED
    BY <1>1, <2>1, FileFields, NothingHappened
<1>3. k.pc = pc /\ k.tool = tool
  BY DEF NewCall
<1>4. tool = "provision" => pc = "create"
  BY DEF FirstPiece
<1>5. pc # "staking"
  <2>1. tool # "staking"
    BY ToolsAssumption DEF AllTools
  <2>2. QED
    BY <2>1 DEF FirstPiece
<1> HIDE DEF k, pc
<1>6. Provisions(transfers', env'.account, k) /\ k.pc # "staking"
  BY <1>3, <1>4, <1>5 DEF Provisions
<1>7. OtherCallsIdle(c) /\ Told(transfers, file[Box])
  BY <1>2, FreeMeansIdle, IdleBoxTold DEF OtherCallsIdle
<1>8. Extends(transfers', transfers) /\ call \in [Calls -> ToolCall]
  BY <1>1, FileFields DEF Extends
<1>9. QED
  BY <1>1, <1>6, <1>7, <1>8, CallSolo

LEMMA CreateBeginsSolo ==
  ASSUME OnboardInv, Alone, BoxInv, AllProvision, NEW c \in Calls, CreateBegins(c)
  PROVE  Alone' /\ BoxInv' /\ AllProvision'
<1> DEFINE pc == IF env.account # Unset THEN After(c, "create") ELSE "creating"
           k == Moved(c, pc)
<1>1. /\ GoTo(c, pc) /\ UNCHANGED <<transfers, file, svc>>
      /\ call[c].pc \in Begins \cup Awaiting
  BY DEF CreateBegins, regVars, Begins
<1>2. pc \in {"stake", "done", "creating"} /\ (call[c].tool = "provision" => pc # "done")
  BY AfterSteps
<1> HIDE DEF pc
<1>3. call' = [call EXCEPT ![c] = k] /\ k.pc = pc /\ k.tool = call[c].tool
  BY <1>1, MovedFields
<1> HIDE DEF k
<1>4. Provisions(transfers, env'.account, k) /\ k.pc # "staking"
  BY <1>2, <1>3 DEF Provisions
<1>5. QED
  BY <1>1, <1>3, <1>4, QuietSolo

LEMMA CreateEndsSolo ==
  ASSUME OnboardInv, Alone, BoxInv, AllProvision, NEW c \in Calls, CreateEnds(c), mishaps' = 0
  PROVE  Alone' /\ BoxInv' /\ AllProvision'
<1> DEFINE pc == After(c, "create")
           k == Moved(c, pc)
<1>1. /\ UNCHANGED <<transfers, file, svc>> /\ call[c].pc \in Begins \cup Awaiting
      /\ GoTo(c, pc) \/ GoTo(c, "failed")
  BY DEF CreateEnds, Awaiting
<1>2. pc \in {"stake", "done"} /\ (call[c].tool = "provision" => pc # "done")
  BY AfterSteps
<1> HIDE DEF pc
<1>3. CASE GoTo(c, pc)
  <2>1. call' = [call EXCEPT ![c] = k] /\ k.pc = pc /\ k.tool = call[c].tool
    BY <1>3, MovedFields
  <2> HIDE DEF k
  <2>2. Provisions(transfers, env'.account, k) /\ k.pc # "staking"
    BY <1>2, <2>1 DEF Provisions
  <2>3. QED
    BY <1>1, <2>1, <2>2, QuietSolo
<1>4. CASE GoTo(c, "failed")
  BY <1>1, <1>4, FailedSolo
<1>5. QED
  BY <1>1, <1>3, <1>4

\* A stake that the box's file names is a stake.
LEMMA CachedStakeIsOne ==
  ASSUME OnboardInv, NEW a \in Accounts, file[Box][a].staked # 0
  PROVE  HasStake(transfers, a)
BY HostsAssumption DEF OnboardInv, TrueFiles, TrueEntry, StakeIn, HasStake

LEMMA StakeBeginsSolo ==
  ASSUME OnboardInv, Alone, BoxInv, AllProvision, NEW c \in Calls, StakeBegins(c)
  PROVE  Alone' /\ BoxInv' /\ AllProvision'
<1> DEFINE cached == file[Box][env.account].staked
           pc == IF cached # 0 THEN After(c, "stake") ELSE "staking"
           k == [call[c] EXCEPT !.pc = pc, !.stakedAs = env.account, !.stakeTx = cached]
<1>1. /\ UNCHANGED <<transfers, file, svc>> /\ env' = env /\ call[c].pc \in Begins \cup Awaiting
  BY DEF StakeBegins, regVars, Begins
<1>2. CASE env.account = Unset
  <2>1. GoTo(c, "failed")
    BY <1>2 DEF StakeBegins, GoTo
  <2>2. QED
    BY <1>1, <2>1, FailedSolo
<1>3. CASE env.account # Unset
  <2>1. env.account \in Accounts /\ call[c] \in ToolCall
    BY <1>3, EnvFields, FileFields
  <2>2. call' = [call EXCEPT ![c] = k]
    BY <1>3, FileFields DEF StakeBegins
  <2>3. k.pc = pc /\ k.tool = call[c].tool /\ k.stakedAs = env.account
    BY <2>1 DEF ToolCall
  <2>4. cached # 0 => HasStake(transfers, env.account)
    BY <2>1, CachedStakeIsOne
  <2>5. /\ cached = 0 => pc = "staking"
        /\ cached # 0 => pc \in {"done", "check", "register"}
        /\ cached # 0 /\ call[c].tool = "provision" => pc # "done"
    BY AfterSteps
  <2>6. k.pc = "staking" => cached = 0
    BY <2>3, <2>5
  <2> HIDE DEF pc, k
  <2>7. k.pc = "staking" => file[Box][k.stakedAs].staked = 0
    BY <2>3, <2>6
  <2> HIDE DEF cached
  <2>8. Provisions(transfers, env'.account, k)
    BY <1>1, <2>3, <2>4, <2>5 DEF Provisions
  <2>9. QED
    BY <1>1, <2>2, <2>7, <2>8, QuietSolo
<1>4. QED
  BY <1>2, <1>3

LEMMA StakeEndsSolo ==
  ASSUME OnboardInv, Alone, BoxInv, AllProvision, NEW c \in Calls, StakeEnds(c), mishaps' = 0
  PROVE  Alone' /\ BoxInv' /\ AllProvision'
<1> DEFINE a == call[c].stakedAs
           pc == After(c, "stake")
           k == [call[c] EXCEPT !.pc = pc, !.stakeTx = Len(transfers')]
           x == [account |-> a, host |-> Box]
<1>1. call[c].pc = "staking" /\ call[c].pc \in Begins \cup Awaiting /\ UNCHANGED <<svc, env>>
  BY DEF StakeEnds, Awaiting
<1>2. PICK outcome \in Outcomes :
        /\ Mishap(outcome # "ok")
        /\ Transferred(outcome, a, Box)
        /\ outcome = "ok" =>
             /\ file' = [file EXCEPT ![Box][a].staked = Len(transfers')]
             /\ call' = [call EXCEPT ![c].pc = pc, ![c].stakeTx = Len(transfers')]
  BY DEF StakeEnds
<1>3. outcome = "ok"
  BY <1>2, FileFields, NothingHappened
<1>4. /\ transfers' = Append(transfers, x)
      /\ file' = [file EXCEPT ![Box][a].staked = Len(transfers')]
      /\ call' = [call EXCEPT ![c].pc = pc, ![c].stakeTx = Len(transfers')]
  BY <1>2, <1>3 DEF Transferred
<1>5. /\ a \in Accounts /\ file \in [Hosts -> [Accounts -> Entry]] /\ Box \in Hosts
      /\ call \in [Calls -> ToolCall] /\ call[c] \in ToolCall /\ transfers \in Seq(Stake)
  BY <1>1, FileFields DEF OnboardInv, TrueCalls, TrueCall
<1>6. /\ OtherCallsIdle(c) /\ Told(transfers, file[Box])
      /\ file[Box][a].staked = 0
  BY <1>1, CallAlone DEF BoxInv
<1>7. Provisions(transfers, env.account, call[c])
  BY DEF AllProvision
<1>8. /\ pc \in {"done", "check", "register"}
      /\ call[c].tool = "provision" => pc # "done"
  BY AfterSteps
<1> HIDE DEF pc
<1>9. call' = [call EXCEPT ![c] = k]
  BY <1>4, <1>5
<1>10. k.pc = pc /\ k.tool = call[c].tool /\ k.stakedAs = a
  BY <1>5 DEF ToolCall
<1>11. x \in Stake
  BY <1>5 DEF Stake
<1>12. /\ Extends(transfers', transfers) /\ Len(transfers') = Len(transfers) + 1
       /\ Len(transfers') \in DOMAIN transfers' /\ transfers'[Len(transfers')] = x
  BY <1>4, <1>5, <1>11 DEF Extends
<1>13. HasStake(transfers', a)
  BY <1>12 DEF HasStake
<1>14. /\ file'[Box][a].staked = Len(transfers) + 1
       /\ \A b \in Accounts \ {a} : file'[Box][b].staked = file[Box][b].staked
  BY <1>4, <1>5, <1>12 DEF Entry
<1> HIDE DEF k
<1>15. Told(Append(transfers, [account |-> a, host |-> Box]), file'[Box])
  BY <1>5, <1>6, <1>14, ToldOfStake
<1>16. Told(transfers', file'[Box])
  BY <1>4, <1>15
<1>17. Provisions(transfers', env'.account, k) /\ k.pc # "staking"
  BY <1>1, <1>7, <1>8, <1>10, <1>13 DEF Provisions
<1>18. QED
  BY <1>1, <1>5, <1>6, <1>9, <1>12, <1>16, <1>17, CallSolo

LEMMA CheckBeginsSolo ==
  ASSUME OnboardInv, Alone, BoxInv, AllProvision, NEW c \in Calls, CheckBegins(c)
  PROVE  Alone' /\ BoxInv' /\ AllProvision'
<1> DEFINE k == [call[c] EXCEPT !.pc = "checking", !.account = env.account]
<1>1. /\ UNCHANGED <<transfers, file, svc>> /\ env' = env
      /\ call[c].pc = "check" /\ call[c].pc \in Begins \cup Awaiting
  BY DEF CheckBegins, regVars, Begins
<1>2. CASE env.account = Unset
  <2>1. GoTo(c, "failed")
    BY <1>2 DEF CheckBegins, GoTo
  <2>2. QED
    BY <1>1, <2>1, FailedSolo
<1>3. CASE env.account # Unset
  <2>1. call[c] \in ToolCall /\ Provisions(transfers, env.account, call[c])
    BY FileFields DEF AllProvision
  <2>2. call' = [call EXCEPT ![c] = k]
    BY <1>3, FileFields DEF CheckBegins
  <2>3. k.pc = "checking" /\ k.tool = call[c].tool /\ k.stakedAs = call[c].stakedAs
    BY <2>1 DEF ToolCall
  <2> HIDE DEF k
  <2>4. Provisions(transfers, env'.account, k) /\ k.pc # "staking"
    BY <1>1, <2>1, <2>3 DEF Provisions
  <2>5. QED
    BY <1>1, <2>2, <2>4, QuietSolo
<1>4. QED
  BY <1>2, <1>3

LEMMA CheckEndsSolo ==
  ASSUME OnboardInv, Alone, BoxInv, AllProvision, NEW c \in Calls, CheckEnds(c)
  PROVE  Alone' /\ BoxInv' /\ AllProvision'
<1> DEFINE pc == After(c, "check")
           k == Moved(c, pc)
<1>1. /\ UNCHANGED <<transfers, file, svc>>
      /\ call[c].pc = "checking" /\ call[c].pc \in Begins \cup Awaiting
      /\ env' = [env EXCEPT !.url = call[c].url] \/ env' = env
      /\ GoTo(c, pc) \/ GoTo(c, "failed")
  BY DEF CheckEnds, Awaiting
<1>2. env'.account = env.account
  BY <1>1, EnvFields DEF Settings
<1>3. pc \in {"done", "register"} /\ (call[c].tool = "provision" => pc # "done")
  BY AfterSteps
<1> HIDE DEF pc
<1>4. CASE GoTo(c, pc)
  <2>1. /\ call' = [call EXCEPT ![c] = k] /\ k.pc = pc /\ k.tool = call[c].tool
        /\ k.stakedAs = call[c].stakedAs
    BY <1>4, MovedFields
  <2>2. Provisions(transfers, env.account, call[c])
    BY DEF AllProvision
  <2> HIDE DEF k
  <2>3. Provisions(transfers, env'.account, k) /\ k.pc # "staking"
    BY <1>1, <1>2, <1>3, <2>1, <2>2 DEF Provisions
  <2>4. QED
    BY <1>1, <2>1, <2>3, QuietSolo
<1>5. CASE GoTo(c, "failed")
  BY <1>1, <1>5, FailedSolo
<1>6. QED
  BY <1>1, <1>4, <1>5

LEMMA RegisterBeginsSolo ==
  ASSUME OnboardInv, Alone, BoxInv, AllProvision, NEW c \in Calls, RegisterBegins(c)
  PROVE  Alone' /\ BoxInv' /\ AllProvision'
<1> DEFINE cached == file[Box][env.account]
           url == call[c].url
           pc == IF AlreadyRegistered(cached, url) THEN After(c, "register") ELSE "registering"
           k == [call[c] EXCEPT !.pc = pc, !.account = env.account, !.stakeTx = cached.staked]
<1>1. /\ UNCHANGED <<transfers, file, svc>>
      /\ call[c].pc = "register" /\ call[c].pc \in Begins \cup Awaiting
  BY DEF RegisterBegins, Begins
<1>2. CASE env.account = Unset
  <2>1. GoTo(c, "failed")
    BY <1>2 DEF RegisterBegins, GoTo
  <2>2. QED
    BY <1>1, <2>1, FailedSolo
<1>3. CASE env.account # Unset
  <2>1. call[c] \in ToolCall /\ Provisions(transfers, env.account, call[c])
    BY FileFields DEF AllProvision
  <2>2. call' = [call EXCEPT ![c] = k] /\ env' = [env EXCEPT !.url = url]
    BY <1>3, FileFields DEF RegisterBegins
  <2>3. env'.account = env.account
    BY <2>2, EnvFields DEF Settings
  <2>4. pc \in {"verify", "registering", "done"}
    BY AfterSteps
  <2> HIDE DEF pc
  <2>5. /\ k.pc = pc /\ k.tool = call[c].tool /\ k.stakedAs = call[c].stakedAs
        /\ k.account = env.account
    BY <2>1 DEF ToolCall
  <2> HIDE DEF k
  <2>6. Provisions(transfers, env'.account, k) /\ k.pc # "staking"
    BY <1>1, <2>1, <2>3, <2>4, <2>5 DEF Provisions
  <2>7. QED
    BY <1>1, <2>2, <2>6, QuietSolo
<1>4. QED
  BY <1>2, <1>3

LEMMA RegisterEndsSolo ==
  ASSUME OnboardInv, Alone, BoxInv, AllProvision, NEW c \in Calls, RegisterEnds(c), mishaps' = 0
  PROVE  Alone' /\ BoxInv' /\ AllProvision'
<1> DEFINE a == call[c].account
           url == call[c].url
           pc == After(c, "register")
           k == Moved(c, pc)
<1>1. /\ UNCHANGED <<transfers, svc, env>>
      /\ call[c].pc = "registering" /\ call[c].pc \in Begins \cup Awaiting
  BY DEF RegisterEnds, Awaiting
<1>2. PICK outcome \in Outcomes :
        /\ Mishap(outcome # "ok")
        /\ outcome = "ok" =>
             /\ file' = [file EXCEPT ![Box] = setRegistered(@, a, Len(topic'), url)]
             /\ GoTo(c, pc)
  BY DEF RegisterEnds
<1>3. outcome = "ok"
  BY <1>2, FileFields, NothingHappened
<1>4. /\ file' = [file EXCEPT ![Box] = setRegistered(@, a, Len(topic'), url)] /\ GoTo(c, pc)
  BY <1>2, <1>3
<1>5. /\ OtherCallsIdle(c) /\ Told(transfers, file[Box])
      /\ Provisions(transfers, env.account, call[c])
  BY <1>1, CallAlone DEF AllProvision
<1>6. pc \in {"verify", "done"}
  BY AfterSteps
<1> HIDE DEF pc
<1>7. /\ call' = [call EXCEPT ![c] = k] /\ k.pc = pc /\ k.tool = call[c].tool
      /\ k.stakedAs = call[c].stakedAs /\ k.account = a
  BY <1>4, MovedFields
<1>8. Provisions(transfers', env'.account, k) /\ k.pc # "staking"
  <2> HIDE DEF k
  <2>1. QED
    BY <1>1, <1>5, <1>6, <1>7 DEF Provisions
<1>9. \A b \in Accounts : file'[Box][b].staked = file[Box][b].staked
  BY <1>4, FileFields DEF setRegistered, Entry
<1>10. Told(transfers', file'[Box])
  BY <1>1, <1>5, <1>9 DEF Told
<1>11. Extends(transfers', transfers) /\ call \in [Calls -> ToolCall]
  BY <1>1, FileFields DEF Extends
<1> HIDE DEF k
<1>12. QED
  BY <1>1, <1>5, <1>7, <1>8, <1>10, <1>11, CallSolo

LEMMA VerifySolo ==
  ASSUME OnboardInv, Alone, BoxInv, AllProvision, NEW c \in Calls, Verify(c)
  PROVE  Alone' /\ BoxInv' /\ AllProvision'
<1>1. /\ UNCHANGED <<transfers, file, svc, env>>
      /\ call[c].pc = "verify" /\ call[c].pc \in Begins \cup Awaiting
  BY DEF Verify, regVars, Begins
<1>2. PICK live \in BOOLEAN : call' = [call EXCEPT ![c].pc = "done", ![c].live = live]
  BY DEF Verify
<1> DEFINE k == [call[c] EXCEPT !.pc = "done", !.live = live]
<1>3. call[c] \in ToolCall /\ Provisions(transfers, env.account, call[c])
  BY FileFields DEF AllProvision
<1>4. call' = [call EXCEPT ![c] = k]
  BY <1>2, FileFields
<1>5. k.pc = "done" /\ k.tool = call[c].tool /\ k.account = call[c].account
  BY <1>3 DEF ToolCall
<1> HIDE DEF k
<1>6. Provisions(transfers, env'.account, k) /\ k.pc # "staking"
  BY <1>1, <1>3, <1>5 DEF Provisions
<1>7. QED
  BY <1>1, <1>4, <1>6, QuietSolo

\* A service's step keeps what the calls have done.
LEMMA ProvisionStays ==
  ASSUME AllProvision, Grown, UNCHANGED <<call, env>>
  PROVE  AllProvision'
<1>1. \A a : HasStake(transfers, a) => HasStake(transfers', a)
  BY DEF HasStake, Grown, Extends
<1>2. QED
  BY <1>1 DEF AllProvision, Provisions

LEMMA SoloInvStep ==
  OnboardInv /\ SoloInv /\ [OnboardNext]_onboardVars => SoloInv'
<1> SUFFICES ASSUME OnboardInv, SoloInv, [OnboardNext]_onboardVars, mishaps' = 0
             PROVE  Alone' /\ BoxInv' /\ AllProvision'
  BY DEF SoloInv
<1>1. Grown /\ mishaps \in Nat
  BY LedgersGrow, FileFields
<1>2. mishaps = 0 => Alone /\ BoxInv /\ AllProvision
  BY DEF SoloInv
<1>3. ASSUME NEW p \in Services, Boot(p, Busy) \/ ServiceStep(p), UNCHANGED toolVars
      PROVE  Alone' /\ BoxInv' /\ AllProvision'
  <2>1. UNCHANGED <<call, env>>
    BY <1>3 DEF toolVars, Boot, ServiceStep, Lookup, StakeToEscrow, Publish, Stop
  <2>2. CASE Boot(p, Busy)
    <3>1. Busy \in BOOLEAN /\ Mishap(Busy)
      BY <2>2 DEF Busy, SomeServiceWorks, Boot
    <3>2. mishaps = 0 /\ ~Busy
      BY <1>1, <3>1, NothingHappened
    <3>3. Busy = FALSE
      BY <3>1, <3>2
    <3>4. Boot(p, FALSE)
      BY <2>2, <3>3
    <3>5. QED
      BY <1>1, <1>2, <2>1, <3>2, <3>4, BootSolo, ProvisionStays
  <2>3. CASE ServiceStep(p)
    <3>1. \E happened \in BOOLEAN : Mishap(happened)
      <4>1. CASE Lookup(p)
        BY <4>1 DEF Lookup
      <4>2. CASE StakeToEscrow(p)
        BY <4>2 DEF StakeToEscrow
      <4>3. CASE Publish(p)
        BY <4>3 DEF Publish
      <4>4. CASE Stop(p)
        <5>1. Mishap(svc[p].pc \in Working) /\ (svc[p].pc \in Working) \in BOOLEAN
          BY <4>4 DEF Stop
        <5>2. QED
          BY <5>1
      <4>5. QED
        BY <2>3, <4>1, <4>2, <4>3, <4>4 DEF ServiceStep
    <3>2. mishaps = 0
      BY <1>1, <3>1, NothingHappened
    <3>3. AllProvision'
      BY <1>1, <1>2, <2>1, <3>2, ProvisionStays
    <3>4. Alone' /\ BoxInv'
      BY <1>2, <2>1, <2>3, <3>2, LookupSolo, StakeToEscrowSolo, PublishSolo, StopSolo
      DEF ServiceStep
    <3>5. QED
      BY <3>3, <3>4
  <2>4. QED
    BY <1>3, <2>2, <2>3
<1>4. ASSUME NEW h \in Hosts, Redeploy(h), UNCHANGED toolVars
      PROVE  Alone' /\ BoxInv' /\ AllProvision'
  <2>1. UNCHANGED <<call, env, mishaps>>
    BY <1>4 DEF Redeploy, toolVars
  <2>2. QED
    BY <1>1, <1>2, <1>4, <2>1, RedeploySolo, ProvisionStays
<1>5. ASSUME NEW c \in Calls, NEW tool \in Tools, NEW url \in Public \cup {Unset},
             NEW mustAnswer \in BOOLEAN, CallTool(c, tool, url, mustAnswer)
      PROVE  Alone' /\ BoxInv' /\ AllProvision'
  <2>1. Busy \in BOOLEAN /\ Mishap(Busy)
    BY <1>5 DEF Busy, SomeServiceWorks, CallTool
  <2>2. mishaps = 0
    BY <1>1, <2>1, NothingHappened
  <2>3. QED
    BY <1>2, <1>5, <2>2, CallToolSolo
<1>6. ASSUME NEW c \in Calls, ToolStep(c)
      PROVE  Alone' /\ BoxInv' /\ AllProvision'
  <2>1. UNCHANGED mishaps \/ \E happened \in BOOLEAN : Mishap(happened)
    BY <1>6 DEF ToolStep, CreateBegins, CreateEnds, StakeBegins, StakeEnds, CheckBegins,
       CheckEnds, RegisterBegins, RegisterEnds, Verify, regVars
  <2>2. mishaps = 0
    BY <1>1, <2>1, NothingHappened
  <2>3. QED
    BY <1>2, <1>6, <2>2, CreateBeginsSolo, CreateEndsSolo, StakeBeginsSolo, StakeEndsSolo,
       CheckBeginsSolo, CheckEndsSolo, RegisterBeginsSolo, RegisterEndsSolo, VerifySolo
    DEF ToolStep
<1>7. CASE ServerDies
  BY <1>1, <1>7, NothingHappened DEF ServerDies
<1>8. CASE UNCHANGED onboardVars
  <2>1. UNCHANGED <<transfers, svc, call, env, file, mishaps>>
    BY <1>8 DEF onboardVars
  <2>2. QED
    BY <1>1, <1>2, <2>1, StillSolo, ProvisionStays
<1>9. QED
  BY <1>3, <1>4, <1>5, <1>6, <1>7, <1>8 DEF OnboardNext

LEMMA SoloInvInit == OnboardInit => SoloInv
<1> SUFFICES ASSUME OnboardInit PROVE Alone /\ BoxInv /\ AllProvision
  BY DEF SoloInv
<1>1. /\ transfers = << >> /\ \A p \in Services : svc[p].pc = "off"
      /\ \A c \in Calls : call[c].pc = "new" /\ call[c].tool = "none"
  BY DEF OnboardInit, RegInit, Off, NewCall
<1>2. Alone
  BY <1>1 DEF Alone, ServiceIdle, CallIdle, Working, Begins, Awaiting
<1>3. BoxInv
  BY <1>1 DEF BoxInv, Told, AtWorkOnBox, ServiceIdle, Working
<1>4. AllProvision
  BY <1>1 DEF AllProvision, Provisions
<1>5. QED
  BY <1>2, <1>3, <1>4

LEMMA SoloInvAlways == OnboardSpec => []SoloInv
BY OnboardInvAlways, SoloInvInit, SoloInvStep, PTL DEF OnboardSpec

-----------------------------------------------------------------------------
(* What holds of provision_provider whatever happens beside it.            *)

Listed(tp, a, url) == \E i \in DOMAIN tp : tp[i].account = a /\ tp[i].endpoint = url

Provisioned(tp, k) ==
  k.tool = "provision" /\ k.pc \in {"verify", "done"} => Listed(tp, k.account, k.url)

ProvisionInv == \A c \in Calls : Provisioned(topic, call[c])

LEMMA ListedStays ==
  ASSUME Grown, NEW k, Provisioned(topic, k)
  PROVE  Provisioned(topic', k)
BY DEF Provisioned, Listed, Grown, Extends

LEMMA ProvisionedMoves ==
  ASSUME OnboardInv, ProvisionInv, Grown, NEW c \in Calls, NEW k,
         call' = [call EXCEPT ![c] = k], Provisioned(topic', k)
  PROVE  ProvisionInv'
<1>1. call'[c] = k /\ \A d \in Calls \ {c} : call'[d] = call[d]
  BY FileFields
<1>2. QED
  BY <1>1, ListedStays DEF ProvisionInv

LEMMA ToolProvisions ==
  ASSUME OnboardInv, ProvisionInv, Grown, NEW c \in Calls, NEW pc, GoTo(c, pc),
         call[c].tool = "provision" => pc \notin {"verify", "done"}
  PROVE  ProvisionInv'
<1> DEFINE k == Moved(c, pc)
<1>1. call' = [call EXCEPT ![c] = k] /\ k.pc = pc /\ k.tool = call[c].tool
  BY MovedFields
<1> HIDE DEF k
<1>2. QED
  BY <1>1, ProvisionedMoves DEF Provisioned

LEMMA EarlySteps ==
  ASSUME OnboardInv, ProvisionInv, Grown, NEW c \in Calls,
         \/ CreateBegins(c) \/ CreateEnds(c) \/ StakeBegins(c)
         \/ StakeEnds(c) \/ CheckBegins(c) \/ CheckEnds(c)
  PROVE  ProvisionInv'
<1>1. call[c] \in ToolCall /\ call \in [Calls -> ToolCall]
  BY FileFields
<1>2. CASE CreateBegins(c) \/ CreateEnds(c)
  <2>1. \E pc : GoTo(c, pc) /\ (call[c].tool = "provision" => pc \in {"stake", "creating", "failed"})
    BY <1>2, AfterSteps DEF CreateBegins, CreateEnds
  <2>2. QED
    BY <2>1, ToolProvisions
<1>3. CASE StakeBegins(c)
  <2> DEFINE cached == file[Box][env.account].staked
             pc == IF cached # 0 THEN After(c, "stake") ELSE "staking"
             k == [call[c] EXCEPT !.pc = pc, !.stakedAs = env.account, !.stakeTx = cached]
  <2>1. CASE env.account = Unset
    <3>1. GoTo(c, "failed")
      BY <1>3, <2>1 DEF StakeBegins, GoTo
    <3>2. QED
      BY <3>1, ToolProvisions
  <2>2. CASE env.account # Unset
    <3>1. call' = [call EXCEPT ![c] = k]
      BY <1>1, <1>3, <2>2 DEF StakeBegins
    <3>2. call[c].tool = "provision" => pc \in {"check", "register", "staking"}
      BY AfterSteps
    <3> HIDE DEF pc
    <3>3. k.pc = pc /\ k.tool = call[c].tool
      BY <1>1 DEF ToolCall
    <3> HIDE DEF k
    <3>4. QED
      BY <3>1, <3>2, <3>3, ProvisionedMoves DEF Provisioned
  <2>3. QED
    BY <2>1, <2>2
<1>4. CASE StakeEnds(c)
  <2>1. \E k : /\ call' = [call EXCEPT ![c] = k]
               /\ k.tool = call[c].tool
               /\ call[c].tool = "provision" => k.pc \in {"failed", "check", "register"}
    <3>1. PICK outcome \in Outcomes :
            IF outcome = "ok"
            THEN call' = [call EXCEPT ![c].pc = After(c, "stake"), ![c].stakeTx = Len(transfers')]
            ELSE GoTo(c, "failed")
      BY <1>4 DEF StakeEnds
    <3>2. CASE outcome = "ok"
      <4> DEFINE k == [call[c] EXCEPT !.pc = After(c, "stake"), !.stakeTx = Len(transfers')]
      <4>1. call' = [call EXCEPT ![c] = k]
        BY <1>1, <3>1, <3>2
      <4>2. k.pc = After(c, "stake") /\ k.tool = call[c].tool
        BY <1>1 DEF ToolCall
      <4> HIDE DEF k
      <4>3. QED
        BY <4>1, <4>2, AfterSteps
    <3>3. CASE outcome # "ok"
      <4>1. GoTo(c, "failed")
        BY <3>1, <3>3
      <4>2. QED
        BY <4>1, MovedFields
    <3>4. QED
      BY <3>2, <3>3
  <2>2. QED
    BY <2>1, ProvisionedMoves DEF Provisioned
<1>5. CASE CheckBegins(c)
  <2>1. CASE env.account = Unset
    <3>1. GoTo(c, "failed")
      BY <1>5, <2>1 DEF CheckBegins, GoTo
    <3>2. QED
      BY <3>1, ToolProvisions
  <2>2. CASE env.account # Unset
    <3> DEFINE k == [call[c] EXCEPT !.pc = "checking", !.account = env.account]
    <3>1. call' = [call EXCEPT ![c] = k]
      BY <1>1, <1>5, <2>2 DEF CheckBegins
    <3>2. k.pc = "checking"
      BY <1>1 DEF ToolCall
    <3> HIDE DEF k
    <3>3. QED
      BY <3>1, <3>2, ProvisionedMoves DEF Provisioned
  <2>3. QED
    BY <2>1, <2>2
<1>6. CASE CheckEnds(c)
  <2>1. \E pc : GoTo(c, pc) /\ (call[c].tool = "provision" => pc \in {"register", "failed"})
    BY <1>6, AfterSteps DEF CheckEnds
  <2>2. QED
    BY <2>1, ToolProvisions
<1>7. QED
  BY <1>2, <1>3, <1>4, <1>5, <1>6

\* A registration that the cache has is a message of the account for the
\* endpoint.
LEMMA RegisterBeginsProvisions ==
  ASSUME OnboardInv, ProvisionInv, Grown, NEW c \in Calls, RegisterBegins(c)
  PROVE  ProvisionInv'
<1> DEFINE cached == file[Box][env.account]
           url == call[c].url
           pc == IF AlreadyRegistered(cached, url) THEN After(c, "register") ELSE "registering"
           k == [call[c] EXCEPT !.pc = pc, !.account = env.account, !.stakeTx = cached.staked]
<1>1. call[c] \in ToolCall /\ call \in [Calls -> ToolCall] /\ UNCHANGED topic
  BY FileFields DEF RegisterBegins
<1>2. CASE env.account = Unset
  <2>1. GoTo(c, "failed")
    BY <1>2 DEF RegisterBegins, GoTo
  <2>2. QED
    BY <2>1, ToolProvisions
<1>3. CASE env.account # Unset
  <2>1. env.account \in Accounts
    BY <1>3, EnvFields
  <2>2. call' = [call EXCEPT ![c] = k]
    BY <1>1, <1>3 DEF RegisterBegins
  <2>3. AlreadyRegistered(cached, url) => Listed(topic, env.account, url)
    <3>1. TrueEntry(transfers, topic, env.account, cached)
      BY <2>1, HostsAssumption DEF OnboardInv, TrueFiles
    <3> HIDE DEF cached
    <3>2. QED
      BY <3>1 DEF TrueEntry, AlreadyRegistered, Listed
  <2>4. pc \in {"verify", "done"} => AlreadyRegistered(cached, url)
    OBVIOUS
  <2> HIDE DEF pc
  <2>5. k.pc = pc /\ k.account = env.account /\ k.url = url
    BY <1>1 DEF ToolCall
  <2> HIDE DEF k
  <2>6. Provisioned(topic', k)
    BY <1>1, <2>3, <2>4, <2>5 DEF Provisioned
  <2>7. QED
    BY <2>2, <2>6, ProvisionedMoves
<1>4. QED
  BY <1>2, <1>3

LEMMA RegisterEndsProvisions ==
  ASSUME OnboardInv, ProvisionInv, Grown, NEW c \in Calls, RegisterEnds(c)
  PROVE  ProvisionInv'
<1> DEFINE m == [account |-> call[c].account, endpoint |-> call[c].url,
                 stakeTx |-> call[c].stakeTx]
           k == Moved(c, After(c, "register"))
<1>1. PICK outcome \in Outcomes :
        /\ Published(outcome, m)
        /\ IF outcome = "ok" THEN GoTo(c, After(c, "register")) ELSE GoTo(c, "failed")
  BY DEF RegisterEnds
<1>2. CASE outcome = "ok"
  <2>1. topic' = Append(topic, m) /\ GoTo(c, After(c, "register"))
    BY <1>1, <1>2 DEF Published
  <2>2. m.account = call[c].account /\ m.endpoint = call[c].url
    OBVIOUS
  <2> HIDE DEF m
  <2>3. topic \in Seq(Message \cup {m})
    BY FileFields
  <2>4. Len(topic') \in DOMAIN topic' /\ topic'[Len(topic')] = m
    BY <2>1, <2>3
  <2>5. /\ call' = [call EXCEPT ![c] = k] /\ k.account = call[c].account /\ k.url = call[c].url
    BY <2>1, MovedFields
  <2> HIDE DEF k
  <2>6. Provisioned(topic', k)
    BY <2>2, <2>4, <2>5 DEF Provisioned, Listed
  <2>7. QED
    BY <2>5, <2>6, ProvisionedMoves
<1>3. CASE outcome # "ok"
  BY <1>1, <1>3, ToolProvisions
<1>4. QED
  BY <1>2, <1>3

LEMMA VerifyProvisions ==
  ASSUME OnboardInv, ProvisionInv, Grown, NEW c \in Calls, Verify(c)
  PROVE  ProvisionInv'
<1>1. PICK live \in BOOLEAN : call' = [call EXCEPT ![c].pc = "done", ![c].live = live]
  BY DEF Verify
<1> DEFINE k == [call[c] EXCEPT !.pc = "done", !.live = live]
<1>2. call[c] \in ToolCall /\ call \in [Calls -> ToolCall] /\ call[c].pc = "verify"
  BY FileFields DEF Verify
<1>3. call' = [call EXCEPT ![c] = k]
  BY <1>1, <1>2
<1>4. k.tool = call[c].tool /\ k.account = call[c].account /\ k.url = call[c].url
  BY <1>2 DEF ToolCall
<1>5. Provisioned(topic', call[c])
  BY ListedStays DEF ProvisionInv
<1> HIDE DEF k
<1>6. Provisioned(topic', k)
  BY <1>2, <1>4, <1>5 DEF Provisioned
<1>7. QED
  BY <1>3, <1>6, ProvisionedMoves

LEMMA ProvisionInvStep ==
  OnboardInv /\ ProvisionInv /\ [OnboardNext]_onboardVars => ProvisionInv'
<1> SUFFICES ASSUME OnboardInv, ProvisionInv, [OnboardNext]_onboardVars PROVE ProvisionInv'
  OBVIOUS
<1>1. Grown
  BY LedgersGrow
<1>2. ASSUME UNCHANGED call PROVE ProvisionInv'
  BY <1>1, <1>2, ListedStays DEF ProvisionInv
<1>3. ASSUME NEW c \in Calls, NEW tool, NEW url, NEW mustAnswer, CallTool(c, tool, url, mustAnswer)
      PROVE  ProvisionInv'
  <2> DEFINE endpoint == IF tool = "register" /\ url = Unset THEN env.url ELSE url
             k == [NewCall EXCEPT !.pc = FirstPiece(tool, endpoint), !.tool = tool,
                                  !.url = endpoint, !.mustAnswer = mustAnswer]
  <2>1. call' = [call EXCEPT ![c] = k]
    BY <1>3 DEF CallTool
  <2>2. k.tool = tool /\ k.pc = FirstPiece(tool, endpoint)
    BY DEF NewCall
  <2> HIDE DEF k, endpoint
  <2>3. Provisioned(topic', k)
    BY <2>2 DEF Provisioned, FirstPiece
  <2>4. QED
    BY <1>1, <2>1, <2>3, ProvisionedMoves
<1>4. ASSUME NEW c \in Calls, ToolStep(c) PROVE ProvisionInv'
  BY <1>1, <1>4, EarlySteps, RegisterBeginsProvisions, RegisterEndsProvisions, VerifyProvisions
  DEF ToolStep
<1>5. CASE ServerDies
  <2>1. \A c \in Calls : call'[c].pc = "failed" \/ call'[c] = call[c]
    <3>1. call' = [c \in Calls |-> IF call[c].pc \in Begins \cup Awaiting
                                   THEN [call[c] EXCEPT !.pc = "failed"] ELSE call[c]]
      BY <1>5 DEF ServerDies
    <3>2. \A c \in Calls : call[c] \in ToolCall
      BY FileFields
    <3>3. \A c \in Calls : [call[c] EXCEPT !.pc = "failed"].pc = "failed"
      BY <3>2 DEF ToolCall
    <3>4. QED
      BY <3>1, <3>3
  <2>2. \A c \in Calls : Provisioned(topic', call[c])
    BY <1>1, ListedStays DEF ProvisionInv
  <2>3. QED
    BY <2>1, <2>2 DEF ProvisionInv, Provisioned
<1>6. QED
  BY <1>2, <1>3, <1>4, <1>5 DEF OnboardNext, onboardVars, toolVars

LEMMA ProvisionInvAlways == OnboardSpec => []ProvisionInv
<1>1. OnboardInit => ProvisionInv
  BY DEF OnboardInit, NewCall, ProvisionInv, Provisioned
<1>2. QED
  BY <1>1, OnboardInvAlways, ProvisionInvStep, PTL DEF OnboardSpec

-----------------------------------------------------------------------------
\* At any number of tools, boots and restarts that neither fail nor overlap,
\* an account's collateral leaves the box once (index.ts:260): the cache file
\* names every stake made there, and whoever stakes has read it.
THEOREM TheBoxStakesOnce == OnboardSpec => []BoxStakesOnce
<1>1. SoloInv => BoxStakesOnce
  <2> SUFFICES ASSUME BoxInv, NEW a \in Accounts
               PROVE  Cardinality(StakesFrom(a, {Box})) <= 1
    BY DEF SoloInv, BoxStakesOnce
  <2>1. \E f : Told(transfers, f)
    BY DEF BoxInv, BoxService
  <2>2. PICK f : Told(transfers, f)
    BY <2>1
  <2>3. \A tx \in StakesFrom(a, {Box}) : tx = f[a].staked
    BY <2>2 DEF StakesFrom, Told
  <2>4. StakesFrom(a, {Box}) = {} \/ StakesFrom(a, {Box}) = {f[a].staked}
    BY <2>3
  <2>5. CASE StakesFrom(a, {Box}) = {}
    BY <2>5, FS_EmptySet
  <2>6. CASE StakesFrom(a, {Box}) = {f[a].staked}
    <3>1. Cardinality({f[a].staked}) = 1
      BY FS_Singleton
    <3>2. QED
      BY <2>6, <3>1
  <2>7. QED
    BY <2>4, <2>5, <2>6
<1>2. QED
  BY <1>1, SoloInvAlways, PTL

\* When provision_provider reports a provider as provisioned (index.ts:436),
\* the account has registered the endpoint on the topic, whatever else went on;
\* unless something failed or overlapped it has a stake in escrow too.
THEOREM ProvisionedMeansOnChain == OnboardSpec => []ProvisionedIsOnChain
<1>1. OnboardInv /\ SoloInv /\ ProvisionInv => ProvisionedIsOnChain
  <2> SUFFICES ASSUME OnboardInv, SoloInv, ProvisionInv, NEW c \in Calls,
                      call[c].tool = "provision", call[c].pc = "done"
               PROVE  /\ \E i \in DOMAIN topic : /\ topic[i].account = call[c].account
                                                 /\ topic[i].endpoint = call[c].url
                      /\ mishaps = 0 => StakesFrom(call[c].account, Hosts) # {}
    BY DEF ProvisionedIsOnChain
  <2>1. Listed(topic, call[c].account, call[c].url)
    BY DEF ProvisionInv, Provisioned
  <2>2. ASSUME mishaps = 0 PROVE StakesFrom(call[c].account, Hosts) # {}
    <3>1. HasStake(transfers, call[c].account)
      BY <2>2 DEF SoloInv, AllProvision, Provisions
    <3>2. \A tx \in DOMAIN transfers : transfers[tx].host \in Hosts
      <4>1. \A tx \in DOMAIN transfers : transfers[tx] \in Stake
        BY FileFields
      <4>2. QED
        BY <4>1 DEF Stake
    <3>3. QED
      BY <3>1, <3>2 DEF HasStake, StakesFrom
  <2>3. QED
    BY <2>1, <2>2 DEF Listed
<1>2. QED
  BY <1>1, OnboardInvAlways, SoloInvAlways, ProvisionInvAlways, PTL
=============================================================================
