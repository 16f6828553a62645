----------------------------- MODULE StartUpProofs -----------------------------
(***************************************************************************)
(* What a hosted server has made of its configuration, for all tokens,     *)
(* registries and configurations.                                          *)
(*                                                                         *)
(* The inductive invariant says of each step what the steps before it have *)
(* left behind: the verdict of the checks, the registries that were read   *)
(* and the limiter that was built.                                         *)
(***************************************************************************)
EXTENDS StartUp, TLAPS, FiniteSetTheorems

(* The steps that come after the one that is named.                        *)
AfterAgents == {"deciders", "callbacks", "webhook", "limiter", "spawn", "bind", "serving"}
AfterDeciders == AfterAgents \ {"deciders"}
AfterLimiter == {"spawn", "bind", "serving"}

(* What ReadAgents, ReadDeciders and BuildLimiter leave of a configuration.*)
AgentsRead ==
    \/ config.agents # None /\ Parses(config.agents) /\ agents = Registry(config.agents)
    \/ config.agents = None /\ config.token # None
           /\ agents = SingleRegistry(config.token, <<Legacy, BearerAgent>>)
    \/ config.agents = None /\ config.token = None

OperatorsRead ==
    \/ config.deciders # None /\ Parses(config.deciders)
           /\ operators = Registry(config.deciders)
    \/ config.deciders = None /\ config.decide_token # None
           /\ operators = SingleRegistry(config.decide_token, Legacy)
    \/ config.deciders = None /\ config.decide_token = None

LimiterBuilt ==
    config.qps # None /\ config.qps > 0 /\ config.burst # None /\ config.burst > 0
        => limiter = [qps |-> config.qps, burst |-> config.burst]

Reached ==
    /\ config \in Configurations
    /\ pc \notin {"validate", "failed"} /\ config.profile = "hosted" => HostedSafe(config)
    /\ pc \in AfterAgents => AgentsRead
    /\ pc \in AfterDeciders => OperatorsRead
    /\ pc \in AfterLimiter => LimiterBuilt

------------------------------------------------------------------------------
(* No two steps have the same name.                                        *)
LEMMA StepsAreDistinct ==
    ASSUME NEW m \in 1 .. 13, NEW n \in 1 .. 13, Steps[m] = Steps[n]
    PROVE  m = n
BY DEF Steps

LEMMA StepFollows ==
    ASSUME NEW n \in 1 .. 12
    PROVE  Following(Steps[n]) = Steps[n + 1]
<1>1. Len(Steps) = 13
  BY DEF Steps
<1> DEFINE k == CHOOSE m \in 1 .. Len(Steps) : Steps[m] = Steps[n]
<1>2. k \in 1 .. 13 /\ Steps[k] = Steps[n]
  <2>1. \E m \in 1 .. Len(Steps) : Steps[m] = Steps[n]
    BY <1>1
  <2> QED BY <1>1, <2>1
<1>3. k = n
  <2> HIDE DEF k
  <2>1. n \in 1 .. 13
    OBVIOUS
  <2> QED BY <1>2, <2>1, StepsAreDistinct
<1>4. Following(Steps[n]) = Steps[1 + k]
  BY Zenon DEF Following
<1> QED
  <2> HIDE DEF k
  <2> QED BY <1>3, <1>4

(* Each step and the one that follows it.                                  *)
LEMMA StepOrder ==
    /\ Steps[1] = "validate"
    /\ Following("validate") = "upstream" /\ Following("upstream") = "policies"
    /\ Following("policies") = "ledger"   /\ Following("ledger") = "client"
    /\ Following("client") = "agents"     /\ Following("agents") = "deciders"
    /\ Following("deciders") = "callbacks" /\ Following("callbacks") = "webhook"
    /\ Following("webhook") = "limiter"   /\ Following("limiter") = "spawn"
    /\ Following("spawn") = "bind"        /\ Following("bind") = "serving"
<1>1. \A n \in 1 .. 12 : Following(Steps[n]) = Steps[n + 1]
  BY StepFollows
<1>2. /\ Steps[1] = "validate" /\ Steps[2] = "upstream" /\ Steps[3] = "policies"
      /\ Steps[4] = "ledger" /\ Steps[5] = "client" /\ Steps[6] = "agents"
      /\ Steps[7] = "deciders" /\ Steps[8] = "callbacks" /\ Steps[9] = "webhook"
      /\ Steps[10] = "limiter" /\ Steps[11] = "spawn" /\ Steps[12] = "bind"
      /\ Steps[13] = "serving"
  BY DEF Steps
<1> HIDE DEF Steps
<1> QED BY <1>1, <1>2

------------------------------------------------------------------------------
(* The inductive invariant.                                                *)

LEMMA InitReached == Init => Reached
BY StepOrder DEF Init, Reached, AfterAgents, AfterDeciders, AfterLimiter

(* A step that leaves the configuration and what was read of it alone.     *)
LEMMA IdleStepKeepsReached ==
    ASSUME Reached,
           config' = config, agents' = agents, operators' = operators, limiter' = limiter,
           NEW step \in {"upstream", "policies", "ledger", "client", "callbacks", "webhook",
                         "spawn", "bind"},
           pc = step,
           pc' = "failed" \/ pc' = Following(step)
    PROVE  Reached'
<1> USE StepOrder DEF Reached, AfterAgents, AfterDeciders, AfterLimiter,
                      AgentsRead, OperatorsRead, LimiterBuilt
<1>1. pc' \notin {"validate", "failed"} => pc \notin {"validate", "failed"}
  OBVIOUS
<1>2. pc' \in AfterAgents => pc \in AfterAgents
  OBVIOUS
<1>3. pc' \in AfterDeciders => pc \in AfterDeciders
  OBVIOUS
<1>4. pc' \in AfterLimiter => pc \in AfterLimiter
  OBVIOUS
<1> QED BY <1>1, <1>2, <1>3, <1>4

LEMMA NextKeepsReached == Reached /\ [Next]_vars => Reached'
<1> SUFFICES ASSUME Reached, [Next]_vars PROVE Reached'
  OBVIOUS
<1>1. CASE Validate
  BY <1>1, StepOrder DEF Validate, Passes, Reached, AfterAgents, AfterDeciders, AfterLimiter
<1>2. CASE ParseUpstream
  <2>1. pc = "upstream" /\ (pc' = "failed" \/ pc' = Following("upstream"))
    BY <1>2 DEF ParseUpstream, Passes
  <2> QED BY <1>2, <2>1, IdleStepKeepsReached DEF ParseUpstream
<1>3. CASE LoadPolicies
  <2>1. pc = "policies" /\ (pc' = "failed" \/ pc' = Following("policies"))
    BY <1>3 DEF LoadPolicies, Passes
  <2> QED BY <1>3, <2>1, IdleStepKeepsReached DEF LoadPolicies
<1>4. CASE OpenLedger
  <2>1. pc = "ledger" /\ (pc' = "failed" \/ pc' = Following("ledger"))
    BY <1>4 DEF OpenLedger, Passes
  <2> QED BY <1>4, <2>1, IdleStepKeepsReached DEF OpenLedger
<1>5. CASE BuildClient
  <2>1. pc = "client" /\ (pc' = "failed" \/ pc' = Following("client"))
    BY <1>5 DEF BuildClient, Passes
  <2> QED BY <1>5, <2>1, IdleStepKeepsReached DEF BuildClient
<1>6. CASE ReadAgents
  <2>1. AgentsRead' \/ pc' = "failed"
    BY <1>6 DEF ReadAgents, Passes, AgentsRead
  <2> QED BY <1>6, <2>1, StepOrder DEF ReadAgents, Passes, Reached, AfterAgents,
             AfterDeciders, AfterLimiter
<1>7. CASE ReadDeciders
  <2>1. OperatorsRead' \/ pc' = "failed"
    BY <1>7 DEF ReadDeciders, Passes, OperatorsRead
  <2>2. AgentsRead => AgentsRead'
    BY <1>7 DEF ReadDeciders, AgentsRead
  <2> QED BY <1>7, <2>1, <2>2, StepOrder DEF ReadDeciders, Passes, Reached, AfterAgents,
             AfterDeciders, AfterLimiter
<1>8. CASE ReadAllowlist
  <2>1. pc = "callbacks" /\ (pc' = "failed" \/ pc' = Following("callbacks"))
    BY <1>8 DEF ReadAllowlist, Passes
  <2> QED BY <1>8, <2>1, IdleStepKeepsReached DEF ReadAllowlist
<1>9. CASE CheckWebhook
  <2>1. pc = "webhook" /\ (pc' = "failed" \/ pc' = Following("webhook"))
    BY <1>9 DEF CheckWebhook, Passes
  <2> QED BY <1>9, <2>1, IdleStepKeepsReached DEF CheckWebhook
<1>10. CASE BuildLimiter
  <2>1. LimiterBuilt'
    <3> SUFFICES ASSUME config.qps # None, config.qps > 0, config.burst # None,
                        config.burst > 0
                 PROVE  limiter' = [qps |-> config.qps, burst |-> config.burst]
      BY <1>10 DEF BuildLimiter, LimiterBuilt
    <3>1. Larger(config.qps, 0) = config.qps
      BY DEF Larger
    <3> QED BY <1>10, <3>1 DEF BuildLimiter
  <2>2. (AgentsRead => AgentsRead') /\ (OperatorsRead => OperatorsRead')
    BY <1>10 DEF BuildLimiter, AgentsRead, OperatorsRead
  <2> QED BY <1>10, <2>1, <2>2, StepOrder DEF BuildLimiter, Passes, Reached, AfterAgents,
             AfterDeciders, AfterLimiter
<1>11. CASE Spawn
  <2>1. pc = "spawn" /\ (pc' = "failed" \/ pc' = Following("spawn"))
    BY <1>11 DEF Spawn, Passes
  <2> QED BY <1>11, <2>1, IdleStepKeepsReached DEF Spawn
<1>12. CASE Bind
  <2>1. pc = "bind" /\ (pc' = "failed" \/ pc' = Following("bind"))
    BY <1>12 DEF Bind, Passes
  <2> QED BY <1>12, <2>1, IdleStepKeepsReached DEF Bind
<1>13. CASE Stop
  <2>1. pc = "serving" /\ pc' \in {"failed", "stopped"}
    BY <1>13 DEF Stop
  <2>2. /\ config' = config /\ agents' = agents
        /\ operators' = operators /\ limiter' = limiter
    BY <1>13 DEF Stop
  <2>3. pc' \notin AfterAgents /\ pc' \notin AfterDeciders /\ pc' \notin AfterLimiter
    BY <2>1 DEF AfterAgents, AfterDeciders, AfterLimiter
  <2>4. config.profile = "hosted" => HostedSafe(config)
    BY <2>1 DEF Reached
  <2> QED BY <2>2, <2>3, <2>4 DEF Reached
<1>14. CASE UNCHANGED vars
  BY <1>14 DEF vars, Reached, AgentsRead, OperatorsRead, LimiterBuilt
<1> QED BY <1>1, <1>2, <1>3, <1>4, <1>5, <1>6, <1>7, <1>8, <1>9, <1>10, <1>11, <1>12,
           <1>13, <1>14 DEF Next

(* Whatever configuration it is started with, run_start reaches each step  *)
(* with what the steps before it have checked and read.                    *)
THEOREM StartUpReached == Spec => []Reached
<1>1. Init => Reached
  BY InitReached
<1>2. Reached /\ [Next]_vars => Reached'
  BY NextKeepsReached
<1> QED BY <1>1, <1>2, PTL DEF Spec

------------------------------------------------------------------------------
(* What a registry knows.                                                  *)

(* A text that parses makes a registry of its own tokens and keys.         *)
LEMMA RegistryIsConfigured ==
    ASSUME NEW Keys, BadKey \notin Keys,
           NEW spec \in Seq(Entries(Keys \cup {BadKey})), Parses(spec)
    PROVE  /\ Registry(spec) \in [{spec[n].token : n \in Pairs(spec)} -> Keys]
           /\ {spec[n].token : n \in Pairs(spec)} \subseteq Tokens
           /\ Pairs(spec) \subseteq DOMAIN spec
<1>1. Pairs(spec) \subseteq DOMAIN spec
  BY DEF Pairs
<1>2. \A n \in Pairs(spec) : spec[n].token \in Tokens /\ spec[n].key \in Keys
  <2> SUFFICES ASSUME NEW n \in Pairs(spec)
               PROVE  spec[n].token \in Tokens /\ spec[n].key \in Keys
    OBVIOUS
  <2>1. spec[n] \in Entries(Keys \cup {BadKey}) /\ spec[n].kind = "pair"
            /\ spec[n].key # BadKey
    BY <1>1 DEF Parses
  <2>2. PICK k \in Keys \cup {BadKey}, t \in Tokens : spec[n] = Pair(k, t)
    BY <2>1 DEF Entries, Blank, NoColon
  <2> QED BY <2>1, <2>2 DEF Pair
<1>3. ASSUME NEW t \in {spec[n].token : n \in Pairs(spec)}
      PROVE  Registry(spec)[t] \in Keys
  <2> DEFINE Last(n) == /\ spec[n].token = t
                        /\ \A m \in Pairs(spec) : spec[m].token = t => m <= n
  <2>1. PICK n \in Pairs(spec) : spec[n].token = t
    BY <1>3
  <2>2. Last(n)
    <3> SUFFICES ASSUME NEW m \in Pairs(spec), spec[m].token = t PROVE m <= n
      BY <2>1
    <3>1. m = n
      BY <2>1 DEF Parses
    <3>2. n \in Nat
      BY <1>1, <2>1
    <3> QED BY <3>1, <3>2
  <2>3. (CHOOSE l \in Pairs(spec) : Last(l)) \in Pairs(spec)
    BY <2>1, <2>2
  <2>4. Registry(spec)[t] = spec[CHOOSE l \in Pairs(spec) : Last(l)].key
    BY <1>3, Zenon DEF Registry
  <2> QED BY <1>2, <2>3, <2>4
<1>4. Registry(spec) \in [{spec[n].token : n \in Pairs(spec)} -> Keys]
  <2> DEFINE F(t) == spec[CHOOSE n \in Pairs(spec) :
                            /\ spec[n].token = t
                            /\ \A m \in Pairs(spec) : spec[m].token = t => m <= n].key
  <2>1. Registry(spec) = [t \in {spec[n].token : n \in Pairs(spec)} |-> F(t)]
    BY Zenon DEF Registry
  <2> HIDE DEF F
  <2> QED BY <1>3, <2>1
<1> QED BY <1>1, <1>2, <1>4

(* Each key of a text that parses is found under its own token, and no     *)
(* other token is in the registry.                                         *)
LEMMA RegistryTells ==
    ASSUME NEW Keys, BadKey \notin Keys,
           NEW spec \in Seq(Entries(Keys \cup {BadKey})), Parses(spec),
           NEW t \in Tokens, NEW who \in Keys
    PROVE  t \in DOMAIN Registry(spec) /\ Registry(spec)[t] = who
               <=> Pair(who, t) \in {spec[n] : n \in DOMAIN spec}
<1> DEFINE Last(n) == /\ spec[n].token = t
                      /\ \A m \in Pairs(spec) : spec[m].token = t => m <= n
           last == CHOOSE n \in Pairs(spec) : Last(n)
<1>1. /\ DOMAIN Registry(spec) = {spec[n].token : n \in Pairs(spec)}
      /\ Pairs(spec) \subseteq DOMAIN spec
  BY RegistryIsConfigured
<1>2. ASSUME NEW n \in Pairs(spec), spec[n].token = t
      PROVE  Registry(spec)[t] = spec[n].key
  <2>1. ASSUME NEW m \in Pairs(spec), spec[m].token = t PROVE m = n
    BY <1>2, <2>1 DEF Parses
  <2>2. n \in Nat
    BY <1>1, <1>2
  <2>3. Last(n)
    BY <1>2, <2>1, <2>2
  <2>4. last \in Pairs(spec) /\ Last(last)
    BY <1>2, <2>3
  <2>5. last = n
    <3> HIDE DEF last
    <3> QED BY <2>1, <2>4
  <2>6. t \in {spec[m].token : m \in Pairs(spec)}
    BY <1>2
  <2>7. Registry(spec)[t] = spec[last].key
    BY <2>6, Zenon DEF Registry
  <2> HIDE DEF last
  <2> QED BY <2>5, <2>7
<1>3. ASSUME t \in DOMAIN Registry(spec), Registry(spec)[t] = who
      PROVE  Pair(who, t) \in {spec[n] : n \in DOMAIN spec}
  <2>1. PICK n \in Pairs(spec) : spec[n].token = t
    BY <1>1, <1>3
  <2>2. spec[n].key = who /\ spec[n].kind = "pair"
    BY <1>2, <1>3, <2>1 DEF Parses
  <2>3. spec[n] \in Entries(Keys \cup {BadKey})
    BY <1>1, <2>1
  <2>4. PICK k \in Keys \cup {BadKey}, u \in Tokens : spec[n] = Pair(k, u)
    BY <2>2, <2>3 DEF Entries, Blank, NoColon
  <2>5. k = who /\ u = t
    BY <2>1, <2>2, <2>4 DEF Pair
  <2> QED BY <1>1, <2>1, <2>4, <2>5
<1>4. ASSUME Pair(who, t) \in {spec[n] : n \in DOMAIN spec}
      PROVE  t \in DOMAIN Registry(spec) /\ Registry(spec)[t] = who
  <2>1. PICK n \in DOMAIN spec : spec[n] = Pair(who, t)
    BY <1>4
  <2>2. spec[n].kind = "pair" /\ spec[n].key = who /\ spec[n].token = t
    BY <2>1 DEF Pair
  <2>3. n \in Pairs(spec)
    BY <2>2 DEF Pairs
  <2> QED BY <1>1, <1>2, <2>2, <2>3
<1> QED BY <1>3, <1>4

(* What a single token makes.                                              *)
LEMMA SingleIsConfigured ==
    ASSUME NEW single \in Single, NEW identity
    PROVE  /\ SingleRegistry(single, identity)
                  \in [DOMAIN SingleRegistry(single, identity) -> {identity}]
           /\ DOMAIN SingleRegistry(single, identity) \subseteq {single.token}
           /\ single.token \in Tokens
<1> DEFINE known == IF single.padded THEN {} ELSE {single.token}
<1>1. SingleRegistry(single, identity) = [t \in known |-> identity]
  BY DEF SingleRegistry
<1>2. known \subseteq {single.token}
  OBVIOUS
<1>3. single.token \in Tokens
  BY DEF Single
<1> HIDE DEF known
<1> QED BY <1>1, <1>2, <1>3

(* The agents that a hosted server knows are of its configuration, and     *)
(* their tokens are long; and there is a registry.                         *)
LEMMA AgentsAreConfigured ==
    ASSUME Reached, HostedServes
    PROVE  /\ agents # None
           /\ DOMAIN agents \subseteq Configured(config.token, config.agents) \cap LongTokens
<1>1. HostedSafe(config) /\ AgentsRead /\ config \in Configurations
  BY DEF Reached, HostedServes, AfterAgents
<1>2. SourceAccepted(config.token, config.agents)
  BY <1>1 DEF HostedSafe
<1> DEFINE Known == (Tenants \X Names) \cup {<<Legacy, BearerAgent>>}
<1>3. ASSUME NEW S \in SUBSET Tokens, agents \in [S -> Known]
      PROVE  agents # None
  BY <1>3, StartUpAssumption
<1>4. CASE config.agents # None
  <2> DEFINE spec == config.agents
             Keys == Tenants \X Names
  <2>1. agents = Registry(spec) /\ Parses(spec) /\ config.token = None
    BY <1>1, <1>2, <1>4 DEF AgentsRead, SourceAccepted
  <2>2. spec \in Seq(Entries(Keys \cup {BadKey})) /\ BadKey \notin Keys
    BY <1>1, <1>4, StartUpAssumption DEF AgentKeys
  <2>3. /\ agents \in [{spec[n].token : n \in Pairs(spec)} -> Keys]
        /\ {spec[n].token : n \in Pairs(spec)} \subseteq Tokens
        /\ Pairs(spec) \subseteq DOMAIN spec
    <3>1. agents = Registry(spec)
      BY <2>1
    <3> HIDE DEF Keys, spec
    <3>2. /\ Registry(spec) \in [{spec[n].token : n \in Pairs(spec)} -> Keys]
          /\ {spec[n].token : n \in Pairs(spec)} \subseteq Tokens
          /\ Pairs(spec) \subseteq DOMAIN spec
      BY <2>1, <2>2, RegistryIsConfigured, Zenon
    <3> QED BY <3>1, <3>2
  <2>4. DOMAIN agents = {spec[n].token : n \in Pairs(spec)}
    BY <2>3
  <2>5. DOMAIN agents \subseteq {spec[n].token : n \in DOMAIN spec}
    BY <2>3, <2>4
  <2>6. {spec[n].token : n \in DOMAIN spec}
            \subseteq Configured(config.token, config.agents) \cap LongTokens
    BY <1>2, <1>4 DEF Configured, SourceAccepted
  <2>7. agents # None
    BY <1>3, <2>3
  <2> QED BY <2>5, <2>6, <2>7
<1>5. CASE config.agents = None
  <2>1. config.token # None /\ config.token.token \in LongTokens
    BY <1>2, <1>5 DEF SourceAccepted
  <2>2. agents = SingleRegistry(config.token, <<Legacy, BearerAgent>>)
    BY <1>1, <1>5, <2>1 DEF AgentsRead
  <2>3. config.token \in Single
    BY <1>1, <2>1, StartUpAssumption
  <2>4. /\ agents \in [DOMAIN agents -> {<<Legacy, BearerAgent>>}]
        /\ DOMAIN agents \subseteq {config.token.token}
        /\ config.token.token \in Tokens
    BY <2>2, <2>3, SingleIsConfigured
  <2>5. DOMAIN agents \in SUBSET Tokens /\ agents \in [DOMAIN agents -> Known]
    BY <2>4
  <2>6. agents # None
    BY <1>3, <2>5
  <2>7. config.token.token \in Configured(config.token, config.agents)
    BY <2>1 DEF Configured
  <2> QED BY <2>1, <2>4, <2>6, <2>7
<1> QED BY <1>4, <1>5

(* And the same of its operators.                                          *)
LEMMA OperatorsAreConfigured ==
    ASSUME Reached, HostedServes
    PROVE  /\ operators # None
           /\ DOMAIN operators \subseteq Configured(config.decide_token, config.deciders) \cap LongTokens
<1>1. HostedSafe(config) /\ OperatorsRead /\ config \in Configurations
  BY DEF Reached, HostedServes, AfterAgents, AfterDeciders
<1>2. SourceAccepted(config.decide_token, config.deciders)
  BY <1>1 DEF HostedSafe
<1> DEFINE Known == Tenants \cup {Legacy}
<1>3. ASSUME NEW S \in SUBSET Tokens, operators \in [S -> Known]
      PROVE  operators # None
  BY <1>3, StartUpAssumption
<1>4. CASE config.deciders # None
  <2> DEFINE spec == config.deciders
             Keys == Tenants
  <2>1. operators = Registry(spec) /\ Parses(spec) /\ config.decide_token = None
    BY <1>1, <1>2, <1>4 DEF OperatorsRead, SourceAccepted
  <2>2. spec \in Seq(Entries(Keys \cup {BadKey})) /\ BadKey \notin Keys
    BY <1>1, <1>4, StartUpAssumption
  <2>3. /\ operators \in [{spec[n].token : n \in Pairs(spec)} -> Keys]
        /\ {spec[n].token : n \in Pairs(spec)} \subseteq Tokens
        /\ Pairs(spec) \subseteq DOMAIN spec
    <3>1. operators = Registry(spec)
      BY <2>1
    <3> HIDE DEF Keys, spec
    <3>2. /\ Registry(spec) \in [{spec[n].token : n \in Pairs(spec)} -> Keys]
          /\ {spec[n].token : n \in Pairs(spec)} \subseteq Tokens
          /\ Pairs(spec) \subseteq DOMAIN spec
      BY <2>1, <2>2, RegistryIsConfigured, Zenon
    <3> QED BY <3>1, <3>2
  <2>4. DOMAIN operators = {spec[n].token : n \in Pairs(spec)}
    BY <2>3
  <2>5. DOMAIN operators \subseteq {spec[n].token : n \in DOMAIN spec}
    BY <2>3, <2>4
  <2>6. {spec[n].token : n \in DOMAIN spec}
            \subseteq Configured(config.decide_token, config.deciders) \cap LongTokens
    BY <1>2, <1>4 DEF Configured, SourceAccepted
  <2>7. operators # None
    BY <1>3, <2>3
  <2> QED BY <2>5, <2>6, <2>7
<1>5. CASE config.deciders = None
  <2>1. config.decide_token # None /\ config.decide_token.token \in LongTokens
    BY <1>2, <1>5 DEF SourceAccepted
  <2>2. operators = SingleRegistry(config.decide_token, Legacy)
    BY <1>1, <1>5, <2>1 DEF OperatorsRead
  <2>3. config.decide_token \in Single
    BY <1>1, <2>1, StartUpAssumption
  <2>4. /\ operators \in [DOMAIN operators -> {Legacy}]
        /\ DOMAIN operators \subseteq {config.decide_token.token}
        /\ config.decide_token.token \in Tokens
    BY <2>2, <2>3, SingleIsConfigured
  <2>5. DOMAIN operators \in SUBSET Tokens /\ operators \in [DOMAIN operators -> Known]
    BY <2>4
  <2>6. operators # None
    BY <1>3, <2>5
  <2>7. config.decide_token.token \in Configured(config.decide_token, config.deciders)
    BY <2>1 DEF Configured
  <2> QED BY <2>1, <2>4, <2>6, <2>7
<1> QED BY <1>4, <1>5

------------------------------------------------------------------------------
(* A bearer whose token is in no registry is nobody.                       *)
LEMMA StrangersAreNobody ==
    ASSUME NEW t, agents # None, operators # None
    PROVE  /\ t \notin DOMAIN agents => AgentOf(t) = None
           /\ t \notin DOMAIN operators => ScopeOf(t) = None
BY DEF AgentOf, ScopeOf

(* README.md:218: no bearer of a hosted server is both an agent and an     *)
(* operator, whatever the four sources say and however they overlap.       *)
THEOREM HostedSeparatesDuties == Spec => []DutiesAreSeparate
<1>1. Reached => DutiesAreSeparate
  <2> SUFFICES ASSUME Reached, HostedServes, NEW t \in Tokens
               PROVE  AgentOf(t) = None \/ ScopeOf(t) = None
    BY DEF DutiesAreSeparate
  <2>1. HostedSafe(config)
    BY DEF Reached, HostedServes
  <2>2. Configured(config.token, config.agents)
            \cap Configured(config.decide_token, config.deciders) = {}
    BY <2>1 DEF HostedSafe
  <2>3. t \notin DOMAIN agents \/ t \notin DOMAIN operators
    BY <2>2, AgentsAreConfigured, OperatorsAreConfigured
  <2> QED BY <2>3, AgentsAreConfigured, OperatorsAreConfigured, StrangersAreNobody
<1> QED BY <1>1, StartUpReached, PTL

(* hosted_safety.rs: a hosted server serves no bearer without a long token *)
(* of its configuration, enforces, and limits its rate within the bounds.  *)
THEOREM HostedServesTheKnown == Spec => []HostedIsClosed
<1>1. Reached => HostedIsClosed
  <2> SUFFICES ASSUME Reached, HostedServes PROVE HostedIsClosed
    BY DEF HostedIsClosed
  <2>1. HostedSafe(config) /\ LimiterBuilt
    BY DEF Reached, HostedServes, AfterLimiter
  <2>2. ASSUME NEW t \in Tokens \ LongTokens PROVE AgentOf(t) = None /\ ScopeOf(t) = None
    <3>1. t \notin DOMAIN agents /\ t \notin DOMAIN operators
      BY AgentsAreConfigured, OperatorsAreConfigured
    <3> QED BY <3>1, AgentsAreConfigured, OperatorsAreConfigured, StrangersAreNobody
  <2>3. config.mode = "enforce"
    BY <2>1 DEF HostedSafe
  <2>4. /\ config.qps # None /\ config.qps \in 1 .. 1000
        /\ config.burst # None /\ config.burst \in 1 .. 200
    BY <2>1 DEF HostedSafe, MinimumQps, MaximumQps, MinimumBurst, MaximumBurst
  <2>5. limiter = [qps |-> config.qps, burst |-> config.burst]
    BY <2>1, <2>4 DEF LimiterBuilt
  <2>6. [qps |-> config.qps, burst |-> config.burst] \in [qps : Nat, burst : Nat]
    <3>1. config.qps \in Nat /\ config.burst \in Nat
      BY <2>4
    <3> QED BY <3>1, Zenon
  <2>7. limiter # None
    BY <2>5, <2>6, StartUpAssumption
  <2>8. limiter.qps <= MaximumQps /\ limiter.burst <= MaximumBurst
    BY <2>4, <2>5 DEF MaximumQps, MaximumBurst
  <2> QED BY <2>2, <2>3, <2>7, <2>8 DEF HostedIsClosed
<1> QED BY <1>1, StartUpReached, PTL

(* proxy.rs:409 and 497: a server of any profile knows each configured     *)
(* token as exactly what its entry says, and knows nobody else.            *)
THEOREM TokensAreUnambiguous == Spec => []TokensNameOneIdentity
<1>1. Reached => TokensNameOneIdentity
  <2> SUFFICES ASSUME Reached, pc = "serving" PROVE TokensNameOneIdentity
    BY DEF TokensNameOneIdentity
  <2>1. AgentsRead /\ OperatorsRead /\ config \in Configurations
    BY DEF Reached, AfterAgents, AfterDeciders
  <2>2. ASSUME config.agents # None, NEW t \in Tokens, NEW who \in Tenants \X Names
        PROVE  AgentOf(t) = who <=> Pair(who, t) \in {config.agents[n] : n \in DOMAIN config.agents}
    <3> DEFINE spec == config.agents
               Keys == Tenants \X Names
    <3>1. agents = Registry(spec) /\ Parses(spec)
      BY <2>1, <2>2 DEF AgentsRead
    <3>2. spec \in Seq(Entries(Keys \cup {BadKey})) /\ BadKey \notin Keys
      BY <2>1, <2>2, StartUpAssumption DEF AgentKeys
    <3>3. who # None
      BY StartUpAssumption
    <3>4. agents # None
      <4>1. agents \in [{spec[n].token : n \in Pairs(spec)} -> Keys]
                /\ {spec[n].token : n \in Pairs(spec)} \in SUBSET Tokens
        <5> HIDE DEF spec, Keys
        <5>1. /\ Registry(spec) \in [{spec[n].token : n \in Pairs(spec)} -> Keys]
              /\ {spec[n].token : n \in Pairs(spec)} \subseteq Tokens
              /\ Pairs(spec) \subseteq DOMAIN spec
          BY <3>1, <3>2, RegistryIsConfigured, Zenon
        <5> QED BY <3>1, <5>1
      <4> DEFINE S == {spec[n].token : n \in Pairs(spec)}
      <4>2. agents \in [S -> Keys \cup {<<Legacy, BearerAgent>>}]
        BY <4>1
      <4> HIDE DEF S
      <4>3. S \in SUBSET Tokens
        BY <4>1 DEF S
      <4> QED BY <4>2, <4>3, StartUpAssumption
    <3>5. t \in DOMAIN agents /\ agents[t] = who
              <=> Pair(who, t) \in {spec[n] : n \in DOMAIN spec}
      <4> HIDE DEF spec, Keys
      <4>1. who \in Keys
        BY DEF Keys
      <4> QED BY <3>1, <3>2, <4>1, RegistryTells
    <3> QED BY <3>3, <3>4, <3>5 DEF AgentOf
  <2>3. ASSUME config.deciders # None, NEW t \in Tokens, NEW who \in Tenants
        PROVE  ScopeOf(t) = who <=> Pair(who, t) \in {config.deciders[n] : n \in DOMAIN config.deciders}
    <3> DEFINE spec == config.deciders
    <3>1. operators = Registry(spec) /\ Parses(spec)
      BY <2>1, <2>3 DEF OperatorsRead
    <3>2. spec \in Seq(Entries(Tenants \cup {BadKey})) /\ BadKey \notin Tenants
      BY <2>1, <2>3, StartUpAssumption
    <3>3. who # None
      BY StartUpAssumption
    <3>4. operators # None
      <4>1. operators \in [{spec[n].token : n \in Pairs(spec)} -> Tenants]
                /\ {spec[n].token : n \in Pairs(spec)} \in SUBSET Tokens
        <5> HIDE DEF spec
        <5>1. /\ Registry(spec) \in [{spec[n].token : n \in Pairs(spec)} -> Tenants]
              /\ {spec[n].token : n \in Pairs(spec)} \subseteq Tokens
              /\ Pairs(spec) \subseteq DOMAIN spec
          BY <3>1, <3>2, RegistryIsConfigured, Zenon
        <5> QED BY <3>1, <5>1
      <4> DEFINE S == {spec[n].token : n \in Pairs(spec)}
      <4>2. operators \in [S -> Tenants \cup {Legacy}]
        BY <4>1
      <4> HIDE DEF S
      <4>3. S \in SUBSET Tokens
        BY <4>1 DEF S
      <4> QED BY <4>2, <4>3, StartUpAssumption
    <3>5. t \in DOMAIN operators /\ operators[t] = who
              <=> Pair(who, t) \in {spec[n] : n \in DOMAIN spec}
      <4> HIDE DEF spec
      <4> QED BY <3>1, <3>2, RegistryTells
    <3> QED BY <3>3, <3>4, <3>5 DEF ScopeOf
  <2> QED BY <2>2, <2>3 DEF TokensNameOneIdentity
<1> QED BY <1>1, StartUpReached, PTL

------------------------------------------------------------------------------
(* What is opened, and when.                                               *)

OpenedWhenChecked == opened /\ config.profile = "hosted" => HostedSafe(config)

LEMMA NextKeepsOpenedWhenChecked ==
    ASSUME Reached, OpenedWhenChecked, [Next]_vars
    PROVE  OpenedWhenChecked'
<1>1. CASE OpenLedger
  <2>1. pc = "ledger" /\ config' = config
    BY <1>1 DEF OpenLedger, Passes
  <2>2. config.profile = "hosted" => HostedSafe(config)
    BY <2>1 DEF Reached
  <2> QED BY <2>1, <2>2 DEF OpenedWhenChecked
<1>2. CASE config' = config /\ opened' = opened
  BY <1>2 DEF OpenedWhenChecked
<1>3. [Next]_vars => OpenLedger \/ (config' = config /\ opened' = opened)
  BY DEF Next, vars, Validate, ParseUpstream, LoadPolicies, BuildClient, ReadAgents,
         ReadDeciders, ReadAllowlist, CheckWebhook, BuildLimiter, Spawn, Bind, Stop
<1> QED BY <1>1, <1>2, <1>3

(* Nothing is taken back where there is no "..".                           *)
LEMMA AllLast ==
    ASSUME NEW parts \in Seq({"data", "file", ".."}),
           \A n \in DOMAIN parts : parts[n] # ".."
    PROVE  Lasting(parts) = DOMAIN parts
<1> SUFFICES ASSUME NEW n \in DOMAIN parts, NEW last \in n + 1 .. Len(parts)
             PROVE  Cardinality({k \in n + 1 .. last : parts[k] = ".."})
                        <= Cardinality({k \in n + 1 .. last : parts[k] # ".."})
  BY DEF Lasting
<1>1. n \in Int /\ last \in Int /\ n >= 1 /\ last <= Len(parts) /\ Len(parts) \in Nat
  OBVIOUS
<1>2. n + 1 .. last \subseteq DOMAIN parts
  BY <1>1
<1>3. {k \in n + 1 .. last : parts[k] = ".."} = {}
  BY <1>2
<1>4. IsFiniteSet(n + 1 .. last)
  BY <1>1, FS_Interval
<1>5. IsFiniteSet({k \in n + 1 .. last : parts[k] # ".."})
  <2> DEFINE N == {k \in n + 1 .. last : parts[k] # ".."}
  <2>1. N \subseteq n + 1 .. last
    OBVIOUS
  <2> HIDE DEF N
  <2>2. IsFiniteSet(N)
    BY <1>4, <2>1, FS_Subset
  <2> QED BY <2>2 DEF N
<1>6. Cardinality({k \in n + 1 .. last : parts[k] # ".."}) \in Nat
  BY <1>5, FS_CardinalityType
<1>7. Cardinality({k \in n + 1 .. last : parts[k] = ".."}) = 0
  BY <1>3, FS_EmptySet
<1> QED BY <1>6, <1>7

(* hosted_safety.rs:3, README.md:193: whatever path it is configured with, *)
(* a hosted process opens no file before all checks have passed, and none  *)
(* that is not beneath the mount.                                          *)
THEOREM HostedStaysOnTheMount == Spec => []HostedTouchesOnlyTheMount
<1>1. Init => OpenedWhenChecked
  BY DEF Init, OpenedWhenChecked
<1>2. Reached /\ OpenedWhenChecked /\ [Next]_vars => OpenedWhenChecked'
  BY NextKeepsOpenedWhenChecked
<1>3. Reached /\ OpenedWhenChecked => HostedTouchesOnlyTheMount
  <2> SUFFICES ASSUME config \in Configurations, HostedSafe(config)
               PROVE  LET parts == config.ledger.parts IN
                      \E n \in Lasting(parts) :
                         /\ parts[n] = "data"
                         /\ \A m \in Lasting(parts) : n <= m
                         /\ Lasting(parts) # {n}
    BY DEF Reached, OpenedWhenChecked, HostedTouchesOnlyTheMount
  <2> DEFINE parts == config.ledger.parts
  <2>1. parts \in Seq({"data", "file", ".."})
    BY StartUpAssumption
  <2>2. /\ \A n \in DOMAIN parts : parts[n] # ".."
        /\ Len(parts) > 1 /\ parts[1] = "data"
    BY DEF HostedSafe, UnderData
  <2> HIDE DEF parts
  <2>3. Lasting(parts) = DOMAIN parts
    BY <2>1, <2>2, AllLast
  <2>4. DOMAIN parts = 1 .. Len(parts) /\ Len(parts) \in Nat
    BY <2>1
  <2>5. /\ 1 \in Lasting(parts) /\ 2 \in Lasting(parts)
        /\ \A m \in Lasting(parts) : 1 <= m
    BY <2>2, <2>3, <2>4
  <2> QED BY <2>2, <2>5 DEF parts
<1> QED BY <1>1, <1>2, <1>3, StartUpReached, PTL DEF Spec

===============================================================================
