-------------------------------- MODULE StartUp -------------------------------
(***************************************************************************)
(* The start of clavenar-lite (run_start in src/src/main.rs): the checks   *)
(* of the hosted profile (src/src/hosted_safety.rs), the registries of     *)
(* agents and operators, the rate limiter, the steps taken before and      *)
(* after each check, and how a running server recognizes a bearer          *)
(* (src/src/proxy.rs).                                                     *)
(*                                                                         *)
(* A configured text is known by what its readers do with it: a token may  *)
(* be followed by white space, a registry is a sequence of entries, a path *)
(* a sequence of components.  Rates are counted in tenths.                 *)
(***************************************************************************)
EXTENDS Integers, Sequences, FiniteSets

CONSTANTS
    Tokens,           \* what a token is once trimmed
    LongTokens,       \* the ones of 32 bytes or more
    EmptyToken,
    Tenants,
    Names,            \* agent names, in [A-Za-z0-9._-]
    Legacy,           \* the tenant _legacy_unqualified
    BearerAgent,      \* the agent of the single token
    Anonymous,        \* the agent when there is no registry
    None,             \* an option that is not set
    Configurations    \* the configurations a process may be started with

(* Text between two commas: nothing, no colon in it, or a key and a token. *)
Blank == [kind |-> "blank"]
NoColon == [kind |-> "no_colon"]
Pair(key, token) == [kind |-> "pair", key |-> key, token |-> token]

(* A key that AgentIdentity::new refuses, or that has no slash or two.     *)
BadKey == <<"bad">>

AgentKeys == (Tenants \X Names) \cup {BadKey}
Entries(Keys) == {Blank, NoColon} \cup {Pair(k, t) : k \in Keys, t \in Tokens}

Single == [token : Tokens, padded : BOOLEAN]

ASSUME StartUpAssumption ==
    /\ LongTokens \subseteq Tokens /\ EmptyToken \in Tokens \ LongTokens
    /\ None \notin Tokens \cup Tenants \cup (Tenants \X Names)
    /\ None \notin [qps : Nat, burst : Nat]
    /\ \A S \in SUBSET Tokens :
           None \notin [S -> (Tenants \X Names) \cup {<<Legacy, BearerAgent>>}]
                           \cup [S -> Tenants \cup {Legacy}]
    /\ BadKey \notin Tenants \cup (Tenants \X Names)
    /\ \A c \in Configurations :
           /\ c.token \in Single \cup {None}
           /\ c.decide_token \in Single \cup {None}
           /\ c.agents # None => c.agents \in Seq(Entries(AgentKeys)) \ {<<>>}
           /\ c.deciders # None =>
                  c.deciders \in Seq(Entries(Tenants \cup {BadKey})) \ {<<>>}
           /\ c.qps \in Int \cup {None} /\ c.burst \in Nat \cup {None}
           /\ c.ledger.parts \in Seq({"data", "file", ".."})

VARIABLES
    config,           \* the options, from flags and environment
    pc,               \* the step run_start stands at
    agents,           \* AppState.agents: None, or a token's identity
    operators,        \* AppState.deciders: None, or a token's tenant
    limiter,          \* AppState.rate_limiter: None, or rate and burst
    opened,           \* the ledger file has been opened, schema and all
    reconciled        \* the reconciler task has been spawned

vars == <<config, pc, agents, operators, limiter, opened, reconciled>>

------------------------------------------------------------------------------
(* The checks of the hosted profile.                                       *)

(* Variant: an option that is set is checked, a missing one is not missed. *)
SourceAcceptedWhenSet(single, registry) ==
    /\ single = None \/ registry = None
    /\ single # None => single.token \in LongTokens
    /\ registry # None =>
           \A n \in DOMAIN registry : registry[n].kind = "pair" /\ registry[n].token \in LongTokens

(* Exactly one source, and every token of it is long enough once trimmed.  *)
SourceAccepted(single, registry) ==
    \/ /\ single # None /\ registry = None
       /\ single.token \in LongTokens
    \/ /\ single = None /\ registry # None
       /\ \A n \in DOMAIN registry :
              registry[n].kind = "pair" /\ registry[n].token \in LongTokens

(* Variant: of a registry only the first token is compared.                *)
FirstConfigured(single, registry) ==
    {s.token : s \in {single} \ {None}}
        \cup {r[1].token : r \in {registry} \ {None}}

Configured(single, registry) ==
    {s.token : s \in {single} \ {None}}
        \cup UNION {{r[n].token : n \in DOMAIN r} : r \in {registry} \ {None}}

(* Variant: the path is searched for its prefix only.                      *)
UnderDataByPrefix(path) ==
    path.absolute /\ Len(path.parts) > 1 /\ path.parts[1] = "data"

(* validate_ledger_path.  :memory: is a relative path.                     *)
UnderData(path) ==
    /\ path.absolute
    /\ \A n \in DOMAIN path.parts : path.parts[n] # ".."
    /\ Len(path.parts) > 1 /\ path.parts[1] = "data"

MinimumQps == 1
MaximumQps == 1000
MinimumBurst == 1
MaximumBurst == 200
MaximumTimeout == 30000

UpstreamSafe(url) ==
    url.parses /\ url.scheme = "https" /\ ~url.credentials /\ ~url.fragment /\ ~url.placeholder

HostedSafe(c) ==
    /\ SourceAccepted(c.token, c.agents)
    /\ SourceAccepted(c.decide_token, c.deciders)
    /\ Configured(c.token, c.agents) \cap Configured(c.decide_token, c.deciders) = {}
    /\ c.mode = "enforce" /\ ~c.verbose
    /\ c.qps # None /\ c.qps \in MinimumQps .. MaximumQps
    /\ c.burst # None /\ c.burst \in MinimumBurst .. MaximumBurst
    /\ UnderData(c.ledger)
    /\ UpstreamSafe(c.upstream)
    /\ c.adapter = "mcp-jsonrpc-v1"
    /\ c.timeout \in 1 .. MaximumTimeout

------------------------------------------------------------------------------
(* The registries.                                                         *)

(* The entries that count: parse skips a blank one.                        *)
Pairs(spec) == {n \in DOMAIN spec : spec[n].kind # "blank"}

(* Variant: a token that occurs again replaces the earlier one.            *)
ParsesReplacing(spec) ==
    /\ Pairs(spec) # {}
    /\ \A n \in Pairs(spec) : /\ spec[n].kind = "pair"
                              /\ spec[n].key # BadKey
                              /\ spec[n].token # EmptyToken

(* AgentRegistry::parse and TenantRegistry::parse accept the text.         *)
Parses(spec) ==
    /\ Pairs(spec) # {}
    /\ \A n \in Pairs(spec) : /\ spec[n].kind = "pair"
                              /\ spec[n].key # BadKey
                              /\ spec[n].token # EmptyToken
    /\ \A m, n \in Pairs(spec) : spec[m].token = spec[n].token => m = n

(* by_token.insert of each entry in turn.                                  *)
Registry(spec) ==
    [t \in {spec[n].token : n \in Pairs(spec)} |->
        LET last == CHOOSE n \in Pairs(spec) :
                        /\ spec[n].token = t
                        /\ \A m \in Pairs(spec) : spec[m].token = t => m <= n
        IN spec[last].key]

(* The text is compared as it was configured.  White space at the end of a *)
(* header never arrives, so a padded token is never presented.             *)
SingleRegistry(single, identity) ==
    [t \in IF single.padded THEN {} ELSE {single.token} |-> identity]

(* Who a bearer is to POST /mcp and GET /pending/{id}; None is a 401.      *)
AgentOf(bearer) ==
    IF agents = None THEN <<Legacy, Anonymous>>
    ELSE IF bearer \in DOMAIN agents THEN agents[bearer] ELSE None

(* resolve_operator_tenant: "any" is the open scope, None a 401.           *)
ScopeOf(bearer) ==
    IF operators = None THEN "any"
    ELSE IF bearer \in DOMAIN operators THEN operators[bearer] ELSE None

------------------------------------------------------------------------------
(* run_start, check by check.  A check that fails ends the process with 1. *)

(* Variant: the ledger is opened before anything is checked.               *)
StepsLedgerFirst == <<"ledger", "validate", "upstream", "policies", "client", "agents",
                      "deciders", "callbacks", "webhook", "limiter", "spawn", "bind", "serving">>

Steps == <<"validate", "upstream", "policies", "ledger", "client", "agents",
           "deciders", "callbacks", "webhook", "limiter", "spawn", "bind", "serving">>

Following(step) == Steps[1 + CHOOSE n \in 1 .. Len(Steps) : Steps[n] = step]

Init ==
    /\ config \in Configurations
    /\ pc = Steps[1]
    /\ agents = None /\ operators = None /\ limiter = None
    /\ opened = FALSE /\ reconciled = FALSE

Passes(step, holds) ==
    /\ pc = step
    /\ pc' = IF holds THEN Following(step) ELSE "failed"

Validate ==
    /\ Passes("validate", config.profile = "hosted" => HostedSafe(config))
    /\ UNCHANGED <<config, agents, operators, limiter, opened, reconciled>>

ParseUpstream ==
    /\ Passes("upstream", config.upstream.parses)
    /\ UNCHANGED <<config, agents, operators, limiter, opened, reconciled>>

LoadPolicies ==
    /\ \E loads \in BOOLEAN : Passes("policies", loads)
    /\ UNCHANGED <<config, agents, operators, limiter, opened, reconciled>>

OpenLedger ==
    /\ \E opens \in BOOLEAN : Passes("ledger", opens) /\ opened' = opens
    /\ UNCHANGED <<config, agents, operators, limiter, reconciled>>

BuildClient ==
    /\ \E builds \in BOOLEAN : Passes("client", builds)
    /\ UNCHANGED <<config, agents, operators, limiter, opened, reconciled>>

(* --agents takes precedence over --token.                                 *)
ReadAgents ==
    /\ Passes("agents", config.agents # None => Parses(config.agents))
    /\ agents' = IF config.agents # None
                 THEN IF Parses(config.agents) THEN Registry(config.agents) ELSE None
                 ELSE IF config.token # None
                 THEN SingleRegistry(config.token, <<Legacy, BearerAgent>>)
                 ELSE None
    /\ UNCHANGED <<config, operators, limiter, opened, reconciled>>

(* --deciders takes precedence over --decide-token at every request.       *)
ReadDeciders ==
    /\ Passes("deciders", config.deciders # None => Parses(config.deciders))
    /\ operators' = IF config.deciders # None
                    THEN IF Parses(config.deciders) THEN Registry(config.deciders) ELSE None
                    ELSE IF config.decide_token # None
                    THEN SingleRegistry(config.decide_token, Legacy)
                    ELSE None
    /\ UNCHANGED <<config, agents, limiter, opened, reconciled>>

ReadAllowlist ==
    /\ Passes("callbacks", config.callbacks_normalize)
    /\ UNCHANGED <<config, agents, operators, limiter, opened, reconciled>>

CheckWebhook ==
    /\ Passes("webhook", config.webhook_parses)
    /\ UNCHANGED <<config, agents, operators, limiter, opened, reconciled>>

Larger(m, n) == IF m > n THEN m ELSE n

(* A missing burst is the rate, rounded up, and at least one; a rate or a  *)
(* burst of zero means no limiter.                                         *)
BuildLimiter ==
    LET qps == IF config.qps = None THEN 0 ELSE Larger(config.qps, 0)
        burst == IF config.burst = None THEN Larger((qps + 9) \div 10, 1) ELSE config.burst IN
    /\ Passes("limiter", TRUE)
    /\ limiter' = IF qps > 0 /\ burst > 0 THEN [qps |-> qps, burst |-> burst] ELSE None
    /\ UNCHANGED <<config, agents, operators, opened, reconciled>>

(* The metrics recorder is installed, and the reconciler runs before the   *)
(* port is known to be free.                                               *)
Spawn ==
    /\ \E installs \in BOOLEAN : Passes("spawn", installs) /\ reconciled' = installs
    /\ UNCHANGED <<config, agents, operators, limiter, opened>>

Bind ==
    /\ \E free \in BOOLEAN : Passes("bind", free)
    /\ UNCHANGED <<config, agents, operators, limiter, opened, reconciled>>

(* Interrupted, or the server fails.                                       *)
Stop ==
    /\ pc = "serving"
    /\ pc' \in {"stopped", "failed"}
    /\ UNCHANGED <<config, agents, operators, limiter, opened, reconciled>>

Next ==
    \/ Validate \/ ParseUpstream \/ LoadPolicies \/ OpenLedger \/ BuildClient
    \/ ReadAgents \/ ReadDeciders \/ ReadAllowlist \/ CheckWebhook
    \/ BuildLimiter \/ Spawn \/ Bind \/ Stop

Spec == Init /\ [][Next]_vars

------------------------------------------------------------------------------
HostedServes == pc = "serving" /\ config.profile = "hosted"

(* contracts/hosted-lite-safety-v1.fixture.json: no "anonymousMcp", no     *)
(* "anonymousPendingRead", no "anonymousDecision", "rateLimit" "required". *)
(* The checks read the options and the server its state, and between the   *)
(* two lie other parsers, precedences and defaults: a hosted server serves *)
(* nobody without a token of its configuration, in enforce mode, and its   *)
(* limiter is on and within the bounds.                                    *)
HostedIsClosed ==
    HostedServes =>
        /\ \A t \in Tokens \ LongTokens : AgentOf(t) = None /\ ScopeOf(t) = None
        /\ config.mode = "enforce"
        /\ limiter # None
        /\ limiter.qps <= MaximumQps /\ limiter.burst <= MaximumBurst

(* README.md:218: a hosted start "rejects every credential shared with an  *)
(* agent registry".  No bearer is at once an agent, who has calls parked,  *)
(* and an operator, who decides them.                                      *)
DutiesAreSeparate ==
    HostedServes => \A t \in Tokens : AgentOf(t) = None \/ ScopeOf(t) = None

(* proxy.rs:409: "Tokens must be unique", 497: "a token may authorize      *)
(* exactly one tenant".  Whatever the order and number of the entries, a   *)
(* server knows each configured token as exactly what its entry says, and  *)
(* knows nobody else.                                                      *)
TokensNameOneIdentity ==
    pc = "serving" =>
        /\ config.agents # None =>
               \A t \in Tokens, who \in Tenants \X Names :
                   AgentOf(t) = who <=> Pair(who, t) \in {config.agents[n] : n \in DOMAIN config.agents}
        /\ config.deciders # None =>
               \A t \in Tokens, who \in Tenants :
                   ScopeOf(t) = who <=> Pair(who, t) \in {config.deciders[n] : n \in DOMAIN config.deciders}

(* The components of the directory a path really names: those that no ".." *)
(* takes back, since at least as many names as ".."s follow each up to any *)
(* point behind it.                                                        *)
Lasting(parts) ==
    {n \in DOMAIN parts :
        /\ parts[n] # ".."
        /\ \A last \in n + 1 .. Len(parts) :
               Cardinality({k \in n + 1 .. last : parts[k] = ".."})
                   <= Cardinality({k \in n + 1 .. last : parts[k] # ".."})}

(* README.md:193: a hosted ledger lies on the volume mounted at /data.     *)
(* hosted_safety.rs:3: nothing "ephemeral" starts, and what the checks     *)
(* refuse has no effect: a hosted process opens only files that the path,  *)
(* resolved, keeps beneath the mount, and a refused one opens none.        *)
HostedTouchesOnlyTheMount ==
    opened /\ config.profile = "hosted" =>
        /\ HostedSafe(config)
        /\ \E n \in Lasting(config.ledger.parts) :
               /\ config.ledger.parts[n] = "data"
               /\ \A m \in Lasting(config.ledger.parts) : n <= m
               /\ Lasting(config.ledger.parts) # {n}

===============================================================================
