--------------------------- MODULE GatewayProperties --------------------------
(***************************************************************************)
(* What the tool-call path of clavenar-lite must keep true, whatever the   *)
(* interleaving of handlers, operators, reconcilers and processes.         *)
(***************************************************************************)
EXTENDS Gateway

------------------------------------------------------------------------------
(* Durable server execution.                                               *)

(* README.md:457: "Lite makes exactly one upstream attempt for selected    *)
(* server execution."  However many requests share an execution key, on    *)
(* however many processes, at most one of them contacts the upstream: the  *)
(* second look inside begin_server_execution's transaction decides.        *)
AtMostOneAttempt ==
    \A r, s \in Requests : sent[r] /\ sent[s] /\ Key(r) = Key(s) => r = s

(* README.md:450: "Lite commits the exact intent ... before the upstream   *)
(* attempt."  Behind every attempt stands a row that holds exactly this    *)
(* payload, and the intent stage in the chain; neither is ever lost again. *)
IntentBehindAttempt ==
    \A r \in Requests : sent[r] =>
        /\ executions[Key(r)].state # "missing"
        /\ executions[Key(r)].digest = call[r].payload
        /\ \E n \in DOMAIN entries :
               entries[n] = StageRow("ServerExecutionIntent", Key(r))

TerminalRows(k) ==
    {StageRow("ServerExecutionCompleted", k), StageRow("ServerExecutionUncertain", k)}

InChain(row) == \E n \in DOMAIN entries : entries[n] = row

(* The chain, the outbox and the table tell the same end of an execution,  *)
(* and only one end: a completion that arrives after another process       *)
(* declared the execution uncertain is refused as a whole, and so is the   *)
(* reverse.  The gauge of ledger.rs:691 counts exactly the executions      *)
(* whose intent the chain shows without an end.                            *)
OneTerminalStage ==
    \A k \in Keys :
        /\ \A m, n \in DOMAIN entries :
               entries[m] \in TerminalRows(k) /\ entries[n] \in TerminalRows(k) => m = n
        /\ \/ executions[k].state # "completed"
           \/ executions[k].recon = "resolved"
        /\ executions[k].state = "completed" <=> [key |-> k, stage |-> "completed"] \in outbox
        /\ executions[k].recon = "uncertain" <=> [key |-> k, stage |-> "uncertain"] \in outbox
        /\ InChain(StageRow("ServerExecutionCompleted", k))
               <=> [key |-> k, stage |-> "completed"] \in outbox
        /\ InChain(StageRow("ServerExecutionUncertain", k))
               <=> [key |-> k, stage |-> "uncertain"] \in outbox
        /\ k \in AwaitingStage <=> /\ InChain(StageRow("ServerExecutionIntent", k))
                                   /\ \A row \in TerminalRows(k) : ~InChain(row)

(* README.md:453: "An exact completed retry returns the retained bytes."   *)
(* Whoever is told a result, first or by replay, is told what the one      *)
(* request that contacted the upstream received, for the same payload, and *)
(* the row retains exactly that.                                           *)
ResultsAreTheUpstreams ==
    \A r \in Requests : reply[r] \in {"executed", "replayed"} =>
        /\ executions[Key(r)].state = "completed"
        /\ executions[Key(r)].result = body[r]
        /\ \E s \in Requests : /\ sent[s]
                               /\ Key(s) = Key(r)
                               /\ call[s].payload = call[r].payload
                               /\ body[s] = body[r]

Phase(k) ==
    CASE executions[k].state = "missing" -> "unknown"
      [] executions[k].state = "completed" -> "completed"
      [] executions[k].state = "in_flight" /\ executions[k].recon = "uncertain" -> "uncertain"
      [] executions[k].state = "in_flight" /\ executions[k].recon # "uncertain" -> "intended"

Promise == INSTANCE AtMostOnce WITH
    phase     <- [k \in Keys |-> Phase(k)],
    attempted <- [k \in Keys |-> \E r \in Requests : sent[r] /\ Key(r) = k],
    result    <- [k \in Keys |-> executions[k].result]

(* The gateway implements the promise of durable server execution: intent  *)
(* first, one attempt, a final end, across crashes, retries and faults.    *)
KeepsPromise == Promise!ASpec

Abandoned(k) ==
    /\ executions[k].state = "in_flight"
    /\ executions[k].recon = "pending"
    /\ proc[executions[k].owner] = "down"

(* ledger.rs:552: the reconciler classifies "abandoned intents owned by a  *)
(* prior process".  Once some process stays up, every execution whose      *)
(* process died in mid-flight is eventually classified.                    *)
AbandonedAreClassified ==
    (\E i \in Instances : <>[](proc[i] = "up")) =>
        \A k \in Keys : Abandoned(k) ~> (executions[k].recon # "pending")

(* ledger.rs:391-550, 859-918 and 1151-1202: whatever the interleaving, no *)
(* step rewrites or removes a row of the chain, forgets an execution or    *)
(* binds it to another payload, changes a completed execution, or removes  *)
(* or changes a decision.                                                  *)
LedgerOnlyGrows == [][NothingLost]_storeVars

------------------------------------------------------------------------------
(* Human review.                                                           *)

(* In enforce mode nothing reaches the upstream unless its verdict was     *)
(* Green, or was Yellow and an operator has allowed its id.  The approval  *)
(* was read some awaits before the attempt and must still stand.           *)
AttemptIsAuthorized ==
    \A r \in Requests : sent[r] /\ Enforced(tier[r]) =>
        tier[r] = "Yellow" /\ pendings[call[r].id].decision = "allow"

(* proxy.rs:1716: a failed park is surfaced "as a 500 rather than silently *)
(* 202'ing without backing state".  Behind every "pending" stands a row    *)
(* that an operator can decide, and it stays.                              *)
PendingIsBacked ==
    \A r \in Requests : reply[r] = "pending" => pendings[call[r].id].decision # "absent"

DecisionRows(c) ==
    {n \in DOMAIN entries : entries[n].corr = c /\ entries[n].intent \in DecisionIntents}

(* ledger.rs:828: a second decision is refused, "never silently            *)
(* overwriting a prior decision".  Of two operators who decide one id at a *)
(* time only one is recorded, and the chain never shows another decision   *)
(* than the one in the pendings row, nor shows it twice.                   *)
AuditTellsTheDecision ==
    \A c \in Ids :
        /\ \A m, n \in DecisionRows(c) : m = n
        /\ \A n \in DecisionRows(c) :
               /\ pendings[c].decision \in {"allow", "deny"}
               /\ entries[n].intent = DecisionIntent(pendings[c].decision)

(* ledger.rs:787: the caller of park_pending writes PendingReview "so the  *)
(* forensic chain reflects the park".  A decision in the chain comes after *)
(* the review it decides, unless the append of that review failed.         *)
DecisionFollowsReview ==
    \A c \in Ids : \A n \in DecisionRows(c) :
        \/ \E m \in 1 .. n - 1 : entries[m].corr = c /\ entries[m].intent = "PendingReview"
        \/ \E row \in dropped : row.corr = c /\ row.intent = "PendingReview"

Decider(o, c) == order[o].id = c /\ opPc[o] \in {"audit", "decided", "dead"}

(* README.md:543: the decide route "writes a second ledger row             *)
(* (PendingApproved / PendingDenied) and flips the pendings row".  A row   *)
(* is decided by exactly one operator who may, and as that one asked; once *)
(* that handler has answered, the chain tells the decision, unless the     *)
(* append failed.                                                          *)
OneDecider ==
    \A c \in Ids :
        /\ \A o, q \in Operators : Decider(o, c) /\ Decider(q, c) => o = q
        /\ pendings[c].decision \in {"allow", "deny"} =>
               \E o \in Operators : Decider(o, c)
        /\ \A o \in Operators : Decider(o, c) =>
               /\ InScope(c, order[o].scope)
               /\ pendings[c].decision = order[o].decision
               /\ opPc[o] = "decided" =>
                      LET row == Row(DecisionIntent(order[o].decision),
                                     pendings[c].agent, c) IN
                      InChain(row) \/ row \in dropped

(* README.md:548: an operator "cannot list or decide another tenant's      *)
(* rows"; proxy.rs:969: a correlation id "is not authority to read another *)
(* tenant's pending".  The queue of each scope holds just the requests     *)
(* that were parked for it and that no operator has decided; and a poll    *)
(* tells the identity that parked one, and nobody else, how it stands.     *)
QueueIsTheWork ==
    \A c \in Ids :
        LET open == \A o \in Operators : ~Decider(o, c)
            by == parker[c] IN
        /\ \A t \in Tenants \cup {NoValue} :
               /\ c \in Listed("parked", t) <=>
                      by # NoValue /\ open /\ t \in {NoValue, call[by].tenant}
               /\ c \in Listed("decided", t) <=>
                      by # NoValue /\ ~open /\ t \in {NoValue, call[by].tenant}
        /\ \A t \in Tenants, a \in Agents :
               IF by = NoValue \/ <<t, a>> # <<call[by].tenant, call[by].agent>>
               THEN Polled(c, t, a) = "not_found"
               ELSE \/ open /\ Polled(c, t, a) = "pending"
                    \/ \E o \in Operators :
                           /\ Decider(o, c)
                           /\ Polled(c, t, a) = IF order[o].decision = "allow"
                                                THEN "approved" ELSE "denied"

(* report.rs:145: enforce is "safe to flip" only when "nothing in the      *)
(* window would be blocked or parked".  Whenever the report recommends it, *)
(* every verdict reached so far was Green and nobody was throttled, unless *)
(* the append of that verdict failed.                                      *)
GraduationIsTruthful ==
    RecommendsEnforce(TRUE) =>
        \A r \in Requests :
            tier[r] \in {"Yellow", "Red"} \/ reply[r] = "throttled" =>
                \E row \in dropped :
                    /\ row.corr = call[r].id
                    /\ row.intent \in {"PendingReview", "Denied", "RateLimitDenied"}

(* proxy.rs:1716: a park fails on a duplicate correlation id only, which   *)
(* "shouldn't happen with Uuid::new_v4"; contracts/retry-separation-v1     *)
(* lets clients resend a decision request under the same idempotency id.   *)
(* While storage works, no park fails.                                     *)
ParkNeverCollides ==
    \A r \in Requests : reply[r] # "park_failed"

(* README.md:454: under one identity "a changed request conflicts".  A     *)
(* call that runs on an operator's approval carries the payload that was   *)
(* parked for that approval.                                               *)
ApprovalBindsRequest ==
    \A r \in Requests : sent[r] /\ Enforced(tier[r]) =>
        /\ parker[call[r].id] # NoValue
        /\ call[parker[call[r].id]].payload = call[r].payload

===============================================================================
