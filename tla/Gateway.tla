-------------------------------- MODULE Gateway -------------------------------
(***************************************************************************)
(* The tool-call path of clavenar-lite (src/src/proxy.rs): handle_mcp for  *)
(* requests that select durable server execution or a decision,            *)
(* handle_decide_pending for operators, the reconciler task, and the       *)
(* processes these run in.                                                 *)
(*                                                                         *)
(* A handler is a sequence of awaits.  Each action is the code from one    *)
(* await to the next: one ledger operation, or one exchange with the       *)
(* upstream.  Between two of them any other handler, operator, reconciler  *)
(* or process may act, the client may disconnect (the handler is dropped)  *)
(* and the process may die.                                                *)
(***************************************************************************)
EXTENDS Ledger

CONSTANTS
    Requests,         \* HTTP requests to POST /mcp, retries included
    Operators,        \* HTTP requests to POST /pending/{id}/decide
    Calls,            \* what a request may carry
    Orders,           \* what an operator may ask
    TiersOf,          \* the verdicts brain and policy may reach on a payload
    Mode,             \* "enforce" or "observe"
    RateLimits,       \* is a rate limiter configured?
    Overlap,          \* may two processes have the file open at once?
    StorageFaults     \* may a ledger operation fail?

Tiers == {"Green", "Yellow", "Red"}

Call == [selector : {"server", "decision"}, tenant : Tenants, agent : Agents,
         id : Ids, payload : Payloads]

Order == [id : Ids, scope : Tenants \cup {NoValue}, decision : {"allow", "deny"}]

ASSUME GatewayAssumption ==
    /\ Calls \subseteq Call
    /\ Orders \subseteq Order
    /\ TiersOf \in [Payloads -> SUBSET Tiers]
    /\ Mode \in {"enforce", "observe"}
    /\ RateLimits \in BOOLEAN
    /\ Overlap \in BOOLEAN
    /\ StorageFaults \in BOOLEAN
    /\ NoValue \notin Requests \cup Tiers

VARIABLES
    proc,             \* the processes: "new", "up" or "down"
    call,             \* what each request carries; never changes
    pc,               \* where its handler stands
    at,               \* the process it arrived at
    tier,             \* the verdict on it
    reply,            \* the response it was given
    body,             \* the upstream answer its handler holds or replays
    order,            \* what each operator asks; never changes
    opPc,             \* where the decide handler stands
    opAt,             \* the process it arrived at
    sent,             \* history: the handler contacted the upstream
    parker,           \* history: the request whose park inserted the row
    dropped           \* history: the rows whose append failed

handlerVars == <<pc, at, tier, reply, body>>
operatorVars == <<opPc, opAt>>
inputVars == <<call, order>>
historyVars == <<sent, parker, dropped>>
vars == <<storeVars, proc, handlerVars, operatorVars, inputVars, historyVars>>

HandlerSteps == {"inspect", "verdict", "lookup", "park", "begin", "send",
                 "await", "complete"}

Replies == {"none", "refused", "throttled", "replayed", "uncertain", "conflict",
            "unavailable", "review_denied", "pending", "park_failed", "denied",
            "allow", "executed", "completion_uncertain"}

OperatorReplies == {"not_found", "already_decided", "failed", "decided"}

TypeOK ==
    /\ LedgerTypeOK
    /\ proc \in [Instances -> {"new", "up", "down"}]
    /\ call \in [Requests -> Calls]
    /\ pc \in [Requests -> {"idle", "done", "dead"} \cup HandlerSteps]
    /\ at \in [Requests -> Instances \cup {NoValue}]
    /\ tier \in [Requests -> Tiers \cup {NoValue}]
    /\ reply \in [Requests -> Replies]
    /\ body \in [Requests -> Results \cup {NoValue}]
    /\ order \in [Operators -> Orders]
    /\ opPc \in [Operators -> {"idle", "audit", "dead"} \cup OperatorReplies]
    /\ opAt \in [Operators -> Instances \cup {NoValue}]
    /\ sent \in [Requests -> BOOLEAN]
    /\ parker \in [Ids -> Requests \cup {NoValue}]
    /\ dropped \subseteq Entry

Init ==
    /\ LedgerInit
    /\ proc = [i \in Instances |-> "new"]
    /\ call \in [Requests -> Calls]
    /\ pc = [r \in Requests |-> "idle"]
    /\ at = [r \in Requests |-> NoValue]
    /\ tier = [r \in Requests |-> NoValue]
    /\ reply = [r \in Requests |-> "none"]
    /\ body = [r \in Requests |-> NoValue]
    /\ order \in [Operators -> Orders]
    /\ opPc = [o \in Operators |-> "idle"]
    /\ opAt = [o \in Operators |-> NoValue]
    /\ sent = [r \in Requests |-> FALSE]
    /\ parker = [c \in Ids |-> NoValue]
    /\ dropped = {}

------------------------------------------------------------------------------
Server(r) == call[r].selector = "server"

(* ServerExecutionBinding: the key holds the agent id without its tenant.  *)
Key(r) == <<call[r].agent, call[r].id>>

Enforced(t) == Mode = "enforce" /\ t # "Green"

Goto(r, step) ==
    /\ pc' = [pc EXCEPT ![r] = step]
    /\ UNCHANGED reply

Answer(r, kind) ==
    /\ pc' = [pc EXCEPT ![r] = "done"]
    /\ reply' = [reply EXCEPT ![r] = kind]

(* An append whose failure is only logged.                                 *)
TryAppend(row) ==
    /\ \/ AppendRow(row) /\ UNCHANGED dropped
       \/ StorageFaults /\ dropped' = dropped \cup {row} /\ UNCHANGED entries
    /\ UNCHANGED <<executions, outbox, pendings>>

------------------------------------------------------------------------------
(* The handler of POST /mcp.                                               *)

(* Selector, body and bearer token are accepted: the correlation id is the *)
(* idempotency id the client chose.                                        *)
Arrive(r) ==
    /\ pc[r] = "idle"
    /\ \E i \in Instances :
           /\ proc[i] = "up"
           /\ at' = [at EXCEPT ![r] = i]
    /\ Goto(r, IF Server(r) THEN "inspect" ELSE "verdict")
    /\ UNCHANGED <<storeVars, proc, tier, body, operatorVars, inputVars, historyVars>>

(* 400, 401, 426 or 503 before anything is written.                        *)
Refuse(r) ==
    /\ pc[r] = "idle"
    /\ \E i \in Instances : proc[i] = "up"
    /\ Answer(r, "refused")
    /\ UNCHANGED <<storeVars, proc, at, tier, body, operatorVars, inputVars, historyVars>>

(* 429: the only answer before the verdict that leaves a row.              *)
Throttle(r) ==
    /\ RateLimits
    /\ pc[r] = "idle"
    /\ \E i \in Instances : proc[i] = "up"
    /\ TryAppend(Row("RateLimitDenied", <<call[r].tenant, call[r].agent>>, call[r].id))
    /\ Answer(r, "throttled")
    /\ UNCHANGED <<proc, at, tier, body, operatorVars, inputVars, sent, parker>>

(* The answers a row of server_executions leaves no choice about.          *)
AnswerFromRow(r) ==
    LET outcome == InspectOutcome(Key(r), call[r].payload) IN
    \/ /\ outcome = "completed"
       /\ Answer(r, "replayed")
       /\ body' = [body EXCEPT ![r] = executions[Key(r)].result]
    \/ /\ outcome \in {"uncertain", "conflict"}
       /\ Answer(r, outcome)
       /\ UNCHANGED body

StorageUnavailable(r) ==
    /\ StorageFaults
    /\ Answer(r, "unavailable")
    /\ UNCHANGED body

(* The look before policy and review; nothing is locked by it.             *)
Inspect(r) ==
    /\ pc[r] = "inspect"
    /\ \/ /\ InspectOutcome(Key(r), call[r].payload) = "missing"
          /\ Goto(r, "verdict")
          /\ UNCHANGED body
       \/ AnswerFromRow(r)
       \/ StorageUnavailable(r)
    /\ UNCHANGED <<storeVars, proc, at, tier, operatorVars, inputVars, historyVars>>

VerdictIntent(t) == CASE t = "Green"  -> "Allowed"
                      [] t = "Yellow" -> "PendingReview"
                      [] t = "Red"    -> "Denied"

(* Where each verdict leads.  A decision is answered in observe mode too,  *)
(* whatever the verdict.                                                   *)
AfterVerdict(r, t) ==
    \/ Enforced(t) /\ t = "Yellow" /\ Goto(r, IF Server(r) THEN "lookup" ELSE "park")
    \/ Enforced(t) /\ t = "Red" /\ Answer(r, "denied")
    \/ ~Enforced(t) /\ Server(r) /\ Goto(r, "begin")
    \/ ~Enforced(t) /\ ~Server(r) /\ Answer(r, "allow")

(* Variant: decisions, being free of effects, leave no row.                *)
VerdictOfExecutionsLogged(r) ==
    /\ pc[r] = "verdict"
    /\ \E t \in TiersOf[call[r].payload] :
           /\ tier' = [tier EXCEPT ![r] = t]
           /\ IF Server(r)
              THEN TryAppend(Row(VerdictIntent(t), call[r].agent, call[r].id))
              ELSE UNCHANGED <<storeVars, dropped>>
           /\ AfterVerdict(r, t)
    /\ UNCHANGED <<proc, at, body, operatorVars, inputVars, sent, parker>>

(* Brain, policy, classification, and the verdict's row in the chain.      *)
Verdict(r) ==
    /\ pc[r] = "verdict"
    /\ \E t \in TiersOf[call[r].payload] :
           /\ tier' = [tier EXCEPT ![r] = t]
           /\ TryAppend(Row(VerdictIntent(t), call[r].agent, call[r].id))
           /\ AfterVerdict(r, t)
    /\ UNCHANGED <<proc, at, body, operatorVars, inputVars, sent, parker>>

(* Variant: any decided review resumes the call.                           *)
LookupDecided(r) ==
    /\ pc[r] = "lookup"
    /\ \/ pendings[call[r].id].decision \in {"allow", "deny"} /\ Goto(r, "begin")
       \/ pendings[call[r].id].decision = "undecided" /\ Answer(r, "pending")
       \/ pendings[call[r].id].decision = "absent" /\ Goto(r, "park")
    /\ UNCHANGED <<storeVars, proc, at, tier, body, operatorVars, inputVars, historyVars>>

(* A Yellow server execution first asks what became of an earlier park     *)
(* under its id, by whomever and for whatever payload.                     *)
Lookup(r) ==
    /\ pc[r] = "lookup"
    /\ \/ /\ \/ pendings[call[r].id].decision = "allow" /\ Goto(r, "begin")
             \/ pendings[call[r].id].decision = "deny" /\ Answer(r, "review_denied")
             \/ pendings[call[r].id].decision = "undecided" /\ Answer(r, "pending")
             \/ pendings[call[r].id].decision = "absent" /\ Goto(r, "park")
          /\ UNCHANGED body
       \/ StorageUnavailable(r)
    /\ UNCHANGED <<storeVars, proc, at, tier, operatorVars, inputVars, historyVars>>

(* Variant: a failed park still answers 202.                               *)
ParkAlways202(r) ==
    /\ pc[r] = "park"
    /\ \/ ParkTx(call[r].id, call[r].tenant, call[r].agent)
       \/ UNCHANGED storeVars
    /\ parker' = [parker EXCEPT ![call[r].id] = IF @ = NoValue THEN r ELSE @]
    /\ Answer(r, "pending")
    /\ UNCHANGED <<proc, at, tier, body, operatorVars, inputVars, sent, dropped>>

Park(r) ==
    /\ pc[r] = "park"
    /\ \/ /\ ParkTx(call[r].id, call[r].tenant, call[r].agent)
          /\ parker' = [parker EXCEPT ![call[r].id] = r]
          /\ Answer(r, "pending")
       \/ /\ pendings[call[r].id].decision # "absent" \/ StorageFaults
          /\ Answer(r, "park_failed")
          /\ UNCHANGED <<storeVars, parker>>
    /\ UNCHANGED <<proc, at, tier, body, operatorVars, inputVars, sent, dropped>>

(* The intent is committed before the upstream is contacted; the row is    *)
(* looked at again inside the transaction.                                 *)
Begin(r) ==
    /\ pc[r] = "begin"
    /\ \/ /\ BeginTx(Key(r), call[r].payload, at[r])
          /\ Goto(r, "send")
          /\ UNCHANGED body
       \/ AnswerFromRow(r) /\ UNCHANGED storeVars
       \/ StorageUnavailable(r) /\ UNCHANGED storeVars
    /\ UNCHANGED <<proc, at, tier, operatorVars, inputVars, historyVars>>

Send(r) ==
    /\ pc[r] = "send"
    /\ sent' = [sent EXCEPT ![r] = TRUE]
    /\ Goto(r, "await")
    /\ UNCHANGED <<storeVars, proc, at, tier, body, operatorVars, inputVars, parker,
                   dropped>>

UpstreamAnswers(r) ==
    /\ pc[r] = "await"
    /\ \E v \in Results : body' = [body EXCEPT ![r] = v]
    /\ Goto(r, "complete")
    /\ UNCHANGED <<storeVars, proc, at, tier, operatorVars, inputVars, historyVars>>

(* Variant: an upstream error removes the row so that clients can try again. *)
UpstreamErrorRetried(r) ==
    /\ pc[r] = "await"
    /\ executions' = [executions EXCEPT ![Key(r)].state = "missing"]
    /\ Answer(r, "uncertain")
    /\ UNCHANGED <<entries, outbox, pendings, proc, at, tier, body, operatorVars,
                   inputVars, historyVars>>

(* Connection error, timeout, oversized or malformed response: whether the *)
(* effect happened is unknown, and the row stays in flight.                *)
UpstreamError(r) ==
    /\ pc[r] = "await"
    /\ Answer(r, "uncertain")
    /\ UNCHANGED <<storeVars, proc, at, tier, body, operatorVars, inputVars, historyVars>>

(* Variant: the handler answers although the completion was refused.       *)
CompleteBestEffort(r) ==
    /\ pc[r] = "complete"
    /\ \/ CompleteTx(Key(r), call[r].payload, body[r])
       \/ StorageFaults /\ UNCHANGED storeVars
    /\ Answer(r, "executed")
    /\ UNCHANGED <<proc, at, tier, body, operatorVars, inputVars, historyVars>>

Complete(r) ==
    /\ pc[r] = "complete"
    /\ \/ /\ CompleteTx(Key(r), call[r].payload, body[r])
          /\ Answer(r, "executed")
       \/ /\ ~Completable(Key(r), call[r].payload) \/ StorageFaults
          /\ Answer(r, "completion_uncertain")
          /\ UNCHANGED storeVars
    /\ UNCHANGED <<proc, at, tier, body, operatorVars, inputVars, historyVars>>

(* The client disconnects and the handler is dropped at an await.          *)
Disconnect(r) ==
    /\ pc[r] \in HandlerSteps
    /\ pc' = [pc EXCEPT ![r] = "dead"]
    /\ UNCHANGED <<storeVars, proc, at, tier, reply, body, operatorVars, inputVars,
                   historyVars>>

------------------------------------------------------------------------------
(* The handler of POST /pending/{id}/decide.                               *)

Decide(o) ==
    LET c == order[o].id
        t == order[o].scope IN
    /\ opPc[o] = "idle"
    /\ \E i \in Instances : proc[i] = "up" /\ opAt' = [opAt EXCEPT ![o] = i]
    /\ \/ /\ DecideTx(c, t, order[o].decision)
          /\ opPc' = [opPc EXCEPT ![o] = "audit"]
       \/ /\ ~InScope(c, t)
          /\ opPc' = [opPc EXCEPT ![o] = "not_found"]
          /\ UNCHANGED storeVars
       \/ /\ InScope(c, t) /\ pendings[c].decision # "undecided"
          /\ opPc' = [opPc EXCEPT ![o] = "already_decided"]
          /\ UNCHANGED storeVars
       \/ /\ StorageFaults
          /\ opPc' = [opPc EXCEPT ![o] = "failed"]
          /\ UNCHANGED storeVars
    /\ UNCHANGED <<proc, handlerVars, inputVars, historyVars>>

DecisionIntent(d) == IF d = "allow" THEN "PendingApproved" ELSE "PendingDenied"

(* The second row of the audit, a separate ledger operation.               *)
Audit(o) ==
    /\ opPc[o] = "audit"
    /\ TryAppend(Row(DecisionIntent(order[o].decision),
                     pendings[order[o].id].agent, order[o].id))
    /\ opPc' = [opPc EXCEPT ![o] = "decided"]
    /\ UNCHANGED <<proc, handlerVars, opAt, inputVars, sent, parker>>

DisconnectOperator(o) ==
    /\ opPc[o] = "audit"
    /\ opPc' = [opPc EXCEPT ![o] = "dead"]
    /\ UNCHANGED <<storeVars, proc, handlerVars, opAt, inputVars, historyVars>>

------------------------------------------------------------------------------
(* Processes and time.                                                     *)

(* A process opens the file; a restart is another instance.                *)
Start(i) ==
    /\ proc[i] = "new"
    /\ Overlap \/ \A j \in Instances : proc[j] # "up"
    /\ proc' = [proc EXCEPT ![i] = "up"]
    /\ UNCHANGED <<storeVars, handlerVars, operatorVars, inputVars, historyVars>>

(* Crash or shutdown: the handlers of the process go with it.              *)
Crash(i) ==
    /\ proc[i] = "up"
    /\ proc' = [proc EXCEPT ![i] = "down"]
    /\ pc' = [r \in Requests |->
                 IF at[r] = i /\ pc[r] \in HandlerSteps THEN "dead" ELSE pc[r]]
    /\ opPc' = [o \in Operators |->
                 IF opAt[o] = i /\ opPc[o] = "audit" THEN "dead" ELSE opPc[o]]
    /\ UNCHANGED <<storeVars, at, tier, reply, body, opAt, inputVars, historyVars>>

(* 300 seconds have passed since the row was created.                      *)
Elapse(k) ==
    /\ executions[k].state = "in_flight"
    /\ ~executions[k].aged
    /\ executions' = [executions EXCEPT ![k].aged = TRUE]
    /\ UNCHANGED <<entries, outbox, pendings, proc, handlerVars, operatorVars, inputVars,
                   historyVars>>

(* One pass of the reconciler task of process i that finds something.      *)
Reconcile(i) ==
    /\ proc[i] = "up"
    /\ ReconcileTx(i)
    /\ UNCHANGED <<proc, handlerVars, operatorVars, inputVars, historyVars>>

------------------------------------------------------------------------------
HandlerStep(r) ==
    \/ Inspect(r) \/ Verdict(r) \/ Lookup(r) \/ Park(r) \/ Begin(r)
    \/ Send(r) \/ UpstreamAnswers(r) \/ UpstreamError(r) \/ Complete(r)

Next ==
    \/ \E r \in Requests : Arrive(r) \/ Refuse(r) \/ Throttle(r)
                               \/ HandlerStep(r) \/ Disconnect(r)
    \/ \E o \in Operators : Decide(o) \/ Audit(o) \/ DisconnectOperator(o)
    \/ \E i \in Instances : Start(i) \/ Crash(i) \/ Reconcile(i)
    \/ \E k \in Keys : Elapse(k)

Spec == Init /\ [][Next]_vars

(* Time passes and the reconciler loops every five seconds.  A client may  *)
(* stay away and a process may stay down, so nothing else is fair.         *)
Fairness ==
    /\ \A k \in Keys : WF_vars(Elapse(k))
    /\ \A i \in Instances : WF_vars(Reconcile(i))

FairSpec == Spec /\ Fairness

===============================================================================
