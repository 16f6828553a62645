------------------------------ MODULE Assessment ------------------------------
(***************************************************************************)
(* The verdict on a tool call in clavenar-lite: the heuristic brain        *)
(* (src/src/heuristics.rs), the velocity tracker and the policy engine     *)
(* (src/src/policy.rs) with the embedded rules (policies/governance.rego), *)
(* and their classification into tiers (src/src/proxy.rs).                 *)
(*                                                                         *)
(* A handler awaits the mutex of the tracker, then the one evaluation      *)
(* permit, then a blocking task that owns the permit, locks the engine,    *)
(* sets its input and evaluates three rules.  The client may disconnect at *)
(* each await; the blocking task runs on without its handler.              *)
(*                                                                         *)
(* Time is counted in ticks.  Scores are in hundredths, and reasons are    *)
(* named after their rules.                                                *)
(***************************************************************************)
EXTENDS Naturals, Sequences, FiniteSets

CONSTANTS
    Agents,           \* canonical tenant/agent keys
    Requests,
    Calls,            \* what a request may carry
    Window,           \* velocity_window_secs, in ticks
    Limit,            \* recent_request_limit
    Panics,           \* may an evaluation panic?
    NoValue

Tools == {"sql_execute", "shell_exec", "rm_rf", "drop_database", "exfiltrate",
          "bulk_export", "wire_transfer", "other"}

Call == [agent : Agents, tool : Tools, injected : BOOLEAN]

ASSUME AssessmentAssumption ==
    /\ Calls \subseteq Call
    /\ Window \in Nat /\ Limit \in Nat
    /\ Panics \in BOOLEAN
    /\ NoValue \notin Requests \cup Nat

VARIABLES
    now,              \* the monotonic clock
    hits,             \* the tracker's map: agents and the times of their hits
    swept,            \* history: when the map was last swept
    call,             \* what each request that has come carries
    pc,               \* where its handler stands
    hit,              \* history: the hit of each request, or NoValue
    count,            \* recent_request_count of its policy input
    permits,          \* evaluation_permit
    task,             \* its blocking task
    input,            \* the request whose input the engine holds
    locked, poisoned, \* the engine's mutex
    verdict           \* its policy decision

handlerVars == <<pc, hit, count>>
engineVars == <<permits, task, input, locked, poisoned, verdict>>
vars == <<now, hits, swept, call, handlerVars, engineVars>>

Rules == {"sql", "shell", "intent", "hours", "velocity", "unavailable"}

(* allow, the reasons and whether a review was asked for.                  *)
Decision == [allow : BOOLEAN, reasons : SUBSET Rules, review : BOOLEAN]

NoDecision == [allow |-> FALSE, reasons |-> {}, review |-> FALSE]

TypeOK ==
    /\ now \in Nat /\ swept \in Nat
    /\ DOMAIN hits \subseteq Agents
    /\ \A a \in DOMAIN hits : hits[a] \in Seq(0 .. now)
    /\ call \in [Requests -> Calls \cup {NoValue}]
    /\ pc \in [Requests -> {"idle", "queue", "await", "assessed", "dead"}]
    /\ hit \in [Requests -> Nat \cup {NoValue}]
    /\ count \in [Requests -> Nat]
    /\ permits \in {0, 1}
    /\ task \in [Requests -> {"none", "blocked", "evaluating", "over"}]
    /\ input \in Requests \cup {NoValue}
    /\ locked \in BOOLEAN /\ poisoned \in BOOLEAN
    /\ verdict \in [Requests -> Decision]

Init ==
    /\ now = 0 /\ swept = 0
    /\ hits = [a \in {} |-> <<>>]
    /\ call = [r \in Requests |-> NoValue]
    /\ pc = [r \in Requests |-> "idle"]
    /\ hit = [r \in Requests |-> NoValue]
    /\ count = [r \in Requests |-> 0]
    /\ permits = 1
    /\ task = [r \in Requests |-> "none"]
    /\ input = NoValue
    /\ locked = FALSE /\ poisoned = FALSE
    /\ verdict = [r \in Requests |-> NoDecision]

------------------------------------------------------------------------------
(* The brain.                                                              *)

DangerousTools == {"shell_exec", "sql_execute", "rm_rf", "drop_database", "exfiltrate"}

(* detect_injection: whether one of the needles is in the body.            *)
InjectionDetected(c) == c.injected

(* inspect: an injection outweighs a dangerous name.                       *)
IntentScore(c) ==
    CASE InjectionDetected(c) -> 90
      [] ~InjectionDetected(c) /\ c.tool \in DangerousTools -> 50
      [] ~InjectionDetected(c) /\ c.tool \notin DangerousTools -> 5

BrainAuthorized(c) == ~InjectionDetected(c) /\ c.tool \notin DangerousTools

------------------------------------------------------------------------------
(* The rules: the deny set, of which allow is the emptiness.               *)

Violations(c, n, businessHours) ==
    (IF c.tool = "sql_execute" THEN {"sql"} ELSE {})
    \cup (IF c.tool = "shell_exec" THEN {"shell"} ELSE {})
    \cup (IF IntentScore(c) >= 20 THEN {"intent"} ELSE {})
    \cup (IF c.tool = "bulk_export" /\ ~businessHours THEN {"hours"} ELSE {})
    \cup (IF n > Limit THEN {"velocity"} ELSE {})

(* evaluate_rego: allow, deny and review.                                  *)
Evaluate(c, n, businessHours) ==
    [allow   |-> Violations(c, n, businessHours) = {},
     reasons |-> Violations(c, n, businessHours),
     review  |-> c.tool = "wire_transfer"]

(* deny_with.                                                              *)
Unavailable == [allow |-> FALSE, reasons |-> {"unavailable"}, review |-> FALSE]

(* classify.                                                               *)
Tier(r) ==
    CASE ~BrainAuthorized(call[r]) \/ ~verdict[r].allow -> "Red"
      [] BrainAuthorized(call[r]) /\ verdict[r].allow /\ verdict[r].review -> "Yellow"
      [] BrainAuthorized(call[r]) /\ verdict[r].allow /\ ~verdict[r].review -> "Green"

------------------------------------------------------------------------------
(* The velocity tracker.                                                   *)

(* The deque without the hits at its front that are older than age.        *)
PopOlder(times, age) ==
    LET n == CHOOSE k \in 0 .. Len(times) :
                 /\ \A i \in 1 .. k : now - times[i] > age
                 /\ k < Len(times) => now - times[k + 1] <= age IN
    SubSeq(times, n + 1, Len(times))

(* Variant: a hit that is exactly one window old is out.                   *)
FreshOpen(times) == PopOlder(times, Window - 1)

(* The hits of a deque that the sweep leaves.                              *)
Fresh(times) == PopOlder(times, Window)

(* Variant: only the deque of the agent itself is swept.                   *)
KeptOwn(a) == DOMAIN hits \ {b \in {a} \cap DOMAIN hits : Fresh(hits[b]) = <<>>}

(* retain: agents without a fresh hit leave the map.                       *)
Kept(a) == {b \in DOMAIN hits : Fresh(hits[b]) # <<>>}

(* A call reaches evaluate and, under the mutex, record_and_count: sweep,  *)
(* push, count.  (If its client disconnects before, nothing has happened.) *)
RecordAndCount(r) ==
    /\ pc[r] = "idle"
    /\ \E c \in Calls :
           LET a == c.agent
               old == IF a \in Kept(a) THEN Fresh(hits[a]) ELSE <<>> IN
           /\ call' = [call EXCEPT ![r] = c]
           /\ hits' = [b \in Kept(a) \cup {a} |->
                  IF b = a THEN Append(old, now) ELSE Fresh(hits[b])]
           /\ count' = [count EXCEPT ![r] = Len(old) + 1]
    /\ swept' = now
    /\ hit' = [hit EXCEPT ![r] = now]
    /\ pc' = [pc EXCEPT ![r] = "queue"]
    /\ UNCHANGED <<now, engineVars>>

------------------------------------------------------------------------------
(* The engine.                                                             *)

(* The permit is acquired and moves into the blocking task.                *)
Spawn(r) ==
    /\ pc[r] = "queue"
    /\ permits = 1
    /\ permits' = 0
    /\ task' = [task EXCEPT ![r] = "blocked"]
    /\ pc' = [pc EXCEPT ![r] = "await"]
    /\ UNCHANGED <<now, hits, swept, call, hit, count, input, locked, poisoned, verdict>>

(* The task is over and its permit back; its handler, if there is one,     *)
(* goes on to classify the decision.                                       *)
Over(r, decision) ==
    /\ verdict' = [verdict EXCEPT ![r] = decision]
    /\ task' = [task EXCEPT ![r] = "over"]
    /\ permits' = 1
    /\ pc' = [pc EXCEPT ![r] = IF @ = "await" THEN "assessed" ELSE @]

(* Variant: the worker goes on with an engine that has failed, which still *)
(* holds the input it failed on.                                           *)
SetInputUnlessPoisoned(r) ==
    /\ task[r] = "blocked"
    /\ ~locked
    /\ locked' = TRUE
    /\ input' = IF poisoned THEN input ELSE r
    /\ task' = [task EXCEPT ![r] = "evaluating"]
    /\ UNCHANGED <<now, hits, swept, call, handlerVars, permits, poisoned, verdict>>

(* The task locks the engine and sets its input; a poisoned lock denies.   *)
SetInput(r) ==
    /\ task[r] = "blocked"
    /\ ~locked
    /\ \/ /\ ~poisoned
          /\ locked' = TRUE
          /\ input' = r
          /\ task' = [task EXCEPT ![r] = "evaluating"]
          /\ UNCHANGED <<permits, verdict, pc>>
       \/ /\ poisoned
          /\ Over(r, Unavailable)
          /\ UNCHANGED <<input, locked>>
    /\ UNCHANGED <<now, hits, swept, call, hit, count, poisoned>>

(* The rules are evaluated on the input the engine holds; the lock, then   *)
(* the permit, are released.  An engine that returns an error denies.  A   *)
(* panic does so too, poisons the lock, and reaches the handler as a       *)
(* failed worker.                                                          *)
FinishTask(r) ==
    /\ task[r] = "evaluating"
    /\ \/ /\ \E businessHours \in BOOLEAN :
                 Over(r, Evaluate(call[input], count[input], businessHours))
          /\ UNCHANGED poisoned
       \/ Over(r, Unavailable) /\ UNCHANGED poisoned
       \/ /\ Panics
          /\ Over(r, Unavailable)
          /\ poisoned' = TRUE
    /\ locked' = FALSE
    /\ UNCHANGED <<now, hits, swept, call, hit, count, input>>

(* Variant: the handler owns the permit and drops it with itself.          *)
DisconnectReleases(r) ==
    /\ pc[r] \in {"queue", "await"}
    /\ pc' = [pc EXCEPT ![r] = "dead"]
    /\ permits' = IF pc[r] = "await" THEN 1 ELSE permits
    /\ UNCHANGED <<now, hits, swept, call, hit, count, task, input, locked, poisoned, verdict>>

(* The handler is dropped at an await; its task runs on.                   *)
Disconnect(r) ==
    /\ pc[r] \in {"queue", "await"}
    /\ pc' = [pc EXCEPT ![r] = "dead"]
    /\ UNCHANGED <<now, hits, swept, call, hit, count, engineVars>>

Tick ==
    /\ now' = now + 1
    /\ UNCHANGED <<hits, swept, call, handlerVars, engineVars>>

RequestStep(r) ==
    \/ RecordAndCount(r) \/ Spawn(r) \/ SetInput(r) \/ FinishTask(r) \/ Disconnect(r)

Next == Tick \/ \E r \in Requests : RequestStep(r)

Spec == Init /\ [][Next]_vars

------------------------------------------------------------------------------
(* governance.rego:62-69: the circuit breaker.  In no window do more than  *)
(* Limit calls of an agent get a verdict without a velocity violation (or  *)
(* none at all): whatever is denied counts too, and so does the call at    *)
(* the very edge of the window.                                            *)
BreakerHolds ==
    \A a \in Agents : \A t \in 0 .. now :
        Cardinality({r \in Requests :
            /\ hit[r] # NoValue /\ call[r].agent = a
            /\ hit[r] \in t .. t + Window
            /\ task[r] = "over" /\ verdict[r].allow}) <= Limit

(* policy.rs:88-92: without the sweep "one-shot agent_ids accumulate       *)
(* forever".  As of the last call of anyone, the map holds exactly the     *)
(* agents that were heard of within the window, each with exactly its hits *)
(* of the window, so that its size follows the traffic and not the past.   *)
TrackerIsTheWindow ==
    \A a \in Agents :
        LET recent == {r \in Requests : /\ hit[r] # NoValue
                                        /\ call[r].agent = a
                                        /\ swept - hit[r] <= Window} IN
        /\ a \in DOMAIN hits <=> recent # {}
        /\ a \in DOMAIN hits => Len(hits[a]) = Cardinality(recent)

(* policy.rs:161-163: "The semaphore prevents a burst of requests from     *)
(* occupying Tokio's blocking pool while they wait."  There is a permit    *)
(* exactly when no blocking task exists: whatever clients disconnect and   *)
(* evaluations panic, there are never two tasks, and the permit is never   *)
(* lost, which would leave all later calls waiting.                        *)
PermitFollowsTask ==
    /\ (permits = 1) = (\A r \in Requests : task[r] \notin {"blocked", "evaluating"})
    /\ \A r, s \in Requests :
           /\ task[r] \in {"blocked", "evaluating"}
           /\ task[s] \in {"blocked", "evaluating"}
           => r = s

(* policy.rs:160: one engine is shared, and it keeps the input it was      *)
(* given last.  Whoever is let through was judged on its own call and its  *)
(* own count, never on those of another request, and never by an engine    *)
(* that has failed.                                                        *)
VerdictIsOwn ==
    \A r \in Requests : pc[r] = "assessed" /\ Tier(r) # "Red" =>
        \E businessHours \in BOOLEAN :
            /\ Violations(call[r], count[r], businessHours) = {}
            /\ verdict[r] = Evaluate(call[r], count[r], businessHours)

===============================================================================
