# clavenar-lite: specifications, model checking and proofs

This directory is a TLA+ development of clavenar-lite, the single-binary proxy
between AI agents and the tools they call. It models the parts of the program
whose correctness depends on interleavings, crashes, retries and partial
failures, checks them with TLC on small instances, and proves the properties
that matter most with TLAPS for every instance.

`file:line` references are to the repository: `proxy.rs` is `src/proxy.rs`,
and so on. `PROJECT.json` lists components, runs, hazards, findings, theorems,
and, under `map`, the source lines each definition stands for.

## 1. The system

An agent sends a tool call to `POST /mcp`. The proxy checks selectors, body and
token, applies a rate limit, scans the body (brain), evaluates policy, appends
the verdict to a hash-chained ledger, and then denies it (Red), parks it for a
human (Yellow), or lets it through (Green). A call that selects *durable server
execution* is forwarded to the upstream by the proxy; one that selects a
*decision* is only answered. Operators list parked calls and decide them with
`POST /pending/{id}/decide`. Everything durable is one SQLite file.

| Component | State | Operations | Interacts through |
|---|---|---|---|
| Gateway, `handle_mcp` (proxy.rs:1330-2007) | one handler per request, its position at an await, verdict, upstream body | arrive, throttle, inspect, verdict, look up review, park, begin, send, complete | ledger operations; HTTP to the upstream |
| Operators, `handle_decide_pending` (proxy.rs:1020-1204) | one handler per request | decide, audit | two separate ledger operations |
| Ledger (ledger.rs) | `entries`, `pendings`, `server_executions`, `server_execution_outbox` | append, inspect, begin, complete, reconcile, park, decide, verify, backup, listings | one SQLite connection behind one worker permit per process |
| Reconciler (ledger.rs:552-679) | none of its own | classify abandoned executions every 5 s | ledger |
| Processes (main.rs) | which run; an `instance_id` per `Ledger::open` | start, stop, crash | share the SQLite file, also while a successor starts |
| Rate limiter (rate_limit.rs) | token buckets under a mutex | check | called by the gateway |
| Policy, velocity tracker (policy.rs), brain (heuristics.rs) | per-agent window of hits; one shared engine behind a permit and a mutex | record and count, spawn, set input, evaluate | called by the gateway; a blocking task that outlives its handler |
| Control forwarding (proxy.rs:2034-2085), adapter (upstream_adapter.rs), pins (supply_chain.rs) | first tool list per agent, in memory | forward, check, pin or compare | HTTP to the upstream; ledger append |
| Notifications (proxy.rs:74-109, webhook.rs, slack.rs) | 32 permits of the process | start, drop, end | started by the handlers that park and decide |
| Callbacks (outbound_callback.rs, target_validation.rs) | a walk: target, targets seen, hops | validate, resolve and connect, redirect | one of the notifications; DNS and HTTP |
| Start-up (main.rs:811-1108), hosted safety (hosted_safety.rs), registries (proxy.rs:363-560) | configuration, registries, limiter | one check after another | everything above is built from it |
| Commands (main.rs) | files: ledger, journal, snapshot | backup, restore, verify, audit, reports | the ledger's files |

### What is hard

* **Interleaving.** Nothing is locked between two awaits of a handler. Two
  requests of one execution identity can both find "no such execution", wait
  for policy and review, and both reach `begin`; two operators can decide one
  row; a retry can meet the original anywhere.
* **Crashes.** The handler is dropped with its connection or with its process
  at every await, in particular between the committed intent, the attempt and
  its completion, and between a decision and its chain row.
* **Several processes.** The file outlives its process. A new process
  classifies what the old one left in flight, and during a rolling restart the
  old one may still be at work and complete the same execution.
* **Partial failure.** Any ledger operation can fail, some failures are only
  logged, and multi-step file handling can stop half way.
* **Detached work.** A policy evaluation and a notification go on after the
  handler that started them is gone; permits must follow the work.
* **Hostile answers.** Upstream catalogs, redirects and DNS answers may differ
  each time they are asked for, and responses return in any order.
* **Time.** An abandoned execution is classified only when it is old; checks
  of the rate limiter use clock readings older than the bucket's last refill.

### What must be right

* Durable execution: intent before attempt, at most one attempt per identity,
  a final and unique end, the retained answer is the upstream's.
* Review: nothing runs unauthorized; whoever is told "pending" has a row; one
  decision per row, told truthfully by the chain, after the review it decides.
* Ledger: rows are never rewritten; a decision or a completed execution never
  changes; the verifier locates a harmed row.
* Reconciler: abandoned executions are eventually classified.
* Assessment: the breaker counts every call of the window, the window is all
  that is remembered, nobody is judged on another call's input.
* Pins: an agent is never shown two catalogs without a row, and no row is a
  false alarm.
* Events: dropped only at the limit; what a partner is told is the decision;
  a callback stays on the list, outward and bounded.
* Start-up: a hosted server serves nobody without a token, separates agents
  from operators, and touches files of its mount only.
* Rate limiter: burst plus rate is an upper bound; a told wait suffices.
* Backup and restore: exit code 0 means what it says; failure leaves the old
  ledger or the new one.

`PROJECT.json` `hazards` lists these at their lines, with the property that
would catch each going wrong.

## 2. The modules

| Module | Role |
|---|---|
| `Ledger` | the four tables and one operator per transaction |
| `Gateway` (extends `Ledger`) | requests, operators, processes, reconciler, time: one action per await-to-await step |
| `AtMostOnce` | abstract specification of durable execution: phase, attempted, result per identity |
| `GatewayProperties` | the properties, and the refinement mapping `Promise == INSTANCE AtMostOnce WITH ...` |
| `MCGateway` | constants for TLC |
| `GatewayProofs`, `ReviewProofs` | theorems about `Ledger` and `Gateway`, and the refinement; `ReviewProofs` those on decisions, queues and the report |
| `Assessment`, `MCAssessment`, `AssessmentProofs` | brain, velocity window, policy engine, tiers: where `Gateway`'s verdict comes from |
| `ControlPlane`, `MCControlPlane`, `ControlPlaneProofs` | control requests, adapter, tool pins |
| `Targets` | URLs, allowlist, public addresses, as operators |
| `Delivery` (extends `Targets`), `MCDelivery`, `DeliveryProofs` | permits, events of a review, the walk of a callback |
| `StartUp`, `MCStartUp`, `StartUpProofs` | hosted checks, registries, limiter, the order of `run_start` |
| `RateLimit`, `MCRateLimit`, `RateLimitProofs` | the token buckets, their bounded instance, their proofs |
| `Chain` | linking of a row and the verifier's walk, as operators |
| `Restore` (extends `Chain`), `RestoreProofs` | `backup` and `restore` on files, with the proxy that writes them |

The modules meet at narrow places, and each takes the other's side as
nondeterministic: `Gateway` lets a verdict be any tier that `TiersOf` allows,
`Assessment` says which one it is; `Throttle` may happen at any arrival,
`RateLimit` says when; `Refuse` and the tenants of `Gateway` stand for the
registries of `StartUp`; `ControlPlane` and `Delivery` take a failed append or a
decided row from `Gateway` and `Ledger` as given.

An operator whose comment starts with "Variant" is a plausible bug in the
definition that follows it. No specification uses it: put in the definition's
place, it breaks the property that the definition upholds.

### Gateway and Ledger

*State.* `entries` is a sequence (seq is the position); `executions` maps an
identity `<<agent, id>>` to its row; `outbox` is a set of receipts; `pendings`
maps a correlation id to its row. `pc[r]` is the await at which request r's
handler stands, `at[r]` the process it runs in, `tier`, `reply`, `body` what it
knows and answered. `opPc`, `opAt` are the same for operators. `call` and
`order` are inputs and never change. `sent` (the handler contacted the
upstream), `parker` (whose park inserted the row) and `dropped` (rows whose
append failed) are history variables that no action reads. `Listed`, `Polled`,
`RecommendsEnforce` and `AwaitingStage` of `Ledger` are the queries: each runs
as one operation and changes nothing, so it is judged in every state.

*Atomicity.* A ledger operation runs alone on the connection worker
(`with_connection`, ledger.rs:307-343) and what it does in a transaction
commits or rolls back, so one operation is one action. Between two of them
anything may happen: a step of another handler, operator, reconciler or
process, `Disconnect`, `Crash`. `StorageFaults` lets every ledger operation
fail; the caller then does what the code does, which for verdict and audit
rows is to go on (`TryAppend`). Two processes that collide on one file (BUSY,
a UNIQUE violation of `seq`) see such a failure.

*Time.* `aged` stands for "created 300 s ago or more"; `Elapse` sets it at any
moment, so that a completion slower than the reconciler's cutoff is possible.

*Data.* A payload stands for route, method, tool and request digest; two calls
with different payloads have different digests. A verdict is any tier that
`TiersOf` allows the payload. Hashes, texts, headers and metrics are left out.

### RateLimit

A check is two actions: the clock is read outside the mutex
(rate_limit.rs:116), the map is pruned, refilled and charged inside it. Tokens
are counted in fractions and time in ticks so that everything is an integer;
the rounding of f64 is left out.

### Assessment

The clock is read under the tracker's mutex, so `RecordAndCount` is one action.
After it a handler queues for the permit (`Spawn`), its blocking task locks the
engine and sets the input (`SetInput`) and evaluates (`FinishTask`), which may
panic, or return an error and leave the engine sound. A disconnection takes the handler and not the task. The engine is
modelled with the input it *holds*, and the rules are evaluated on that. Rules
are those of `policies/governance.rego`; business hours are a choice. Body
scanning is a Boolean of the call.

### ControlPlane

A handler awaits the upstream (`Receive`), looks at the pins under their mutex
(`Observe`) and appends (`AppendDivergence`). Answers are records with the
members the adapter looks at; a definition's hash is a value. `rows` are the
SupplyChain rows; the field `of` (the request that caused it) is history.

### Targets and Delivery

A URL is what the `url` crate parses it into; an address is the tuple of its
octets or segments. A review is parked and decided by handlers of any process,
and each has a list of events to start, in the code's order, which a
disconnection or a crash cuts short. Each event takes a permit of its process
or is dropped. A callback is a walk: validate (with the allowlist of the
process that delivers, which may be another one than accepted the URL), resolve
and connect, then an end or a redirect. `visits` is history. Servers and
resolvers answer anything of `Locations` and `AnswerLists`, anew every time; a
lookup answers a list, whose length counts repetitions (`AnswersAccepted`) and
whose first member is taken without them (`Unique`, `Selected`). `decided` is the
row that `decide_pending` returned to the handler, from which the callback is made.

### StartUp

A configuration is a record of texts that are known by what their readers do
with them: a registry is a sequence of entries (blank, without colon, or key
and token), a token may be followed by white space, a path is a sequence of
components. Each check of `run_start` is an action that goes on or ends the
process; checks of the environment (policies load, the file opens, the port is
free) are choices. `HostedSafe` reads the texts, `AgentOf` and `ScopeOf` read
the state of the server: that the two agree is what the run checks.

### Chain and Restore

A hash is what is hashed, the previous hash followed by seq and body, which
makes it injective. A file is
`Missing`, `Unreadable` or a sequence of rows; the journal of the ledger is
`Missing` or the rows one reads through it. Each file operation of a command
is an action; it may fail where the code checks for failure (a source or a file
just written that does not open or cannot be walked included), and the command
may be killed between any two. Three assumptions come from the documentation and
the platform: the proxy is stopped during a restore (README.md:425), commands
run one at a time, and removing the journal does not fail in a directory in
which renaming works (main.rs:1255 ignores the error). A stopped proxy leaves
its journal behind: main.rs:524 ends the process while the reconciler task
holds the ledger, so the connection is never closed.

## 3. The runs

| Run | Question | Instance |
|---|---|---|
| `durable_retries` | Does durable execution keep its promise under retries, changed payloads, two overlapping processes, crashes, faults? | 3 requests on one identity, 2 payloads, 2 results, 2 processes |
| `reconcile_batch` | Does a pass over several executions leave each with its own receipt and row? Is every abandoned execution classified? (liveness, in observe mode) | 2 identities, batch of 2, 2 overlapping processes, faults |
| `human_review` | Is every attempt authorized, every 202 backed, each review decided once and told truthfully, seen by its own only, nothing lost? | 2 requests, 2 operators of 3 scopes who disagree, 2 tenants, all tiers, rate limits, faults |
| `control_plane` | Does a changed catalog always leave a row, and nothing else? | 3 requests, 2 tenants, 2 processes, 8 answers, faults |
| `assessment` | Does the breaker hold, is the map the window, does the permit follow its task, is each verdict its own? | 3 requests, 2 agents, window and limit 1, 4 ticks, panics |
| `delivery` | Do permits come back, callbacks tell the decision, walks stay on the list and within their bounds? | 1 review (4 events), 2 permits, 3 hops over 5 allowed targets, 2 processes with different allowlists |
| `start_up` | Does a hosted server serve only whom, and touch only what, it should? | all combinations of 5 x 5 single tokens, 43 agent and 31 operator registries; 7 x 5 limits; all paths of up to 3 components |
| `rate_limits` | Burst plus rate, sufficient waits, idle pruning | 4 checks of 2 agents, map at its cap, 5 ticks |
| `restore` | Are exit codes right, restores atomic, harm located? | 3 rows |
| `decision_retry`, `approval_binding`, `restore_cut_off` | counterexamples, section 5 | smallest instance that shows them |

### What the properties say

* `AtMostOneAttempt`, `IntentBehindAttempt`: of all requests with one identity
  at most one contacts the upstream, and the committed intent, in table and in
  chain, is behind it and carries its payload.
* `OneTerminalStage`: table, outbox and chain agree on the end of an
  execution and show at most one, although completion and reconciliation race
  (`durable_retries`), and for every row of a batch (`reconcile_batch`).
* `ResultsAreTheUpstreams`: whoever is told a result, first or by replay, is
  told what the one sender received for the same payload, and the row retains it.
* `KeepsPromise`: the gateway implements `AtMostOnce`.
* `AbandonedAreClassified`: if some process eventually stays up, an execution
  of a dead process is eventually classified. An execution whose completion
  failed in a process that lives on is not covered: the code never classifies
  a process's own rows.
* `AttemptIsAuthorized`: in enforce mode an attempt is Green, or Yellow with a
  standing approval of its id.
* `PendingIsBacked`: whoever was told "pending" can poll and decide.
* `OneDecider`: a decided review was decided by exactly one operator who may,
  as that one asked; once answered, the chain tells it or the append failed.
* `AuditTellsTheDecision`, `DecisionFollowsReview`: at most one decision row
  per id, it agrees with the table, and it follows its review unless the append
  of that review failed.
* `QueueIsTheWork`: the queue of each scope holds just the reviews parked for it
  that nobody has decided, and a poll tells the agent that parked, and nobody
  else, what was decided.
* `GraduationIsTruthful`: when the report calls enforcement safe, nothing was
  denied, parked or throttled, unless the append of that verdict failed.
* `LedgerOnlyGrows`: no step rewrites the chain, forgets or rebinds an
  execution, touches a completed one, or changes a decision.
* `BreakerHolds`: in no window do more than the limit of an agent's calls get
  through, the edge of the window included. `TrackerIsTheWindow`: the map holds
  the hits of the window and nothing older, for every agent.
* `PermitFollowsTask`: there is a permit exactly when no evaluation runs or
  waits for the engine. `VerdictIsOwn`: who is let through was judged on its own
  call and count, not on what a failed evaluation left in the engine.
* `UnrecordedAgree`, `AlarmIsTrue`: of the catalogs one process shows an agent,
  those without a row are equal; a row's lines are the difference between two
  catalogs that agent really got.
* `PermitsAreConserved`, `DropsOnlyAtLimit`: permits add up with the events under
  way, however these end, and an event is dropped only while as many others are
  under way as there are permits. That an event does end is its time limit
  (slack.rs:53, webhook.rs:80, outbound_callback.rs:32) and nothing more, so no
  property says it.
* `CallbackTellsDecision`, `HopsStayAllowed`, `NeverInward`, `WalkIsBounded`: a
  partner is told the standing decision, and not after a 303; every hop is on the
  list of the process that makes it and never goes from https back to http; the
  address connected to was among answers that are all public, judged by the
  blocks of the contract rather than by the code's comparisons; no more requests
  than hops allow, and no target twice.
* `HostedIsClosed`, `DutiesAreSeparate`, `TokensNameOneIdentity`,
  `HostedTouchesOnlyTheMount`: what validation of the texts is for, stated of the
  running server: no identity without a long token, no bearer both agent and
  operator, each token exactly its entry's identity, and no file opened by a
  configuration the hosted checks refuse, or outside of the mount. A registry or
  callback setting that is refused later has had the ledger opened.
* `BurstPlusRate`: the checks of one agent that were asked and allowed inside
  an interval number at most the burst plus the interval's refill. An older
  clock reading is counted in every interval that holds both reading and
  decision, which is the strongest bound the unordered readings allow.
* `WaitingSuffices`: who waits as told is refused again only if the agent
  spent a token meanwhile.
* `BucketsStay`: pruning removes nothing. It tests the level the last check
  stored, and a check always stores less than the capacity. So pruning gives
  nobody a fresh burst, and also does not bound the map.
* `BackupIsConsistent`, `SuccessIsTheSnapshot`: exit code 0 of a backup or a
  restore means what it says. `OnlyValidSnapshotsLand`: a harmed snapshot is
  refused before anything is touched. `CleanRestoreIsAtomic`: with a
  checkpointed journal the ledger is the old one or the new one at every
  moment. `VerifierLocatesHarm`: the walk points at the harmed row.

### Bounds, and why they are enough

One identity shows every race of retries, since rows of different identities
share only the chain; two identities are needed, and used, for batches. Three
requests are the original, its retry and a late one; each may be any of the
calls of the configuration. Two processes are a process and its successor, the
smallest number for which "another instance" exists. Two operators who
disagree, plus scopes of both tenants and the unscoped operator, show every
order of decisions on a row.

In `control_plane` three lists let the pin, a comparison and a competing agent
of the same name happen in any order, on both sides of a restart. In
`assessment` a limit of one makes the second call of a window one too many and
the third the one at the edge; `Horizon` is the last tick, two windows after the
first hit. In `delivery` two permits for four events make the gate full with two
events under way; with three hops, walks reach a loop and a downgrade after an
upgrade, and five allowed targets are one more than three hops may visit, so that
it is the count of hops, and not the lack of new targets, that stops a walk. `start_up` enumerates
configurations, so its bound is which ones: registries of up to two entries show
everything that relates two entries.

There is no bound on steps: every request and
operator acts once and executions age once, so the state spaces are finite. In
`rate_limits`, `Horizon` is the last tick and lies one beyond the longest told
wait; a cap of one bucket makes every second agent meet pruning. In `restore`,
`MaxRows` is the number of rows ever appended: three give the harmed row a
predecessor and a successor.

Symmetry is used where the run has only invariants and action properties, over
requests, operators, processes, results or agents that the configuration does
not tell apart. `reconcile_batch` checks liveness and uses none, and in
`delivery` the two processes have different allowlists.

`CHECK_DEADLOCK FALSE`: requests, operators, processes, ticks and rows are
finite in an instance, so a run ends when all have acted. No part of the system
waits for another part: a handler that cannot go on answers.

### Fairness

One specification assumes any, `FairSpec` of `Gateway`: `WF(Elapse)`, time
passes; and `WF(Reconcile(i))`, the task loops every five seconds while its
process is up (ledger.rs:555-577). Clients, operators, handlers and starts are
not fair: a client may stay away and a process may stay down, hence the premise
that some process eventually stays up.

## 4. What is proved

The proofs hold for any number of requests, operators, processes, tenants,
agents, ids, payloads and results, with and without faults and overlap. They
rest on the named assumptions of the modules (`LedgerAssumption`,
`GatewayAssumption` and so on), which type the constants and keep markers such
as `NoValue` apart from values; finiteness of the sets is not assumed.

Every invariant and every action property that a passing run checks is proved,
and so is the refinement.

`GatewayProofs` first shows of every ledger operation that it keeps the tables
well typed (`LedgerTypeOK`) and takes nothing back (`NothingLost`). It then
builds five inductive invariants on one another:

1. `TypeInv`: `TypeOK`, and that a handler about to audit has a pendings row,
   since the audit row is typed from it. Gives `TypeCorrect`; with the lemmas on
   operations, `LedgerGrows`.
2. `ExecutionInv` adds `SentAfterBegin` (who sent has passed `begin`),
   `CommittedIsStored` (who passed `begin` finds its row and its intent
   entry committed, with its payload) and `OneCommitted` (at most one request
   per identity is past `begin`). `AtMostOneAttempt` alone is not inductive: it
   says nothing of two requests that are both about to send. Gives
   `AttemptsAreUnique` and `IntentsComeFirst`.
3. `ReviewInv` adds `ClearedIsAuthorized` (who is past the review is Green,
   unenforced or approved) and `LookupIsYellow`; the approval was read some
   awaits before the attempt, and stands because a decision never changes.
   Gives `AttemptsAreAuthorized` and `PendingsAreBacked`.
4. `StageInv` says of each key what table, outbox and chain tell: the state of
   the row, the receipts and stage rows that go with it (`StageIsTold`), and that
   terminal rows occur once (`TerminalOnce`). A step that begins, completes or
   reconciles moves all three in one transaction; every other step adds no stage
   row (`ExecutionsRest`). Gives `EndsAreUnique`.
5. `ResultInv` ties a completed row to the request that sent it
   (`CompletedIsSent`) and a told result to the row (`ToldIsStored`).
   `ResultsAreTheUpstreams` alone is not inductive, because an execution is
   completed before anybody is told. Gives `ResultsAreTrue`.

`PromiseIsKept` is the refinement `Spec => Promise!ASpec`: `Begin` is the
promise's `Intend`, `Send` its `Attempt`, `Complete` its `Settle` and a reconciler's
pass its `GiveUp`, one lemma each; every other step is a stutter of the promise.
It uses `ExecutionInv` for the attempt and `StageInv` and `ResultInv` for the end.

`ReviewProofs` adds `DecisionInv`: `OneDecider` and
`AuditTellsTheDecision` with `RowsAreTheDeciders`, that every decision row of
the chain belongs to an operator whose handler has finished. Without it the
audit step could add a second row. Every step is a committed decision, an audit,
or `Quiet`: it neither decides nor adds a decision row (`RequestStepIsQuiet`,
`OtherStepIsQuiet`). A decision finds its row undecided, hence without decider
and rows; an audit is made by the only decider, whose row cannot be there yet.
Gives `DecisionsAreMadeOnce` and `AuditIsTruthful`.
On top of it `QueueInv` says whose each pendings row is (`ParkerOwns`), and that
whatever is parked, denied or throttled has a row in the chain or a failed append
(`ParkIsTold`, `VerdictIsTold`); the review is told before the row of the queue is
inserted, which orders it before its decision. Gives `DecisionsFollowReviews`,
`QueuesAreTheWork` and `GraduationIsTrue`.

`AssessmentProofs`: `EngineInv` says that the permit is out exactly while one
task is blocked or evaluating, that the lock is held exactly while one
evaluates, that this one's input is in the engine, and that a finished verdict
that allows was made from its own input. Gives `PermitIsConserved` and
`VerdictsAreOwn`.
`TrackerInv` matches the hits of each deque one by one with the requests behind
them, in order; that popping from the front leaves exactly the young ones is
`PopLeavesTheYoung`. Gives `MapFollowsTheWindow`. `LastCountsAll` says that of the
calls of an agent in a window one has counted them all; had more than the limit
got through, that one would not have. Gives `BreakerIsSound`.

`ControlPlaneProofs`: `PinInv` ties each pin to a request of that agent and
process whose answer it is the catalog of, each handler beyond `Observe` to the
comparison it made, and each row to the pin at the time. A pin never changes
while its process lives, which is what makes the lines computed before the
append right after it. Gives `DriftIsRecorded` and `RowsAreNoFalseAlarms`.

`StartUpProofs`: `Reached` says, for every step of `run_start`, what the checks
before it have established of options and state. That validation (which reads
texts) implies what the server (which reads registries) does is shown by
lemmas on the parsers: `RegistryTells`, `RegistryIsConfigured`,
`StrangersAreNobody`. Gives `HostedServesTheKnown`, `HostedSeparatesDuties` and
`TokensAreUnambiguous`, for every set of configurations. With
`OpenedWhenChecked`, and since nothing is taken back in a path without `..`
(`AllLast`), it gives `HostedStaysOnTheMount`.

`RateLimitProofs` shows `LimiterTypeCorrect` and, with `StoredBelowFull` (no
stored level is full), `PruningIsIdle`. `BurstPlusRate` speaks of intervals and
the code of one level, so `AccountInv` keeps an account for every possible start
`s` of an interval: what was taken by checks asked since `s`, and what is left,
is at most one full bucket and the refill since `s` (`LevelsAccount`). A check
with an old reading joins only accounts that begin before it was asked, and its
bucket was refilled later than that, which is why unordered readings do no
harm. Gives `RateIsKept`. `WaitInv` adds that a refused agent that was not served
since has a token by the end of the told wait (`WaitsAreEnough`). Gives
`WaitsSuffice`.

`DeliveryProofs`: `PermitInv` says that what a handler has still to do has not
been started by anyone, and that free permits and events under way add up. Gives
`PermitsComeBack` and `DropsAreForced`. `WalkInv` adds that the target of a walk is in
normal form, allowed by the process that delivers and among the targets seen,
with what is told and how many requests were made. Gives `DeliveryTypes`,
`CallbackIsTrue`, `HopsAreAllowed` and `WalksEnd`. `RequestsGoOutside` needs two
facts about addresses: what the code's comparisons call public lies in no block
that the contract excludes (`PublicIPv4IsOutside`, `PublicIPv6IsOutside`, by
arithmetic on octets and segments), and a set of answers has a first one
(`SelectedIsAnAnswer`, from the well-ordering of the naturals, component by
component).

`RestoreProofs`, for ledgers of any length: `CommandInv` types the files and says
which command runs at which step. `BackupInv` keeps the rows at the start a
prefix of the snapshot and the snapshot a prefix of the ledger, which only grows
while it is copied. `RestoreInv` says what is verified, copied and removed at each
step, and that a ledger without journal reads as before or as the snapshot. They
give `BackupsAreConsistent`, `SuccessIsComplete`, `CleanRestoresAreAtomic` and
`InvalidNeverLands`. `HarmInv` says that every file but a harmed snapshot holds
rows that `Appended` wrote (`Written`), so that the first row at which links, hash
and version of a harmed snapshot disagree is the harmed one, or the one that now
stands in place of the lost one (`AlteredIsLocated`, `NewerIsLocated`,
`LostIsLocated`); rows lost at the end leave nothing to point at. Gives
`HarmIsLocated`.

Assumptions worth knowing: `NoValue` is no request, tier or count; an instance's
`Allowlist` is a set of parsed URLs; `RestoreAssumption` keeps the markers of
missing and unreadable files apart from files. No assumption says that anything
is finite: that the allowed checks, or the events under way, are finite is part
of an invariant.

Model-checked only: the liveness property `AbandonedAreClassified`, since liveness under fairness is out of the prover's reach, and
the violations of section 5.

## 5. Findings

Each is a run that states what a document or comment of the repository says and
finds it violated by what the code does.

* `decision_retry`: a decision request resent under its idempotency id while
  the first is parked fails with 500 (proxy.rs:1713).
* `approval_binding`: an approved park clears whatever payload comes next under
  its id (proxy.rs:1659).
* `restore_cut_off`: a restore that fails at its rename has already removed the
  journal of the ledger it leaves in place, and the committed rows in it
  (main.rs:1255).

Seen while modelling, and stated by the models as they are:

* The decision and its chain row are two ledger operations (proxy.rs:1057 and
  1129). A crash or disconnection between them leaves a decided row that the
  chain never mentions; `OneDecider` therefore promises the row only for
  operators who were answered.
* What an interrupted backup leaves behind is an empty file, which verifies as
  a chain of no rows and is restored (ledger.rs:738). `OnlyValidSnapshotsLand`
  counts it as valid.
* A Yellow server execution is told "pending", and resumes, by the row of its
  correlation id, whichever tenant parked it (proxy.rs:1653-1697).
* A single token followed by white space passes hosted validation, which trims
  it (hosted_safety.rs:153), and is never matched, because it is compared
  untrimmed (main.rs:886, proxy.rs:453).
* A hosted server may be started with an agent registry and a single decide
  token. That operator's scope is the legacy tenant, which no registered agent
  has, so nothing that is parked can be decided.
* `total_requests` of the graduation report counts every row of the chain,
  stages and decisions included (ledger.rs:1053-1122).
* The reconciler runs, and may classify, before the port is bound (main.rs:1040):
  a process that then fails to bind has already written.

## 6. Not modelled, and why

* Policies from a directory and the Rego interpreter; the substring search of
  the brain. Library code and data; the embedded rules are modelled.
* Webhooks of verdicts without a review share the permit gate; they add events
  to it, not behaviour.
* Schema migrations of an older file, `LIMIT` and order of listings, time
  windows and the per-agent breakdown of the report, its canonical bytes and
  signature, the audit and regulatory exports, argument parsing: formatting or
  library code over operations that are modelled.
* Body limits, headers, IPv6 literals as callback hosts, the text of URLs.
* HTTP, DNS, TLS, SQLite and the file system are the environment; SQLite is
  assumed to commit and roll back transactions as documented.

## 7. Plan

Modelled: every component of section 1, with the limits of section 6.

Proved: every safety property of the passing runs, and the refinement.

Left: the assumption that a Gateway verdict is any tier of `TiersOf` could be
discharged against `Assessment`, and the answers of `Throttle` against `RateLimit`,
by composing the modules; of the code, the schema migration of an older file and
the per-agent breakdown of the report.
