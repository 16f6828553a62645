-------------------------------- MODULE Ledger --------------------------------
(***************************************************************************)
(* The SQLite file of clavenar-lite (src/src/ledger.rs): the hash-chained  *)
(* `entries`, the `pendings` of human review, and the `server_executions`  *)
(* and `server_execution_outbox` tables of durable server execution.       *)
(*                                                                         *)
(* Every operation of the ledger runs alone on the one connection worker   *)
(* (with_connection), and what it does in a transaction commits or rolls   *)
(* back as a whole, so each one is a single action on the four tables.     *)
(* The caller decides what to do when one fails.                           *)
(*                                                                         *)
(* The chain is the sequence of its rows: seq is the position.  Hashes and *)
(* texts are left out; the request digest is the payload itself.           *)
(***************************************************************************)
EXTENDS Naturals, Sequences, FiniteSets, Functions

CONSTANTS
    Tenants,          \* tenants of the agent and operator registries
    Agents,           \* agent ids, unique only within a tenant
    Ids,              \* correlation ids = client idempotency ids
    Payloads,         \* route, method, tool and digest of a request
    Results,          \* what the upstream may answer (status and body)
    Instances,        \* processes; each Ledger::open mints a fresh instance_id
    NoValue,          \* SQL NULL
    ReconcileBatch    \* LIMIT of one reconciliation pass

ASSUME LedgerAssumption ==
    /\ NoValue \notin Tenants \cup Agents \cup Payloads \cup Results \cup Instances
    /\ ReconcileBatch \in Nat \ {0}

VARIABLES
    entries,          \* the forensic chain, oldest row first
    executions,       \* server_executions, by primary key
    outbox,           \* server_execution_outbox
    pendings          \* pendings, by correlation id

storeVars == <<entries, executions, outbox, pendings>>

(* PRIMARY KEY (agent_id, idempotency_id); execution_id is a hash of it.   *)
Keys == Agents \X Ids

(* intent_category; the three Red categories differ only in wording.       *)
VerdictIntents == {"Allowed", "PendingReview", "Denied"}
DecisionIntents == {"PendingApproved", "PendingDenied"}
StageIntents == {"ServerExecutionIntent", "ServerExecutionCompleted",
                 "ServerExecutionUncertain"}
Intents == VerdictIntents \cup DecisionIntents \cup StageIntents
               \cup {"RateLimitDenied"}

(* A rate-limit row carries the canonical tenant/agent key as its agent.   *)
Entry == [intent : Intents, agent : Agents \cup (Tenants \X Agents), corr : Ids]

(* state "missing" stands for the absent row.  aged says that created_at   *)
(* lies 300 seconds or more in the past.                                   *)
Execution == [state  : {"missing", "in_flight", "completed"},
              recon  : {"none", "pending", "resolved", "uncertain"},
              digest : Payloads \cup {NoValue},
              owner  : Instances \cup {NoValue},
              aged   : BOOLEAN,
              result : Results \cup {NoValue}]

(* decision "absent" stands for the absent row, "undecided" for NULL.      *)
Pending ==
    [decision : {"absent"}, tenant : {NoValue}, agent : {NoValue}]
    \cup [decision : {"undecided", "allow", "deny"}, tenant : Tenants, agent : Agents]

Receipt == [key : Keys, stage : {"completed", "uncertain"}]

LedgerTypeOK ==
    /\ entries \in Seq(Entry)
    /\ executions \in [Keys -> Execution]
    /\ outbox \subseteq Receipt
    /\ pendings \in [Ids -> Pending]

(* init_schema on a new file.                                              *)
LedgerInit ==
    /\ entries = <<>>
    /\ executions = [k \in Keys |->
           [state |-> "missing", recon |-> "none", digest |-> NoValue,
            owner |-> NoValue, aged |-> FALSE, result |-> NoValue]]
    /\ outbox = {}
    /\ pendings = [c \in Ids |->
           [decision |-> "absent", tenant |-> NoValue, agent |-> NoValue]]

------------------------------------------------------------------------------
(* The chain: the next seq is the last one plus one.                       *)

Row(intent, agent, corr) == [intent |-> intent, agent |-> agent, corr |-> corr]

(* Variant: the whole key is written where the agent id belongs.           *)
StageRowByKey(intent, k) == Row(intent, k, k[2])

StageRow(intent, k) == Row(intent, k[1], k[2])

AppendRow(row) == entries' = Append(entries, row)

------------------------------------------------------------------------------
(* Durable server execution.                                               *)

(* What a request for key k with payload p finds.  The payload is compared *)
(* before the state, so a changed request conflicts whatever became of the *)
(* original.                                                               *)
InspectOutcome(k, p) ==
    CASE executions[k].state = "missing"   -> "missing"
      [] executions[k].state # "missing" /\ executions[k].digest # p -> "conflict"
      [] executions[k].state = "completed" /\ executions[k].digest = p -> "completed"
      [] executions[k].state = "in_flight" /\ executions[k].digest = p -> "uncertain"

(* Variant: the row is inserted without the second look inside the         *)
(* transaction (INSERT OR REPLACE on the primary key).                     *)
BeginWithoutInspect(k, p, i) ==
    /\ executions' = [executions EXCEPT ![k] =
           [state |-> "in_flight", recon |-> "pending", digest |-> p,
            owner |-> i, aged |-> FALSE, result |-> NoValue]]
    /\ AppendRow(StageRow("ServerExecutionIntent", k))
    /\ UNCHANGED <<outbox, pendings>>

(* Variant: the intent row of the chain is written best effort, outside    *)
(* the transaction.                                                        *)
BeginWithoutIntentRow(k, p, i) ==
    /\ InspectOutcome(k, p) = "missing"
    /\ executions' = [executions EXCEPT ![k] =
           [state |-> "in_flight", recon |-> "pending", digest |-> p,
            owner |-> i, aged |-> FALSE, result |-> NoValue]]
    /\ UNCHANGED <<entries, outbox, pendings>>

(* begin_server_execution when the row is missing: the marker and the      *)
(* first chain stage in one transaction.                                   *)
BeginTx(k, p, i) ==
    /\ InspectOutcome(k, p) = "missing"
    /\ executions' = [executions EXCEPT ![k] =
           [state |-> "in_flight", recon |-> "pending", digest |-> p,
            owner |-> i, aged |-> FALSE, result |-> NoValue]]
    /\ AppendRow(StageRow("ServerExecutionIntent", k))
    /\ UNCHANGED <<outbox, pendings>>

(* UNIQUE (execution_id) of the outbox.                                    *)
OutboxFree(k) == \A s \in {"completed", "uncertain"} :
                     [key |-> k, stage |-> s] \notin outbox

(* Variant: the outbox is unique per event id, which differs by stage.     *)
CompletableByStage(k, p) ==
    /\ executions[k].state = "in_flight"
    /\ executions[k].digest = p
    /\ [key |-> k, stage |-> "completed"] \notin outbox

(* The UPDATE changes exactly one row and the outbox INSERT is accepted;   *)
(* otherwise complete_server_execution rolls back.  reconciliation_state   *)
(* is not part of the WHERE clause: after a reconciliation it is the       *)
(* outbox that refuses.                                                    *)
Completable(k, p) ==
    /\ executions[k].state = "in_flight"
    /\ executions[k].digest = p
    /\ OutboxFree(k)

CompleteTx(k, p, v) ==
    /\ Completable(k, p)
    /\ executions' = [executions EXCEPT ![k] =
           [@ EXCEPT !.state = "completed", !.recon = "resolved", !.result = v]]
    /\ outbox' = outbox \cup {[key |-> k, stage |-> "completed"]}
    /\ AppendRow(StageRow("ServerExecutionCompleted", k))
    /\ UNCHANGED pendings

(* Variant: the owner test is inverted.                                    *)
ReconcilableOwn(i) ==
    {k \in Keys : /\ executions[k].state = "in_flight"
                  /\ executions[k].recon = "pending"
                  /\ executions[k].aged
                  /\ executions[k].owner = i}

(* Rows instance i may classify: old enough, and begun by another process. *)
Reconcilable(i) ==
    {k \in Keys : /\ executions[k].state = "in_flight"
                  /\ executions[k].recon = "pending"
                  /\ executions[k].aged
                  /\ executions[k].owner \notin {NoValue, i}}

(* The rows one pass selects: all, or the LIMIT's worth of them.           *)
Batches(i) ==
    {K \in SUBSET Reconcilable(i) :
         /\ K # {} /\ IsFiniteSet(K)
         /\ Cardinality(K) <= ReconcileBatch
         /\ K = Reconcilable(i) \/ Cardinality(K) = ReconcileBatch}

(* Variant: only the first row of the batch gets its outbox row.           *)
ReconcileFirstReceipt(i) ==
    \E K \in Batches(i) : \E order \in Bijection(1 .. Cardinality(K), K) :
        /\ executions' = [k \in Keys |->
               IF k \in K THEN [executions[k] EXCEPT !.recon = "uncertain"]
                          ELSE executions[k]]
        /\ outbox' = outbox \cup {[key |-> order[1], stage |-> "uncertain"]}
        /\ entries' = entries \o [n \in 1 .. Cardinality(K) |->
                                    StageRow("ServerExecutionUncertain", order[n])]
        /\ UNCHANGED pendings

(* One pass: every selected row turns uncertain, with its outbox row and   *)
(* its chain row, or the whole transaction rolls back.                     *)
ReconcileTx(i) ==
    \E K \in Batches(i) : \E order \in Bijection(1 .. Cardinality(K), K) :
        /\ \A k \in K : OutboxFree(k)
        /\ executions' = [k \in Keys |->
               IF k \in K THEN [executions[k] EXCEPT !.recon = "uncertain"]
                          ELSE executions[k]]
        /\ outbox' = outbox \cup {[key |-> k, stage |-> "uncertain"] : k \in K}
        /\ entries' = entries \o [n \in 1 .. Cardinality(K) |->
                                    StageRow("ServerExecutionUncertain", order[n])]
        /\ UNCHANGED pendings

------------------------------------------------------------------------------
(* Human review.                                                           *)

(* park_pending: a plain INSERT, refused by the primary key when the id is *)
(* already there.                                                          *)
ParkTx(c, t, a) ==
    /\ pendings[c].decision = "absent"
    /\ pendings' = [pendings EXCEPT ![c] =
           [decision |-> "undecided", tenant |-> t, agent |-> a]]
    /\ UNCHANGED <<entries, executions, outbox>>

(* The row an operator of scope t can see; NoValue is the unscoped         *)
(* single-user operator.                                                   *)
InScope(c, t) ==
    /\ pendings[c].decision # "absent"
    /\ t \in {NoValue, pendings[c].tenant}

(* Variant: without the check of the earlier decision.                     *)
DecideOver(c, t, d) ==
    /\ InScope(c, t)
    /\ pendings' = [pendings EXCEPT ![c].decision = d]
    /\ UNCHANGED <<entries, executions, outbox>>

(* Variant: the SELECT forgets the operator's tenant.                      *)
DecideAnyTenant(c, t, d) ==
    /\ pendings[c].decision = "undecided"
    /\ pendings' = [pendings EXCEPT ![c].decision = d]
    /\ UNCHANGED <<entries, executions, outbox>>

(* decide_pending_scoped: the read and the guarded UPDATE run in one       *)
(* worker operation.                                                       *)
DecideTx(c, t, d) ==
    /\ InScope(c, t)
    /\ pendings[c].decision = "undecided"
    /\ pendings' = [pendings EXCEPT ![c].decision = d]
    /\ UNCHANGED <<entries, executions, outbox>>

------------------------------------------------------------------------------
(* The queries.  Each runs as one operation and changes nothing.           *)

(* Variant: the listing takes the tenant for a label, not for a filter.    *)
ListedEverywhere(filter, t) ==
    {c \in Ids : /\ pendings[c].decision # "absent"
                 /\ filter = "parked" => pendings[c].decision = "undecided"
                 /\ filter = "decided" => pendings[c].decision # "undecided"}

(* list_pendings and list_pendings_for_tenant, below their LIMIT.          *)
Listed(filter, t) ==
    {c \in Ids : /\ InScope(c, t)
                 /\ filter = "parked" => pendings[c].decision = "undecided"
                 /\ filter = "decided" => pendings[c].decision # "undecided"}

(* What an agent's poll is told: the row of exactly its tenant and name.   *)
Polled(c, t, a) ==
    IF pendings[c].decision = "absent" \/ pendings[c].tenant # t \/ pendings[c].agent # a
    THEN "not_found"
    ELSE CASE pendings[c].decision = "undecided" -> "pending"
           [] pendings[c].decision = "allow"     -> "approved"
           [] pendings[c].decision = "deny"      -> "denied"

RowsOf(intents) == {n \in DOMAIN entries : entries[n].intent \in intents}

WouldDeny == RowsOf({"Denied", "RateLimitDenied"})
WouldPend == RowsOf({"PendingReview"})

(* Variant: what would be parked is thought to need no attention.          *)
RecommendsUnlessDenied(valid) == valid /\ entries # <<>> /\ WouldDeny = {}

(* The graduation report over the whole chain recommends enforce mode.     *)
RecommendsEnforce(valid) ==
    valid /\ entries # <<>> /\ WouldDeny = {} /\ WouldPend = {}

(* The gauge of executions that await their terminal stage.                *)
AwaitingStage == {k \in Keys : executions[k].recon = "pending"}

------------------------------------------------------------------------------
(* What no operation may take back, as a relation of two states.           *)

(* No operation rewrites or removes a row of the chain.                    *)
ChainGrows ==
    \A n \in DOMAIN entries : n \in DOMAIN entries' /\ entries'[n] = entries[n]

(* No operation removes an execution or changes its payload, and none      *)
(* touches a completed one.                                                *)
ExecutionsStay ==
    \A k \in Keys : executions[k].state # "missing" =>
        /\ executions'[k].state # "missing"
        /\ executions'[k].digest = executions[k].digest
        /\ executions[k].state = "completed" => executions'[k] = executions[k]

(* No operation removes a pendings row or changes a decision.              *)
DecisionsStay ==
    \A c \in Ids : pendings[c].decision # "absent" =>
        /\ pendings'[c].decision # "absent"
        /\ pendings[c].decision # "undecided" => pendings'[c] = pendings[c]

NothingLost == ChainGrows /\ ExecutionsStay /\ DecisionsStay

===============================================================================
