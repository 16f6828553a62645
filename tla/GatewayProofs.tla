----------------------------- MODULE GatewayProofs ----------------------------
(***************************************************************************)
(* Proofs about the ledger and the tool-call path.  What every operation   *)
(* of the ledger preserves: the types of the four tables, and everything   *)
(* that was ever committed to them.  Then type correctness, and that the   *)
(* ledger only grows; from the two, the safety of attempts and of human    *)
(* review; last, what durable server execution promises of its ends.       *)
(***************************************************************************)
EXTENDS GatewayProperties, SequenceTheorems, FiniteSetTheorems, TLAPS

------------------------------------------------------------------------------
(* An appended row keeps the chain a chain and every earlier row in place. *)
LEMMA AppendKeepsChain ==
    ASSUME entries \in Seq(Entry), NEW row \in Entry, AppendRow(row)
    PROVE  /\ entries' \in Seq(Entry)
           /\ ChainGrows
           /\ \E n \in DOMAIN entries' : entries'[n] = row
<1>1. entries' = Append(entries, row)
  BY DEF AppendRow
<1>2. /\ Append(entries, row) \in Seq(Entry)
      /\ Len(Append(entries, row)) = Len(entries) + 1
      /\ \A i \in 1 .. Len(entries) : Append(entries, row)[i] = entries[i]
      /\ Append(entries, row)[Len(entries) + 1] = row
  BY AppendProperties
<1>3. Len(entries) \in Nat /\ DOMAIN entries = 1 .. Len(entries)
  BY LenProperties
<1>4. DOMAIN entries' = 1 .. (Len(entries) + 1)
  BY <1>1, <1>2, LenProperties
<1>5. Len(entries) + 1 \in DOMAIN entries'
  BY <1>3, <1>4
<1>. QED
  BY <1>1, <1>2, <1>3, <1>4, <1>5 DEF ChainGrows

(* It adds that row, and none but that row.                                *)
LEMMA AppendAddsRow ==
    ASSUME entries \in Seq(Entry), NEW row \in Entry, AppendRow(row)
    PROVE  \A n \in DOMAIN entries' : n \notin DOMAIN entries => entries'[n] = row
                                              /\ n = Len(entries) + 1
<1>1. entries' = Append(entries, row)
  BY DEF AppendRow
<1>2. /\ Append(entries, row) \in Seq(Entry)
      /\ Len(Append(entries, row)) = Len(entries) + 1
      /\ Append(entries, row)[Len(entries) + 1] = row
  BY AppendProperties
<1>3. Len(entries) \in Nat /\ DOMAIN entries = 1 .. Len(entries)
  BY LenProperties
<1>4. DOMAIN entries' = 1 .. (Len(entries) + 1)
  BY <1>1, <1>2, LenProperties
<1>. QED BY <1>1, <1>2, <1>3, <1>4

(* A batch of rows, one per element of a finite set of keys, does so too.  *)
LEMMA BatchKeepsChain ==
    ASSUME entries \in Seq(Entry), NEW K \in SUBSET Keys, IsFiniteSet(K),
           NEW rows \in [1 .. Cardinality(K) -> Entry],
           entries' = entries \o rows
    PROVE  entries' \in Seq(Entry) /\ ChainGrows
<1>1. Cardinality(K) \in Nat
  BY FS_CardinalityType
<1>2. rows \in Seq(Entry)
  <2>1. Seq(Entry) = UNION {[1 .. n -> Entry] : n \in Nat}
    BY SeqDef
  <2>2. rows \in UNION {[1 .. n -> Entry] : n \in Nat}
    BY <1>1
  <2>. QED
    BY <2>1, <2>2
<1>3. /\ entries \o rows \in Seq(Entry)
      /\ Len(entries \o rows) = Len(entries) + Len(rows)
      /\ \A i \in 1 .. Len(entries) + Len(rows) : (entries \o rows)[i] =
             IF i <= Len(entries) THEN entries[i] ELSE rows[i - Len(entries)]
  BY <1>2, ConcatProperties
<1>4. /\ Len(entries) \in Nat /\ DOMAIN entries = 1 .. Len(entries)
      /\ Len(rows) \in Nat
  BY <1>2, LenProperties
<1>5. DOMAIN entries' = 1 .. (Len(entries) + Len(rows))
  BY <1>3, LenProperties
<1>6. \A i \in 1 .. Len(entries) : i \in 1 .. Len(entries) + Len(rows) /\ i <= Len(entries)
  BY <1>4
<1>. QED
  BY <1>3, <1>4, <1>5, <1>6 DEF ChainGrows

(* The rows the operations write are rows.                                 *)
LEMMA RowTypes ==
    /\ \A intent \in Intents, a \in Agents, c \in Ids : Row(intent, a, c) \in Entry
    /\ \A k \in Keys, intent \in StageIntents : StageRow(intent, k) \in Entry
    /\ \A t \in Tenants, a \in Agents, c \in Ids :
           Row("RateLimitDenied", <<t, a>>, c) \in Entry
BY DEF Row, StageRow, Entry, Intents, VerdictIntents, DecisionIntents, StageIntents, Keys

(* A stage row tells its stage and its execution.                          *)
LEMMA StageRowsDiffer ==
    \A k, l \in Keys, s, t \in StageIntents :
        StageRow(s, k) = StageRow(t, l) => s = t /\ k = l
BY DEF StageRow, Row, Keys

(* What a pass of the reconciler does: to each execution of its batch the  *)
(* mark and the receipt, and to the chain one row for each.                *)
LEMMA ReconcileEffect ==
    ASSUME LedgerTypeOK, NEW i \in Instances, ReconcileTx(i)
    PROVE  \E K \in SUBSET Keys :
        /\ \A k \in K : /\ executions[k].state = "in_flight"
                        /\ executions[k].recon = "pending"
                        /\ OutboxFree(k)
        /\ executions' = [k \in Keys |->
               IF k \in K THEN [executions[k] EXCEPT !.recon = "uncertain"]
                          ELSE executions[k]]
        /\ outbox' = outbox \cup {[key |-> k, stage |-> "uncertain"] : k \in K}
        /\ pendings' = pendings
        /\ \A n \in DOMAIN entries' : n \notin DOMAIN entries =>
               \E k \in K : entries'[n] = StageRow("ServerExecutionUncertain", k)
        /\ \A k \in K : \E n \in DOMAIN entries' :
               entries'[n] = StageRow("ServerExecutionUncertain", k)
        /\ \A m, n \in DOMAIN entries' :
               m \notin DOMAIN entries /\ n \notin DOMAIN entries /\ entries'[m] = entries'[n]
               => m = n
<1>1. PICK K \in Batches(i) : \E batch \in Bijection(1 .. Cardinality(K), K) :
        /\ \A k \in K : OutboxFree(k)
        /\ executions' = [k \in Keys |->
               IF k \in K THEN [executions[k] EXCEPT !.recon = "uncertain"]
                          ELSE executions[k]]
        /\ outbox' = outbox \cup {[key |-> k, stage |-> "uncertain"] : k \in K}
        /\ entries' = entries \o [n \in 1 .. Cardinality(K) |->
                                    StageRow("ServerExecutionUncertain", batch[n])]
        /\ UNCHANGED pendings
  BY DEF ReconcileTx
<1>2. /\ K \in SUBSET Keys /\ IsFiniteSet(K) /\ Cardinality(K) \in Nat
      /\ \A k \in K : executions[k].state = "in_flight" /\ executions[k].recon = "pending"
  BY FS_CardinalityType DEF Batches, Reconcilable
<1>3. PICK batch \in Bijection(1 .. Cardinality(K), K) :
          entries' = entries \o [n \in 1 .. Cardinality(K) |->
                                    StageRow("ServerExecutionUncertain", batch[n])]
  BY <1>1
<1>. DEFINE rows == [n \in 1 .. Cardinality(K) |->
                       StageRow("ServerExecutionUncertain", batch[n])]
<1>4. /\ \A n \in 1 .. Cardinality(K) : batch[n] \in K
      /\ \A m, n \in 1 .. Cardinality(K) : batch[m] = batch[n] => m = n
      /\ \A k \in K : \E n \in 1 .. Cardinality(K) : batch[n] = k
  BY DEF Bijection, Injection, Surjection, IsInjective
<1>5. rows \in [1 .. Cardinality(K) -> Entry]
  BY <1>2, <1>4, RowTypes DEF StageIntents
<1>6. rows \in Seq(Entry) /\ Len(rows) = Cardinality(K)
  <2>1. Seq(Entry) = UNION {[1 .. n -> Entry] : n \in Nat}
    BY SeqDef
  <2>2. rows \in Seq(Entry)
    BY <1>2, <1>5, <2>1
  <2>3. DOMAIN rows = 1 .. Cardinality(K)
    OBVIOUS
  <2>. HIDE DEF rows
  <2>. QED
    BY <1>2, <2>2, <2>3, LenProperties
<1>7. \A n \in 1 .. Cardinality(K) :
          rows[n] = StageRow("ServerExecutionUncertain", batch[n])
  OBVIOUS
<1>8. entries' = entries \o rows
  BY <1>3
<1>. HIDE DEF rows
<1>9. /\ entries \o rows \in Seq(Entry)
      /\ Len(entries \o rows) = Len(entries) + Len(rows)
      /\ \A n \in 1 .. Len(entries) + Len(rows) : (entries \o rows)[n] =
             IF n <= Len(entries) THEN entries[n] ELSE rows[n - Len(entries)]
  BY <1>6, ConcatProperties DEF LedgerTypeOK
<1>10. Len(entries) \in Nat /\ DOMAIN entries = 1 .. Len(entries)
  BY LenProperties DEF LedgerTypeOK
<1>11. DOMAIN entries' = 1 .. (Len(entries) + Cardinality(K))
  BY <1>6, <1>8, <1>9, LenProperties
<1>12. ASSUME NEW n \in DOMAIN entries', n \notin DOMAIN entries
       PROVE  /\ n - Len(entries) \in 1 .. Cardinality(K)
              /\ entries'[n] = StageRow("ServerExecutionUncertain", batch[n - Len(entries)])
  <2>1. /\ n \in 1 .. (Len(entries) + Len(rows)) /\ ~(n <= Len(entries))
        /\ n - Len(entries) \in 1 .. Cardinality(K)
    BY <1>2, <1>6, <1>10, <1>11, <1>12
  <2>. QED
    BY <1>7, <1>8, <1>9, <2>1
<1>13. ASSUME NEW k \in K
       PROVE  \E n \in DOMAIN entries' :
                  entries'[n] = StageRow("ServerExecutionUncertain", k)
  <2>1. PICK m \in 1 .. Cardinality(K) : batch[m] = k
    BY <1>4
  <2>2. /\ m + Len(entries) \in 1 .. (Len(entries) + Len(rows))
        /\ ~(m + Len(entries) <= Len(entries))
        /\ (m + Len(entries)) - Len(entries) = m
        /\ m + Len(entries) \in DOMAIN entries'
    BY <1>2, <1>6, <1>10, <1>11
  <2>3. entries'[m + Len(entries)] = rows[m]
    BY <1>8, <1>9, <2>2
  <2>. QED
    BY <1>7, <2>1, <2>2, <2>3
<1>14. ASSUME NEW m \in DOMAIN entries', NEW n \in DOMAIN entries',
              m \notin DOMAIN entries, n \notin DOMAIN entries, entries'[m] = entries'[n]
       PROVE  m = n
  <2>1. /\ m - Len(entries) \in 1 .. Cardinality(K)
        /\ n - Len(entries) \in 1 .. Cardinality(K)
        /\ StageRow("ServerExecutionUncertain", batch[m - Len(entries)])
               = StageRow("ServerExecutionUncertain", batch[n - Len(entries)])
    BY <1>12, <1>14
  <2>2. batch[m - Len(entries)] = batch[n - Len(entries)]
    BY <1>2, <1>4, <2>1, StageRowsDiffer DEF StageIntents
  <2>3. m - Len(entries) = n - Len(entries)
    BY <1>4, <2>1, <2>2
  <2>. QED
    BY <1>2, <1>10, <1>11, <2>3
<1>15. \A n \in DOMAIN entries' : n \notin DOMAIN entries =>
           \E k \in K : entries'[n] = StageRow("ServerExecutionUncertain", k)
  BY <1>4, <1>12
<1>16. /\ \A k \in K : OutboxFree(k)
       /\ executions' = [k \in Keys |->
              IF k \in K THEN [executions[k] EXCEPT !.recon = "uncertain"]
                         ELSE executions[k]]
       /\ outbox' = outbox \cup {[key |-> k, stage |-> "uncertain"] : k \in K}
       /\ pendings' = pendings
  BY <1>1
<1>17. K \in SUBSET Keys
  BY <1>2
<1>. QED
  BY <1>2, <1>13, <1>14, <1>15, <1>16, <1>17

------------------------------------------------------------------------------
(* begin_server_execution touches only a missing execution.                *)
LEMMA BeginKeeps ==
    ASSUME LedgerTypeOK, NEW k \in Keys, NEW p \in Payloads,
           NEW i \in Instances \cup {NoValue}, BeginTx(k, p, i)
    PROVE  /\ LedgerTypeOK' /\ NothingLost
           /\ executions[k].state = "missing"
           /\ executions'[k].state # "missing" /\ executions'[k].digest = p
           /\ \E n \in DOMAIN entries' : entries'[n] = StageRow("ServerExecutionIntent", k)
<1>. USE DEF LedgerTypeOK
<1>1. executions[k].state = "missing"
  <2>1. executions[k].state \in {"missing", "in_flight", "completed"}
    BY DEF Execution
  <2>. QED
    BY <2>1 DEF BeginTx, InspectOutcome
<1>2. DEFINE new == [state |-> "in_flight", recon |-> "pending", digest |-> p,
                     owner |-> i, aged |-> FALSE, result |-> NoValue]
<1>3. new \in Execution
  BY DEF Execution
<1>4. executions' = [executions EXCEPT ![k] = new]
  BY DEF BeginTx
<1>5. StageRow("ServerExecutionIntent", k) \in Entry
  BY RowTypes DEF StageIntents
<1>6. /\ entries' \in Seq(Entry) /\ ChainGrows
      /\ \E n \in DOMAIN entries' : entries'[n] = StageRow("ServerExecutionIntent", k)
  BY <1>5, AppendKeepsChain DEF BeginTx
<1>7. executions' \in [Keys -> Execution]
  BY <1>3, <1>4
<1>8. ExecutionsStay
  BY <1>1, <1>4 DEF ExecutionsStay
<1>9. UNCHANGED <<outbox, pendings>>
  BY DEF BeginTx
<1>. QED
  BY <1>1, <1>4, <1>6, <1>7, <1>8, <1>9 DEF NothingLost, DecisionsStay

(* complete_server_execution touches only an execution in flight.          *)
LEMMA CompleteKeeps ==
    ASSUME LedgerTypeOK, NEW k \in Keys, NEW p \in Payloads,
           NEW v \in Results \cup {NoValue}, CompleteTx(k, p, v)
    PROVE  LedgerTypeOK' /\ NothingLost
<1>. USE DEF LedgerTypeOK
<1>1. executions[k].state = "in_flight"
  BY DEF CompleteTx, Completable
<1>. DEFINE done == [executions[k] EXCEPT !.state = "completed", !.recon = "resolved",
                                         !.result = v]
<1>2. /\ executions' = [executions EXCEPT ![k] = done]
      /\ outbox' = outbox \cup {[key |-> k, stage |-> "completed"]}
      /\ AppendRow(StageRow("ServerExecutionCompleted", k))
      /\ pendings' = pendings
  BY DEF CompleteTx
<1>. HIDE DEF done
<1>3. done \in Execution /\ done.state # "missing" /\ done.digest = executions[k].digest
  BY DEF done, Execution
<1>4. outbox' \subseteq Receipt
  BY <1>2 DEF Receipt
<1>5. StageRow("ServerExecutionCompleted", k) \in Entry
  BY RowTypes DEF StageIntents
<1>6. entries' \in Seq(Entry) /\ ChainGrows
  BY <1>2, <1>5, AppendKeepsChain
<1>7. executions' \in [Keys -> Execution]
  BY <1>2, <1>3
<1>8. ExecutionsStay
  BY <1>1, <1>2, <1>3 DEF ExecutionsStay
<1>. QED
  BY <1>2, <1>4, <1>6, <1>7, <1>8 DEF NothingLost, DecisionsStay

(* A reconciliation touches only executions in flight.                     *)
LEMMA ReconcileKeeps ==
    ASSUME LedgerTypeOK, NEW i \in Instances, ReconcileTx(i)
    PROVE  LedgerTypeOK' /\ NothingLost
<1>. USE DEF LedgerTypeOK
<1>1. PICK K \in Batches(i) : \E batch \in Bijection(1 .. Cardinality(K), K) :
        /\ executions' = [k \in Keys |->
               IF k \in K THEN [executions[k] EXCEPT !.recon = "uncertain"]
                          ELSE executions[k]]
        /\ outbox' = outbox \cup {[key |-> k, stage |-> "uncertain"] : k \in K}
        /\ entries' = entries \o [n \in 1 .. Cardinality(K) |->
                                    StageRow("ServerExecutionUncertain", batch[n])]
        /\ UNCHANGED pendings
  BY DEF ReconcileTx
<1>2. K \subseteq Keys /\ IsFiniteSet(K) /\ \A k \in K : executions[k].state = "in_flight"
  BY DEF Batches, Reconcilable
<1>3. executions' \in [Keys -> Execution] /\ ExecutionsStay
  <2>1. \A k \in Keys : /\ [executions[k] EXCEPT !.recon = "uncertain"] \in Execution
                        /\ [executions[k] EXCEPT !.recon = "uncertain"].state
                               = executions[k].state
                        /\ [executions[k] EXCEPT !.recon = "uncertain"].digest
                               = executions[k].digest
    BY DEF Execution
  <2>. QED
    BY <1>1, <1>2, <2>1 DEF ExecutionsStay
<1>4. outbox' \subseteq Receipt
  BY <1>1, <1>2 DEF Receipt
<1>5. entries' \in Seq(Entry) /\ ChainGrows
  <2>1. PICK batch \in Bijection(1 .. Cardinality(K), K) :
            entries' = entries \o [n \in 1 .. Cardinality(K) |->
                                     StageRow("ServerExecutionUncertain", batch[n])]
    BY <1>1
  <2>2. \A n \in 1 .. Cardinality(K) : batch[n] \in Keys
    BY <1>2 DEF Bijection, Injection
  <2>3. \A n \in 1 .. Cardinality(K) :
            StageRow("ServerExecutionUncertain", batch[n]) \in Entry
    BY <2>2, RowTypes DEF StageIntents
  <2>. DEFINE rows == [n \in 1 .. Cardinality(K) |->
                         StageRow("ServerExecutionUncertain", batch[n])]
  <2>4. rows \in [1 .. Cardinality(K) -> Entry]
    BY <2>3
  <2>. QED
    BY <1>2, <2>1, <2>4, BatchKeepsChain
<1>. QED
  BY <1>1, <1>3, <1>4, <1>5 DEF NothingLost, DecisionsStay

(* park_pending adds a row where there is none.                            *)
LEMMA ParkKeeps ==
    ASSUME LedgerTypeOK, NEW c \in Ids, NEW t \in Tenants, NEW a \in Agents, ParkTx(c, t, a)
    PROVE  LedgerTypeOK' /\ NothingLost /\ pendings'[c].decision # "absent"
<1>. USE DEF LedgerTypeOK, Pending
<1>1. pendings' \in [Ids -> Pending] /\ pendings'[c].decision # "absent" /\ DecisionsStay
  BY DEF ParkTx, DecisionsStay
<1>2. UNCHANGED <<entries, executions, outbox>>
  BY DEF ParkTx
<1>. QED
  BY <1>1, <1>2 DEF NothingLost, ChainGrows, ExecutionsStay

(* A decision is made once: decide_pending touches undecided rows only.    *)
LEMMA DecideKeeps ==
    ASSUME LedgerTypeOK, NEW c \in Ids, NEW t, NEW d \in {"allow", "deny"}, DecideTx(c, t, d)
    PROVE  LedgerTypeOK' /\ NothingLost
<1>. USE DEF LedgerTypeOK
<1>1. pendings[c].decision = "undecided" /\ pendings' = [pendings EXCEPT ![c].decision = d]
  BY DEF DecideTx
<1>2. pendings' \in [Ids -> Pending] /\ DecisionsStay
  BY <1>1 DEF DecisionsStay, Pending
<1>3. UNCHANGED <<entries, executions, outbox>>
  BY DEF DecideTx
<1>. QED
  BY <1>2, <1>3 DEF NothingLost, ChainGrows, ExecutionsStay

(* An append, made or failed, changes the chain only.                      *)
LEMMA AppendKeeps ==
    ASSUME LedgerTypeOK, NEW row \in Entry,
           AppendRow(row) \/ UNCHANGED entries, UNCHANGED <<executions, outbox, pendings>>
    PROVE  LedgerTypeOK' /\ NothingLost
<1>. USE DEF LedgerTypeOK
<1>1. entries' \in Seq(Entry) /\ ChainGrows
  BY AppendKeepsChain DEF ChainGrows
<1>. QED
  BY <1>1 DEF NothingLost, ExecutionsStay, DecisionsStay

(* What leaves the ledger alone loses nothing of it.                       *)
LEMMA StutterKeeps ==
    ASSUME LedgerTypeOK, UNCHANGED storeVars
    PROVE  LedgerTypeOK' /\ NothingLost
BY DEF storeVars, LedgerTypeOK, NothingLost, ChainGrows, ExecutionsStay, DecisionsStay

------------------------------------------------------------------------------
(* The conjuncts of TypeOK that are not about the ledger.                  *)
HandlersTypeOK ==
    /\ proc \in [Instances -> {"new", "up", "down"}]
    /\ pc \in [Requests -> {"idle", "done", "dead"} \cup HandlerSteps]
    /\ at \in [Requests -> Instances \cup {NoValue}]
    /\ tier \in [Requests -> Tiers \cup {NoValue}]
    /\ reply \in [Requests -> Replies]
    /\ body \in [Requests -> Results \cup {NoValue}]
    /\ sent \in [Requests -> BOOLEAN]
    /\ parker \in [Ids -> Requests \cup {NoValue}]

OperatorsTypeOK ==
    /\ opPc \in [Operators -> {"idle", "audit", "dead"} \cup OperatorReplies]
    /\ opAt \in [Operators -> Instances \cup {NoValue}]

(* TypeOK is not inductive: the decide route copies the agent of a         *)
(* pendings row into the chain, so the row must still be there.            *)
AuditIsBacked ==
    \A o \in Operators : opPc[o] = "audit" => pendings[order[o].id].decision # "absent"

TypeInv == TypeOK /\ AuditIsBacked

(* The proofs read a call through its fields.                              *)
LEMMA CallTypes ==
    ASSUME TypeOK
    PROVE  /\ \A r \in Requests : /\ call[r].tenant \in Tenants
                                  /\ call[r].agent \in Agents
                                  /\ call[r].id \in Ids
                                  /\ call[r].payload \in Payloads
                                  /\ Key(r) \in Keys
           /\ \A o \in Operators : order[o].id \in Ids /\ order[o].decision \in {"allow", "deny"}
<1>1. \A r \in Requests : call[r] \in Call
  BY GatewayAssumption DEF TypeOK
<1>2. \A o \in Operators : order[o] \in Order
  BY GatewayAssumption DEF TypeOK
<1>. QED
  BY <1>1, <1>2 DEF Call, Order, Key, Keys

------------------------------------------------------------------------------
(* The ledger.                                                             *)

(* An append in a handler or a decide route.                               *)
LEMMA TryAppendKeeps ==
    ASSUME LedgerTypeOK, dropped \subseteq Entry, NEW row \in Entry, TryAppend(row)
    PROVE  /\ LedgerTypeOK' /\ NothingLost
           /\ dropped' \subseteq Entry /\ dropped \subseteq dropped'
<1>1. LedgerTypeOK' /\ NothingLost
  BY AppendKeeps DEF TryAppend
<1>2. dropped' = dropped \/ dropped' = dropped \cup {row}
  BY DEF TryAppend
<1>. QED
  BY <1>1, <1>2

(* What a throttled request, a verdict or a decision tries to append is a  *)
(* row of the chain.                                                       *)
LEMMA RowsAreTyped ==
    ASSUME TypeInv,
           \/ \E r \in Requests : Throttle(r) \/ Verdict(r)
           \/ \E o \in Operators : Audit(o)
    PROVE  /\ LedgerTypeOK' /\ NothingLost
           /\ dropped' \subseteq Entry /\ dropped \subseteq dropped'
<1>1. TypeOK /\ LedgerTypeOK /\ dropped \subseteq Entry
  BY DEF TypeInv, TypeOK
<1>2. SUFFICES \E row \in Entry : TryAppend(row)
  BY <1>1, TryAppendKeeps
<1>3. ASSUME NEW r \in Requests, Throttle(r)
      PROVE  \E row \in Entry : TryAppend(row)
  BY <1>1, <1>3, CallTypes, RowTypes DEF Throttle
<1>4. ASSUME NEW r \in Requests, Verdict(r)
      PROVE  \E row \in Entry : TryAppend(row)
  <2>1. PICK t \in TiersOf[call[r].payload] :
            TryAppend(Row(VerdictIntent(t), call[r].agent, call[r].id))
    BY <1>4 DEF Verdict
  <2>2. t \in Tiers
    BY <1>1, CallTypes, GatewayAssumption
  <2>3. VerdictIntent(t) \in Intents
    BY <2>2 DEF VerdictIntent, Tiers, Intents, VerdictIntents
  <2>. QED
    BY <1>1, <2>1, <2>3, CallTypes, RowTypes
<1>5. ASSUME NEW o \in Operators, Audit(o)
      PROVE  \E row \in Entry : TryAppend(row)
  <2>1. DecisionIntent(order[o].decision) \in Intents
    BY DEF DecisionIntent, Intents, DecisionIntents
  <2>2. order[o].id \in Ids
    BY <1>1, CallTypes
  <2>3. pendings[order[o].id].agent \in Agents
    <3>1. pendings[order[o].id].decision # "absent"
      BY <1>5 DEF TypeInv, AuditIsBacked, Audit
    <3>2. pendings[order[o].id] \in Pending
      BY <1>1, <2>2 DEF LedgerTypeOK
    <3>. QED
      BY <3>1, <3>2 DEF Pending
  <2>. QED
    BY <1>1, <1>5, <2>1, <2>2, <2>3, RowTypes DEF Audit
<1>. QED
  BY <1>3, <1>4, <1>5

(* The passing of time touches executions in flight only.                  *)
LEMMA ElapseKeeps ==
    ASSUME LedgerTypeOK, NEW k \in Keys, Elapse(k)
    PROVE  LedgerTypeOK' /\ NothingLost
<1>. USE DEF LedgerTypeOK
<1>1. /\ executions[k].state = "in_flight"
      /\ executions' = [executions EXCEPT ![k].aged = TRUE]
      /\ UNCHANGED <<entries, outbox, pendings>>
  BY DEF Elapse
<1>2. executions' \in [Keys -> Execution] /\ ExecutionsStay
  BY <1>1 DEF Execution, ExecutionsStay
<1>. QED
  BY <1>1, <1>2 DEF NothingLost, ChainGrows, DecisionsStay

(* Every step keeps the tables well typed and takes nothing back.          *)
LEMMA StepKeepsLedger ==
    ASSUME TypeInv, [Next]_vars
    PROVE  LedgerTypeOK' /\ NothingLost
<1>1. TypeOK /\ LedgerTypeOK
  BY DEF TypeInv, TypeOK
<1>2. CASE UNCHANGED storeVars
  BY <1>1, <1>2, StutterKeeps
<1>3. ASSUME NEW r \in Requests, Throttle(r) \/ Verdict(r)
      PROVE  LedgerTypeOK' /\ NothingLost
  BY <1>3, RowsAreTyped
<1>5. ASSUME NEW r \in Requests, Park(r)
      PROVE  LedgerTypeOK' /\ NothingLost
  BY <1>1, <1>2, <1>5, CallTypes, ParkKeeps DEF Park, storeVars
<1>6. ASSUME NEW r \in Requests, Begin(r)
      PROVE  LedgerTypeOK' /\ NothingLost
  <2>1. BeginTx(Key(r), call[r].payload, at[r]) \/ UNCHANGED storeVars
    BY <1>6 DEF Begin
  <2>2. at[r] \in Instances \cup {NoValue}
    BY <1>1 DEF TypeOK
  <2>. QED
    BY <1>1, <1>2, <2>1, <2>2, CallTypes, BeginKeeps
<1>7. ASSUME NEW r \in Requests, Complete(r)
      PROVE  LedgerTypeOK' /\ NothingLost
  <2>1. CompleteTx(Key(r), call[r].payload, body[r]) \/ UNCHANGED storeVars
    BY <1>7 DEF Complete
  <2>2. body[r] \in Results \cup {NoValue}
    BY <1>1 DEF TypeOK
  <2>. QED
    BY <1>1, <1>2, <2>1, <2>2, CallTypes, CompleteKeeps
<1>8. ASSUME NEW o \in Operators, Decide(o)
      PROVE  LedgerTypeOK' /\ NothingLost
  <2>1. DecideTx(order[o].id, order[o].scope, order[o].decision) \/ UNCHANGED storeVars
    BY <1>8 DEF Decide
  <2>. QED
    BY <1>1, <1>2, <2>1, CallTypes, DecideKeeps
<1>9. ASSUME NEW o \in Operators, Audit(o)
      PROVE  LedgerTypeOK' /\ NothingLost
  BY <1>9, RowsAreTyped
<1>10. ASSUME NEW k \in Keys, Elapse(k)
       PROVE  LedgerTypeOK' /\ NothingLost
  BY <1>1, <1>10, ElapseKeeps
<1>11. ASSUME NEW i \in Instances, Reconcile(i)
       PROVE  LedgerTypeOK' /\ NothingLost
  BY <1>1, <1>11, ReconcileKeeps DEF Reconcile
<1>12. ASSUME NEW r \in Requests,
              \/ Arrive(r) \/ Refuse(r) \/ Inspect(r) \/ Lookup(r) \/ Send(r)
              \/ UpstreamAnswers(r) \/ UpstreamError(r) \/ Disconnect(r)
       PROVE  UNCHANGED storeVars
  BY <1>12 DEF Arrive, Refuse, Inspect, Lookup, Send, UpstreamAnswers, UpstreamError, Disconnect
<1>13. ASSUME NEW o \in Operators, DisconnectOperator(o)
       PROVE  UNCHANGED storeVars
  BY <1>13 DEF DisconnectOperator
<1>14. ASSUME NEW i \in Instances, Start(i) \/ Crash(i)
       PROVE  UNCHANGED storeVars
  BY <1>14 DEF Start, Crash
<1>15. CASE UNCHANGED vars
  BY <1>2, <1>15 DEF vars
<1>. QED
  BY <1>2, <1>3, <1>5, <1>6, <1>7, <1>8, <1>9, <1>10, <1>11, <1>12, <1>13, <1>14, <1>15
  DEF Next, HandlerStep

(* No other step touches the history of failed appends; it grows too.      *)
LEMMA StepKeepsDropped ==
    ASSUME TypeInv, [Next]_vars
    PROVE  dropped' \subseteq Entry /\ dropped \subseteq dropped'
<1>1. dropped \subseteq Entry
  BY DEF TypeInv, TypeOK
<1>. USE DEF historyVars
<1>2. ASSUME NEW r \in Requests,
             \/ Arrive(r) \/ Refuse(r) \/ Inspect(r) \/ Lookup(r) \/ Park(r) \/ Begin(r)
             \/ Send(r) \/ UpstreamAnswers(r) \/ UpstreamError(r) \/ Complete(r)
             \/ Disconnect(r)
      PROVE  UNCHANGED dropped
  BY <1>2 DEF Arrive, Refuse, Inspect, Lookup, Park, Begin, Send, UpstreamAnswers,
              UpstreamError, Complete, Disconnect
<1>3. ASSUME NEW o \in Operators, Decide(o) \/ DisconnectOperator(o)
      PROVE  UNCHANGED dropped
  BY <1>3 DEF Decide, DisconnectOperator
<1>4. ASSUME NEW i \in Instances, Start(i) \/ Crash(i) \/ Reconcile(i)
      PROVE  UNCHANGED dropped
  BY <1>4 DEF Start, Crash, Reconcile
<1>5. ASSUME NEW k \in Keys, Elapse(k)
      PROVE  UNCHANGED dropped
  BY <1>5 DEF Elapse
<1>6. CASE UNCHANGED vars
  BY <1>1, <1>6 DEF vars
<1>. QED
  BY <1>1, <1>2, <1>3, <1>4, <1>5, <1>6, RowsAreTyped DEF Next, HandlerStep

------------------------------------------------------------------------------
(* Types.                                                                  *)

(* Every step of a request's handler keeps its variables well typed.       *)
LEMMA RequestStepTypes ==
    ASSUME TypeOK, NEW r \in Requests,
           Arrive(r) \/ Refuse(r) \/ Throttle(r) \/ HandlerStep(r) \/ Disconnect(r)
    PROVE  HandlersTypeOK' /\ UNCHANGED <<opPc, opAt, call, order>>
<1>. USE DEF TypeOK, HandlersTypeOK, HandlerSteps, Replies, Goto, Answer, operatorVars,
             inputVars, historyVars
<1>1. CASE Arrive(r)
  BY <1>1 DEF Arrive
<1>2. CASE Refuse(r)
  BY <1>2 DEF Refuse
<1>3. CASE Throttle(r)
  BY <1>3 DEF Throttle
<1>4. CASE Inspect(r)
  <2>1. CASE StorageUnavailable(r)
    BY <1>4, <2>1 DEF Inspect, StorageUnavailable
  <2>2. CASE Goto(r, "verdict") /\ UNCHANGED body
    BY <1>4, <2>2 DEF Inspect
  <2>3. CASE AnswerFromRow(r)
    <3>1. executions[Key(r)].result \in Results \cup {NoValue}
      BY CallTypes DEF LedgerTypeOK, Execution
    <3>2. /\ \E kind \in {"replayed", "uncertain", "conflict"} : Answer(r, kind)
          /\ \/ UNCHANGED body
             \/ body' = [body EXCEPT ![r] = executions[Key(r)].result]
      BY <2>3 DEF AnswerFromRow
    <3>. QED
      BY <1>4, <3>1, <3>2 DEF Inspect
  <2>. QED
    BY <1>4, <2>1, <2>2, <2>3 DEF Inspect
<1>5. CASE Verdict(r)
  <2>1. PICK t \in TiersOf[call[r].payload] :
            tier' = [tier EXCEPT ![r] = t] /\ AfterVerdict(r, t)
    BY <1>5 DEF Verdict
  <2>2. t \in Tiers
    BY CallTypes, GatewayAssumption
  <2>3. tier' \in [Requests -> Tiers \cup {NoValue}]
    BY <2>1, <2>2
  <2>. QED
    BY <1>5, <2>1, <2>3 DEF Verdict, AfterVerdict
<1>6. CASE Lookup(r)
  BY <1>6 DEF Lookup, StorageUnavailable
<1>7. CASE Park(r)
  BY <1>7, CallTypes DEF Park
<1>8. CASE Begin(r)
  <2>1. CASE StorageUnavailable(r)
    BY <1>8, <2>1 DEF Begin, StorageUnavailable
  <2>2. CASE Goto(r, "send") /\ UNCHANGED body
    BY <1>8, <2>2 DEF Begin
  <2>3. CASE AnswerFromRow(r)
    <3>1. executions[Key(r)].result \in Results \cup {NoValue}
      BY CallTypes DEF LedgerTypeOK, Execution
    <3>2. /\ \E kind \in {"replayed", "uncertain", "conflict"} : Answer(r, kind)
          /\ \/ UNCHANGED body
             \/ body' = [body EXCEPT ![r] = executions[Key(r)].result]
      BY <2>3 DEF AnswerFromRow
    <3>. QED
      BY <1>8, <3>1, <3>2 DEF Begin
  <2>. QED
    BY <1>8, <2>1, <2>2, <2>3 DEF Begin
<1>9. CASE Send(r)
  BY <1>9 DEF Send
<1>10. CASE UpstreamAnswers(r)
  BY <1>10 DEF UpstreamAnswers
<1>11. CASE UpstreamError(r)
  BY <1>11 DEF UpstreamError
<1>12. CASE Complete(r)
  BY <1>12 DEF Complete
<1>13. CASE Disconnect(r)
  BY <1>13 DEF Disconnect
<1>. QED
  BY <1>1, <1>2, <1>3, <1>4, <1>5, <1>6, <1>7, <1>8, <1>9, <1>10, <1>11, <1>12, <1>13
  DEF HandlerStep

(* The other steps.                                                        *)
LEMMA OtherStepTypes ==
    ASSUME TypeOK,
           \/ \E o \in Operators : Decide(o) \/ Audit(o) \/ DisconnectOperator(o)
           \/ \E i \in Instances : Start(i) \/ Crash(i) \/ Reconcile(i)
           \/ \E k \in Keys : Elapse(k)
           \/ UNCHANGED vars
    PROVE  HandlersTypeOK' /\ OperatorsTypeOK' /\ UNCHANGED <<call, order>>
<1>. USE DEF TypeOK, HandlersTypeOK, OperatorsTypeOK, handlerVars, operatorVars, inputVars,
             historyVars
<1>1. ASSUME NEW o \in Operators, Decide(o)
      PROVE  HandlersTypeOK' /\ OperatorsTypeOK' /\ UNCHANGED <<call, order>>
  BY <1>1 DEF Decide, OperatorReplies
<1>2. ASSUME NEW o \in Operators, Audit(o) \/ DisconnectOperator(o)
      PROVE  HandlersTypeOK' /\ OperatorsTypeOK' /\ UNCHANGED <<call, order>>
  BY <1>2 DEF Audit, DisconnectOperator, OperatorReplies
<1>3. ASSUME NEW i \in Instances, Start(i) \/ Crash(i)
      PROVE  HandlersTypeOK' /\ OperatorsTypeOK' /\ UNCHANGED <<call, order>>
  BY <1>3 DEF Start, Crash
<1>4. CASE (\E i \in Instances : Reconcile(i)) \/ (\E k \in Keys : Elapse(k))
  BY <1>4 DEF Reconcile, Elapse
<1>5. CASE UNCHANGED vars
  BY <1>5 DEF vars
<1>. QED
  BY <1>1, <1>2, <1>3, <1>4, <1>5

(* The row a decide route is about to audit is there until it has.         *)
LEMMA StepKeepsAuditBacked ==
    ASSUME TypeInv, [Next]_vars
    PROVE  AuditIsBacked'
<1>1. TypeOK /\ AuditIsBacked /\ DecisionsStay
  BY StepKeepsLedger DEF TypeInv, NothingLost
<1>2. order' = order
  BY <1>1, RequestStepTypes, OtherStepTypes DEF Next
<1>3. SUFFICES ASSUME NEW o \in Operators, opPc'[o] = "audit"
               PROVE  pendings'[order[o].id].decision # "absent"
  BY <1>2 DEF AuditIsBacked
<1>4. order[o].id \in Ids
  BY <1>1, CallTypes
<1>5. CASE opPc[o] = "audit"
  BY <1>1, <1>4, <1>5 DEF AuditIsBacked, DecisionsStay
<1>6. CASE opPc[o] # "audit"
  <2>1. Decide(o)
    <3>1. ASSUME NEW r \in Requests,
                 Arrive(r) \/ Refuse(r) \/ Throttle(r) \/ HandlerStep(r) \/ Disconnect(r)
          PROVE  FALSE
      BY <1>1, <1>3, <1>6, <3>1, RequestStepTypes
    <3>2. ASSUME NEW q \in Operators, q # o, Decide(q) \/ Audit(q) \/ DisconnectOperator(q)
          PROVE  FALSE
      BY <1>1, <1>3, <1>6, <3>2 DEF Decide, Audit, DisconnectOperator, TypeOK
    <3>3. ASSUME Audit(o) \/ DisconnectOperator(o)
          PROVE  FALSE
      BY <1>1, <1>6, <3>3 DEF Audit, DisconnectOperator
    <3>4. ASSUME NEW i \in Instances, Start(i) \/ Crash(i) \/ Reconcile(i)
          PROVE  FALSE
      BY <1>1, <1>3, <1>6, <3>4 DEF Start, Crash, Reconcile, operatorVars, TypeOK
    <3>5. ASSUME NEW k \in Keys, Elapse(k)
          PROVE  FALSE
      BY <1>3, <1>6, <3>5 DEF Elapse, operatorVars
    <3>6. ASSUME UNCHANGED vars
          PROVE  FALSE
      BY <1>3, <1>6, <3>6 DEF vars, operatorVars
    <3>. QED
      BY <3>1, <3>2, <3>3, <3>4, <3>5, <3>6 DEF Next
  <2>2. DecideTx(order[o].id, order[o].scope, order[o].decision)
    BY <1>1, <1>3, <2>1 DEF Decide, TypeOK
  <2>. QED
    BY <1>1, <1>4, <2>2 DEF DecideTx, DecisionsStay
<1>. QED
  BY <1>5, <1>6

LEMMA TypeInit == Init => TypeInv
<1>1. Init => LedgerTypeOK
  BY EmptySeq DEF Init, LedgerInit, LedgerTypeOK, Execution, Receipt, Pending
<1>2. Init => AuditIsBacked
  BY DEF Init, AuditIsBacked
<1>. QED
  BY <1>1, <1>2 DEF Init, TypeInv, TypeOK, Tiers, Replies, HandlerSteps, OperatorReplies

LEMMA TypeStep == TypeInv /\ [Next]_vars => TypeInv'
<1>. SUFFICES ASSUME TypeInv, [Next]_vars
              PROVE  TypeInv'
  OBVIOUS
<1>1. TypeOK
  BY DEF TypeInv
<1>2. LedgerTypeOK' /\ AuditIsBacked' /\ dropped' \subseteq Entry
  BY StepKeepsLedger, StepKeepsAuditBacked, StepKeepsDropped
<1>3. HandlersTypeOK' /\ OperatorsTypeOK' /\ UNCHANGED <<call, order>>
  <2>1. ASSUME NEW r \in Requests,
               Arrive(r) \/ Refuse(r) \/ Throttle(r) \/ HandlerStep(r) \/ Disconnect(r)
        PROVE  HandlersTypeOK' /\ OperatorsTypeOK' /\ UNCHANGED <<call, order>>
    BY <1>1, <2>1, RequestStepTypes DEF OperatorsTypeOK, TypeOK
  <2>. QED
    BY <1>1, <2>1, OtherStepTypes DEF Next
<1>. QED
  BY <1>1, <1>2, <1>3 DEF TypeInv, TypeOK, HandlersTypeOK, OperatorsTypeOK

(* Every reachable state of the path is well typed, whatever the numbers   *)
(* of requests, operators, processes, tenants, agents and ids.             *)
THEOREM TypeCorrect == Spec => []TypeOK
<1>1. TypeInv => TypeOK
  BY DEF TypeInv
<1>. QED
  BY <1>1, TypeInit, TypeStep, PTL DEF Spec

(* The ledger only grows: no handler, operator, reconciler, crash or       *)
(* storage fault takes back a chain row, an execution, a result or a       *)
(* decision.                                                               *)
THEOREM LedgerGrows == Spec => LedgerOnlyGrows
<1>1. TypeInv /\ [Next]_vars => [NothingLost]_storeVars
  BY StepKeepsLedger
<1>. QED
  BY <1>1, TypeInit, TypeStep, PTL DEF Spec, LedgerOnlyGrows

------------------------------------------------------------------------------
(* Durable server execution.                                               *)

RequestStep(r) ==
    Arrive(r) \/ Refuse(r) \/ Throttle(r) \/ HandlerStep(r) \/ Disconnect(r)

(* The handler of r is where it was, or was dropped with its process.      *)
StandsStill(r) ==
    /\ pc'[r] = pc[r] \/ (pc[r] \in HandlerSteps /\ pc'[r] = "dead")
    /\ tier'[r] = tier[r]
    /\ reply'[r] = reply[r]
    /\ sent'[r] = sent[r]
    /\ body'[r] = body[r]

(* A handler moves by its own steps only.                                  *)
LEMMA OthersStandStill ==
    ASSUME TypeOK, [Next]_vars, NEW r \in Requests
    PROVE  RequestStep(r) \/ StandsStill(r)
<1>. USE DEF TypeOK, StandsStill
<1>1. ASSUME NEW q \in Requests, q # r, RequestStep(q)
      PROVE  StandsStill(r)
  <2>. USE <1>1 DEF RequestStep, Goto, Answer, historyVars
  <2>1. CASE Arrive(q) \/ Refuse(q) \/ Throttle(q) \/ Disconnect(q)
    BY <2>1 DEF Arrive, Refuse, Throttle, Disconnect
  <2>2. CASE Inspect(q) \/ Begin(q)
    BY <2>2 DEF Inspect, Begin, AnswerFromRow, StorageUnavailable
  <2>3. CASE Verdict(q)
    BY <2>3 DEF Verdict, AfterVerdict
  <2>4. CASE Lookup(q) \/ Park(q)
    BY <2>4 DEF Lookup, Park, StorageUnavailable
  <2>5. CASE Send(q) \/ UpstreamAnswers(q) \/ UpstreamError(q) \/ Complete(q)
    BY <2>5 DEF Send, UpstreamAnswers, UpstreamError, Complete
  <2>. QED
    BY <2>1, <2>2, <2>3, <2>4, <2>5 DEF HandlerStep
<1>2. ASSUME NEW o \in Operators, Decide(o) \/ Audit(o) \/ DisconnectOperator(o)
      PROVE  StandsStill(r)
  BY <1>2 DEF Decide, Audit, DisconnectOperator, handlerVars, historyVars
<1>3. ASSUME NEW i \in Instances, Start(i) \/ Crash(i) \/ Reconcile(i)
      PROVE  StandsStill(r)
  BY <1>3 DEF Start, Crash, Reconcile, handlerVars, historyVars
<1>4. ASSUME NEW k \in Keys, Elapse(k)
      PROVE  StandsStill(r)
  BY <1>4 DEF Elapse, handlerVars, historyVars
<1>5. CASE UNCHANGED vars
  BY <1>5 DEF vars, handlerVars, historyVars
<1>. QED
  BY <1>1, <1>2, <1>3, <1>4, <1>5 DEF Next, RequestStep

BeforeSend == {"idle", "inspect", "verdict", "lookup", "park", "begin", "send"}

(* The handler owns the execution of its key: its begin was accepted.      *)
Committed(r) == sent[r] \/ pc[r] = "send"

(* AtMostOneAttempt is not inductive: a handler that has begun, and has    *)
(* not sent yet, already excludes every other one.                         *)
SentAfterBegin == \A r \in Requests : pc[r] \in BeforeSend => ~sent[r]

CommittedIsStored ==
    \A r \in Requests : Committed(r) =>
        /\ executions[Key(r)].state # "missing"
        /\ executions[Key(r)].digest = call[r].payload
        /\ \E n \in DOMAIN entries :
               entries[n] = StageRow("ServerExecutionIntent", Key(r))

OneCommitted ==
    \A r, s \in Requests : Committed(r) /\ Committed(s) /\ Key(r) = Key(s) => r = s

ExecutionInv == TypeInv /\ SentAfterBegin /\ CommittedIsStored /\ OneCommitted

(* Only an accepted begin commits a handler.                               *)
LEMMA CommitsByBegin ==
    ASSUME TypeOK, [Next]_vars, NEW r \in Requests, Committed(r)', ~Committed(r)
    PROVE  Begin(r) /\ BeginTx(Key(r), call[r].payload, at[r])
<1>. USE DEF Committed
<1>1. CASE StandsStill(r)
  BY <1>1 DEF StandsStill
<1>2. CASE RequestStep(r)
  <2>. USE DEF TypeOK, Goto, Answer, historyVars
  <2>1. CASE Arrive(r) \/ Refuse(r) \/ Throttle(r) \/ Disconnect(r)
    BY <2>1 DEF Arrive, Refuse, Throttle, Disconnect
  <2>2. CASE Inspect(r)
    BY <2>2 DEF Inspect, AnswerFromRow, StorageUnavailable
  <2>3. CASE Verdict(r)
    BY <2>3 DEF Verdict, AfterVerdict
  <2>4. CASE Lookup(r) \/ Park(r)
    BY <2>4 DEF Lookup, Park, StorageUnavailable
  <2>5. CASE Begin(r)
    BY <2>5 DEF Begin, AnswerFromRow, StorageUnavailable
  <2>6. CASE Send(r) \/ UpstreamAnswers(r) \/ UpstreamError(r) \/ Complete(r)
    BY <2>6 DEF Send, UpstreamAnswers, UpstreamError, Complete
  <2>. QED
    BY <1>2, <2>1, <2>2, <2>3, <2>4, <2>5, <2>6 DEF RequestStep, HandlerStep
<1>. QED
  BY <1>1, <1>2, OthersStandStill

LEMMA SentAfterBeginStep ==
    ASSUME TypeOK, SentAfterBegin, [Next]_vars
    PROVE  SentAfterBegin'
<1>. SUFFICES ASSUME NEW r \in Requests, pc'[r] \in BeforeSend
              PROVE  ~sent'[r]
  BY DEF SentAfterBegin
<1>. USE DEF SentAfterBegin, BeforeSend
<1>1. CASE StandsStill(r)
  BY <1>1 DEF StandsStill
<1>2. CASE RequestStep(r)
  <2>. USE DEF TypeOK, Goto, Answer, historyVars
  <2>1. CASE Arrive(r) \/ Refuse(r) \/ Throttle(r) \/ Disconnect(r)
    BY <2>1 DEF Arrive, Refuse, Throttle, Disconnect
  <2>2. CASE Inspect(r) \/ Begin(r)
    BY <2>2 DEF Inspect, Begin, AnswerFromRow, StorageUnavailable
  <2>3. CASE Verdict(r)
    BY <2>3 DEF Verdict, AfterVerdict
  <2>4. CASE Lookup(r) \/ Park(r)
    BY <2>4 DEF Lookup, Park, StorageUnavailable
  <2>5. CASE Send(r) \/ UpstreamAnswers(r) \/ UpstreamError(r) \/ Complete(r)
    BY <2>5 DEF Send, UpstreamAnswers, UpstreamError, Complete
  <2>. QED
    BY <1>2, <2>1, <2>2, <2>3, <2>4, <2>5 DEF RequestStep, HandlerStep
<1>. QED
  BY <1>1, <1>2, OthersStandStill

LEMMA CommittedIsStoredStep ==
    ASSUME ExecutionInv, [Next]_vars
    PROVE  CommittedIsStored'
<1>1. TypeOK /\ LedgerTypeOK /\ CommittedIsStored
  BY DEF ExecutionInv, TypeInv, TypeOK
<1>2. NothingLost /\ call' = call
  BY StepKeepsLedger, RequestStepTypes, OtherStepTypes, <1>1 DEF Next, ExecutionInv
<1>3. SUFFICES ASSUME NEW r \in Requests, Committed(r)'
               PROVE  /\ executions'[Key(r)].state # "missing"
                      /\ executions'[Key(r)].digest = call[r].payload
                      /\ \E n \in DOMAIN entries' :
                             entries'[n] = StageRow("ServerExecutionIntent", Key(r))
  BY <1>2 DEF CommittedIsStored, Key
<1>4. Key(r) \in Keys /\ call[r].payload \in Payloads
  BY <1>1, CallTypes
<1>5. CASE Committed(r)
  <2>1. /\ executions[Key(r)].state # "missing"
        /\ executions[Key(r)].digest = call[r].payload
        /\ \E n \in DOMAIN entries : entries[n] = StageRow("ServerExecutionIntent", Key(r))
    BY <1>1, <1>5 DEF CommittedIsStored
  <2>. QED
    BY <1>2, <1>4, <2>1 DEF NothingLost, ExecutionsStay, ChainGrows
<1>6. CASE ~Committed(r)
  <2>1. BeginTx(Key(r), call[r].payload, at[r])
    BY <1>1, <1>3, <1>6, CommitsByBegin
  <2>2. at[r] \in Instances \cup {NoValue}
    BY <1>1 DEF TypeOK
  <2>. QED
    BY <1>1, <1>4, <2>1, <2>2, BeginKeeps
<1>. QED
  BY <1>5, <1>6

(* A begin is accepted only where no execution stands, and every committed *)
(* handler has one.                                                        *)
LEMMA OneCommittedStep ==
    ASSUME ExecutionInv, [Next]_vars
    PROVE  OneCommitted'
<1>1. TypeOK /\ LedgerTypeOK /\ CommittedIsStored /\ OneCommitted
  BY DEF ExecutionInv, TypeInv, TypeOK
<1>2. call' = call
  BY RequestStepTypes, OtherStepTypes, <1>1 DEF Next
<1>3. ASSUME NEW r \in Requests, NEW s \in Requests, Key(r) = Key(s), r # s,
             Committed(r)', ~Committed(r), Committed(s)'
      PROVE  FALSE
  <2>1. Begin(r) /\ BeginTx(Key(r), call[r].payload, at[r])
    BY <1>1, <1>3, CommitsByBegin
  <2>2. executions[Key(r)].state = "missing"
    <3>1. at[r] \in Instances \cup {NoValue} /\ Key(r) \in Keys /\ call[r].payload \in Payloads
      BY <1>1, CallTypes DEF TypeOK
    <3>. QED
      BY <1>1, <2>1, <3>1, BeginKeeps
  <2>3. ~Committed(s)
    BY <1>1, <1>3, <2>2 DEF CommittedIsStored
  <2>4. pc'[s] = pc[s] /\ sent'[s] = sent[s]
    BY <1>1, <1>3, <2>1
    DEF Begin, AnswerFromRow, StorageUnavailable, Goto, Answer, historyVars, TypeOK
  <2>. QED
    BY <1>3, <2>3, <2>4 DEF Committed
<1>. QED
  BY <1>1, <1>2, <1>3 DEF OneCommitted, Key

LEMMA ExecutionInvariant == Spec => []ExecutionInv
<1>1. Init => ExecutionInv
  <2>. SUFFICES ASSUME Init PROVE ExecutionInv
    OBVIOUS
  <2>1. \A r \in Requests : ~sent[r] /\ ~Committed(r)
    BY DEF Init, Committed
  <2>. QED
    BY <2>1, TypeInit
    DEF ExecutionInv, SentAfterBegin, CommittedIsStored, OneCommitted
<1>2. ExecutionInv /\ [Next]_vars => ExecutionInv'
  <2>. SUFFICES ASSUME ExecutionInv, [Next]_vars PROVE ExecutionInv'
    OBVIOUS
  <2>1. TypeInv' /\ SentAfterBegin'
    BY TypeStep, SentAfterBeginStep DEF ExecutionInv, TypeInv
  <2>2. CommittedIsStored' /\ OneCommitted'
    BY CommittedIsStoredStep, OneCommittedStep
  <2>. QED
    BY <2>1, <2>2 DEF ExecutionInv
<1>. QED
  BY <1>1, <1>2, PTL DEF Spec

(* At most one request per execution key ever contacts the upstream,       *)
(* however many requests, processes, crashes and storage faults there are. *)
THEOREM AttemptsAreUnique == Spec => []AtMostOneAttempt
<1>1. ExecutionInv => AtMostOneAttempt
  BY DEF ExecutionInv, OneCommitted, Committed, AtMostOneAttempt
<1>. QED
  BY <1>1, ExecutionInvariant, PTL

(* Behind every attempt the execution and its intent stage stand           *)
(* committed, for exactly the payload that was sent, for ever.             *)
THEOREM IntentsComeFirst == Spec => []IntentBehindAttempt
<1>1. ExecutionInv => IntentBehindAttempt
  BY DEF ExecutionInv, CommittedIsStored, Committed, IntentBehindAttempt
<1>. QED
  BY <1>1, ExecutionInvariant, PTL

------------------------------------------------------------------------------
(* Human review.                                                           *)

Cleared(r) == pc[r] \in {"begin", "send"} \/ sent[r]

(* AttemptIsAuthorized is not inductive: the approval is read three steps  *)
(* before the attempt, and must hold from there on.                        *)
ClearedIsAuthorized ==
    \A r \in Requests : Cleared(r) /\ Enforced(tier[r]) =>
        tier[r] = "Yellow" /\ pendings[call[r].id].decision = "allow"

LookupIsYellow == \A r \in Requests : pc[r] = "lookup" => tier[r] = "Yellow"

ReviewInv == ExecutionInv /\ ClearedIsAuthorized /\ LookupIsYellow /\ PendingIsBacked

(* A request that is being reviewed is Yellow.                             *)
LEMMA LookupIsYellowStep ==
    ASSUME ReviewInv, [Next]_vars
    PROVE  LookupIsYellow'
<1>1. TypeOK /\ LookupIsYellow
  BY DEF ReviewInv, ExecutionInv, TypeInv
<1>2. SUFFICES ASSUME NEW r \in Requests, pc'[r] = "lookup"
               PROVE  tier'[r] = "Yellow"
  BY DEF LookupIsYellow
<1>. USE DEF TypeOK, LookupIsYellow
<1>3. CASE StandsStill(r)
  BY <1>1, <1>2, <1>3 DEF StandsStill
<1>4. CASE RequestStep(r)
  <2>. USE <1>1, <1>2 DEF Goto, Answer
  <2>1. CASE Arrive(r) \/ Refuse(r) \/ Throttle(r) \/ Disconnect(r)
    BY <2>1 DEF Arrive, Refuse, Throttle, Disconnect
  <2>2. CASE Inspect(r) \/ Begin(r)
    BY <2>2 DEF Inspect, Begin, AnswerFromRow, StorageUnavailable
  <2>3. CASE Verdict(r)
    BY <2>3 DEF Verdict, AfterVerdict
  <2>4. CASE Lookup(r) \/ Park(r)
    BY <2>4 DEF Lookup, Park, StorageUnavailable
  <2>5. CASE Send(r) \/ UpstreamAnswers(r) \/ UpstreamError(r) \/ Complete(r)
    BY <2>5 DEF Send, UpstreamAnswers, UpstreamError, Complete
  <2>. QED
    BY <1>4, <2>1, <2>2, <2>3, <2>4, <2>5 DEF RequestStep, HandlerStep
<1>. QED
  BY <1>1, <1>3, <1>4, OthersStandStill

(* A handler is cleared by a verdict that enforces nothing, or by reading  *)
(* an approval.                                                            *)
LEMMA ClearedByVerdictOrApproval ==
    ASSUME TypeOK, SentAfterBegin, LookupIsYellow, [Next]_vars,
           NEW r \in Requests, Cleared(r)', Enforced(tier'[r])
    PROVE  /\ tier'[r] = tier[r]
           /\ \/ Cleared(r)
              \/ tier[r] = "Yellow" /\ pendings[call[r].id].decision = "allow"
<1>. USE DEF TypeOK, Cleared
<1>1. CASE StandsStill(r)
  BY <1>1 DEF StandsStill
<1>2. CASE RequestStep(r)
  <2>. USE DEF Goto, Answer, historyVars, SentAfterBegin, BeforeSend
  <2>1. CASE Arrive(r) \/ Refuse(r) \/ Throttle(r) \/ Disconnect(r)
    BY <2>1 DEF Arrive, Refuse, Throttle, Disconnect
  <2>2. CASE Inspect(r) \/ Begin(r)
    BY <2>2 DEF Inspect, Begin, AnswerFromRow, StorageUnavailable
  <2>3. CASE Verdict(r)
    <3>1. PICK t \in TiersOf[call[r].payload] :
              tier' = [tier EXCEPT ![r] = t] /\ AfterVerdict(r, t)
      BY <2>3 DEF Verdict
    <3>2. Enforced(t)
      BY <3>1
    <3>3. pc'[r] \in {"lookup", "park", "done"}
      BY <3>1, <3>2 DEF AfterVerdict
    <3>. QED
      BY <2>3, <3>3 DEF Verdict
  <2>4. CASE Lookup(r)
    BY <2>4 DEF Lookup, StorageUnavailable, LookupIsYellow
  <2>5. CASE Park(r)
    BY <2>5 DEF Park
  <2>6. CASE Send(r) \/ UpstreamAnswers(r) \/ UpstreamError(r) \/ Complete(r)
    BY <2>6 DEF Send, UpstreamAnswers, UpstreamError, Complete
  <2>. QED
    BY <1>2, <2>1, <2>2, <2>3, <2>4, <2>5, <2>6 DEF RequestStep, HandlerStep
<1>. QED
  BY <1>1, <1>2, OthersStandStill

LEMMA ClearedIsAuthorizedStep ==
    ASSUME ReviewInv, [Next]_vars
    PROVE  ClearedIsAuthorized'
<1>1. /\ TypeOK /\ SentAfterBegin /\ LookupIsYellow /\ ClearedIsAuthorized
      /\ DecisionsStay
  BY StepKeepsLedger DEF ReviewInv, ExecutionInv, TypeInv, NothingLost
<1>2. call' = call
  BY RequestStepTypes, OtherStepTypes, <1>1 DEF Next
<1>3. SUFFICES ASSUME NEW r \in Requests, Cleared(r)', Enforced(tier'[r])
               PROVE  tier'[r] = "Yellow" /\ pendings'[call[r].id].decision = "allow"
  BY <1>2 DEF ClearedIsAuthorized, Enforced
<1>4. tier'[r] = tier[r] /\ tier[r] = "Yellow" /\ pendings[call[r].id].decision = "allow"
  BY <1>1, <1>3, ClearedByVerdictOrApproval DEF ClearedIsAuthorized
<1>5. call[r].id \in Ids
  BY <1>1, CallTypes
<1>. QED
  BY <1>1, <1>4, <1>5 DEF DecisionsStay

(* "pending" is answered by a step that saw or made the row.               *)
LEMMA PendingIsBackedStep ==
    ASSUME ReviewInv, [Next]_vars
    PROVE  PendingIsBacked'
<1>1. TypeOK /\ LedgerTypeOK /\ PendingIsBacked /\ DecisionsStay
  BY StepKeepsLedger DEF ReviewInv, ExecutionInv, TypeInv, TypeOK, NothingLost
<1>2. call' = call
  BY RequestStepTypes, OtherStepTypes, <1>1 DEF Next
<1>3. SUFFICES ASSUME NEW r \in Requests, reply'[r] = "pending"
               PROVE  pendings'[call[r].id].decision # "absent"
  BY <1>2 DEF PendingIsBacked
<1>4. call[r].id \in Ids /\ call[r].tenant \in Tenants /\ call[r].agent \in Agents
  BY <1>1, CallTypes
<1>5. CASE reply[r] = "pending"
  BY <1>1, <1>4, <1>5 DEF PendingIsBacked, DecisionsStay
<1>6. CASE reply[r] # "pending"
  <2>1. RequestStep(r)
    BY <1>1, <1>3, <1>6, OthersStandStill DEF StandsStill
  <2>. USE <1>1, <1>3, <1>6 DEF Goto, Answer, TypeOK
  <2>2. CASE Arrive(r) \/ Refuse(r) \/ Throttle(r) \/ Disconnect(r)
    BY <2>2 DEF Arrive, Refuse, Throttle, Disconnect
  <2>3. CASE Inspect(r) \/ Begin(r)
    BY <2>3 DEF Inspect, Begin, AnswerFromRow, StorageUnavailable
  <2>4. CASE Verdict(r)
    BY <2>4 DEF Verdict, AfterVerdict
  <2>5. CASE Lookup(r)
    <3>1. pendings[call[r].id].decision = "undecided"
      BY <2>5 DEF Lookup, StorageUnavailable
    <3>. QED
      BY <1>4, <3>1 DEF DecisionsStay
  <2>6. CASE Park(r)
    <3>1. ParkTx(call[r].id, call[r].tenant, call[r].agent)
      BY <2>6 DEF Park
    <3>. QED
      BY <1>4, <3>1, ParkKeeps
  <2>7. CASE Send(r) \/ UpstreamAnswers(r) \/ UpstreamError(r) \/ Complete(r)
    BY <2>7 DEF Send, UpstreamAnswers, UpstreamError, Complete
  <2>. QED
    BY <2>1, <2>2, <2>3, <2>4, <2>5, <2>6, <2>7 DEF RequestStep, HandlerStep
<1>. QED
  BY <1>5, <1>6

LEMMA ReviewInvariant == Spec => []ReviewInv
<1>1. Init => ClearedIsAuthorized /\ LookupIsYellow /\ PendingIsBacked
  BY DEF Init, ClearedIsAuthorized, LookupIsYellow, PendingIsBacked, Cleared
<1>2. ReviewInv /\ [Next]_vars =>
          ClearedIsAuthorized' /\ LookupIsYellow' /\ PendingIsBacked'
  BY ClearedIsAuthorizedStep, LookupIsYellowStep, PendingIsBackedStep
<1>. QED
  BY <1>1, <1>2, ExecutionInvariant, PTL DEF Spec, ReviewInv

(* In enforce mode no Red or unreviewed Yellow call reaches the upstream,  *)
(* whatever happens between the operator's approval and the attempt.       *)
THEOREM AttemptsAreAuthorized == Spec => []AttemptIsAuthorized
<1>1. ReviewInv => AttemptIsAuthorized
  BY DEF ReviewInv, ClearedIsAuthorized, Cleared, AttemptIsAuthorized
<1>. QED
  BY <1>1, ReviewInvariant, PTL

(* Whoever was told "pending" has a row that an operator can decide.       *)
THEOREM PendingsAreBacked == Spec => []PendingIsBacked
<1>1. ReviewInv => PendingIsBacked
  BY DEF ReviewInv
<1>. QED
  BY <1>1, ReviewInvariant, PTL

------------------------------------------------------------------------------
(***************************************************************************)
(* Durable server execution: the chain, the outbox and the table tell one  *)
(* end of each execution, every result that is told is the upstream's, and *)
(* the gateway implements the promise AtMostOnce states.                   *)
(*                                                                         *)
(* For the three tables a step is an accepted begin, an accepted           *)
(* completion, a pass of a reconciler, or changes nothing but the age of   *)
(* an execution.                                                           *)
(***************************************************************************)

(* Of the stage rows a step adds exactly those in R, each once.            *)
StagesAdded(R) ==
    /\ ChainGrows
    /\ \A n \in DOMAIN entries' :
           n \notin DOMAIN entries /\ entries'[n].intent \in StageIntents => entries'[n] \in R
    /\ \A row \in R : InChain(row)'
    /\ \A m, n \in DOMAIN entries' :
           /\ m \notin DOMAIN entries /\ n \notin DOMAIN entries
           /\ entries'[m] \in R /\ entries'[m] = entries'[n]
           => m = n

(* No execution moves.                                                     *)
ExecutionsRest ==
    /\ \A k \in Keys : executions'[k] = executions[k]
                           \/ executions'[k] = [executions[k] EXCEPT !.aged = TRUE]
    /\ outbox' = outbox
    /\ StagesAdded({})

------------------------------------------------------------------------------
(* What the steps do to the tables.                                        *)

(* A row appended is the only stage row added, when it is one.             *)
LEMMA AppendAddsStage ==
    ASSUME LedgerTypeOK, NEW row \in Entry, AppendRow(row)
    PROVE  /\ row.intent \in StageIntents => StagesAdded({row})
           /\ row.intent \notin StageIntents => StagesAdded({})
<1>1. ChainGrows /\ \E n \in DOMAIN entries' : entries'[n] = row
  BY AppendKeepsChain DEF LedgerTypeOK
<1>2. \A n \in DOMAIN entries' : n \notin DOMAIN entries =>
          entries'[n] = row /\ n = Len(entries) + 1
  BY AppendAddsRow DEF LedgerTypeOK
<1>. QED
  BY <1>1, <1>2 DEF StagesAdded, InChain

LEMMA NothingAddsNoStage ==
    ASSUME UNCHANGED entries
    PROVE  StagesAdded({})
BY DEF StagesAdded, ChainGrows

(* A throttled request, a verdict and a decision append rows of other      *)
(* kinds, or fail to.                                                      *)
LEMMA TryAppendAddsNoStage ==
    ASSUME LedgerTypeOK, NEW row \in Entry, row.intent \notin StageIntents, TryAppend(row)
    PROVE  ExecutionsRest
<1>1. AppendRow(row) \/ UNCHANGED entries
  BY DEF TryAppend
<1>2. UNCHANGED <<executions, outbox>>
  BY DEF TryAppend
<1>. QED
  BY <1>1, <1>2, AppendAddsStage, NothingAddsNoStage DEF ExecutionsRest

LEMMA LoggedStepsRest ==
    ASSUME TypeInv,
           \/ \E r \in Requests : Throttle(r) \/ Verdict(r)
           \/ \E o \in Operators : Audit(o)
    PROVE  ExecutionsRest
<1>1. TypeOK /\ LedgerTypeOK
  BY DEF TypeInv, TypeOK
<1>2. SUFFICES \E row \in Entry : row.intent \notin StageIntents /\ TryAppend(row)
  BY <1>1, TryAppendAddsNoStage
<1>3. ASSUME NEW r \in Requests, Throttle(r)
      PROVE  \E row \in Entry : row.intent \notin StageIntents /\ TryAppend(row)
  <2>. DEFINE row == Row("RateLimitDenied", <<call[r].tenant, call[r].agent>>, call[r].id)
  <2>1. row \in Entry /\ TryAppend(row)
    BY <1>1, <1>3, CallTypes, RowTypes DEF Throttle
  <2>2. row.intent \notin StageIntents
    BY DEF Row, StageIntents
  <2>. QED
    BY <2>1, <2>2
<1>4. ASSUME NEW r \in Requests, Verdict(r)
      PROVE  \E row \in Entry : row.intent \notin StageIntents /\ TryAppend(row)
  <2>1. PICK t \in TiersOf[call[r].payload] :
            TryAppend(Row(VerdictIntent(t), call[r].agent, call[r].id))
    BY <1>4 DEF Verdict
  <2>2. t \in Tiers
    BY <1>1, CallTypes, GatewayAssumption
  <2>3. VerdictIntent(t) \in VerdictIntents
    BY <2>2 DEF VerdictIntent, Tiers, VerdictIntents
  <2>. DEFINE row == Row(VerdictIntent(t), call[r].agent, call[r].id)
  <2>4. row \in Entry
    BY <1>1, <2>3, CallTypes, RowTypes DEF Intents
  <2>5. row.intent \notin StageIntents
    BY <2>3 DEF Row, VerdictIntents, StageIntents
  <2>. QED
    BY <2>1, <2>4, <2>5
<1>5. ASSUME NEW o \in Operators, Audit(o)
      PROVE  \E row \in Entry : row.intent \notin StageIntents /\ TryAppend(row)
  <2>1. DecisionIntent(order[o].decision) \in DecisionIntents
    BY DEF DecisionIntent, DecisionIntents
  <2>2. order[o].id \in Ids /\ pendings[order[o].id].agent \in Agents
    <3>1. order[o].id \in Ids
      BY <1>1, CallTypes
    <3>2. pendings[order[o].id] \in Pending /\ pendings[order[o].id].decision # "absent"
      BY <1>1, <1>5, <3>1 DEF LedgerTypeOK, TypeInv, AuditIsBacked, Audit
    <3>. QED
      BY <3>1, <3>2 DEF Pending
  <2>. DEFINE row == Row(DecisionIntent(order[o].decision),
                         pendings[order[o].id].agent, order[o].id)
  <2>3. row \in Entry
    BY <2>1, <2>2, RowTypes DEF Intents
  <2>4. row.intent \notin StageIntents
    BY <2>1 DEF Row, DecisionIntents, StageIntents
  <2>. QED
    BY <1>5, <2>3, <2>4 DEF Audit
<1>. QED
  BY <1>3, <1>4, <1>5

(* What a step may do to the executions.                                   *)
LEMMA StageCases ==
    ASSUME TypeInv, [Next]_vars
    PROVE  \/ ExecutionsRest
           \/ \E r \in Requests : Begin(r) /\ BeginTx(Key(r), call[r].payload, at[r])
           \/ \E r \in Requests : Complete(r) /\ CompleteTx(Key(r), call[r].payload, body[r])
           \/ \E i \in Instances : Reconcile(i)
<1>1. TypeOK /\ LedgerTypeOK
  BY DEF TypeInv, TypeOK
<1>2. ASSUME UNCHANGED <<entries, executions, outbox>>
      PROVE  ExecutionsRest
  BY <1>2, NothingAddsNoStage DEF ExecutionsRest
<1>3. ASSUME NEW r \in Requests,
             \/ Arrive(r) \/ Refuse(r) \/ Inspect(r) \/ Lookup(r) \/ Send(r)
             \/ UpstreamAnswers(r) \/ UpstreamError(r) \/ Disconnect(r)
      PROVE  ExecutionsRest
  BY <1>2, <1>3 DEF Arrive, Refuse, Inspect, Lookup, Send, UpstreamAnswers, UpstreamError,
                    Disconnect, storeVars
<1>4. ASSUME NEW r \in Requests, Park(r)
      PROVE  ExecutionsRest
  BY <1>2, <1>4 DEF Park, ParkTx, storeVars
<1>5. ASSUME NEW r \in Requests, Begin(r), ~BeginTx(Key(r), call[r].payload, at[r])
      PROVE  ExecutionsRest
  BY <1>2, <1>5 DEF Begin, storeVars
<1>6. ASSUME NEW r \in Requests, Complete(r), ~CompleteTx(Key(r), call[r].payload, body[r])
      PROVE  ExecutionsRest
  BY <1>2, <1>6 DEF Complete, storeVars
<1>7. ASSUME NEW o \in Operators, Decide(o) \/ DisconnectOperator(o)
      PROVE  ExecutionsRest
  BY <1>2, <1>7 DEF Decide, DecideTx, DisconnectOperator, storeVars
<1>8. ASSUME NEW i \in Instances, Start(i) \/ Crash(i)
      PROVE  ExecutionsRest
  BY <1>2, <1>8 DEF Start, Crash, storeVars
<1>9. ASSUME NEW k \in Keys, Elapse(k)
      PROVE  ExecutionsRest
  BY <1>1, <1>9, NothingAddsNoStage DEF Elapse, ExecutionsRest, LedgerTypeOK
<1>10. CASE UNCHANGED vars
  BY <1>2, <1>10 DEF vars, storeVars
<1>. QED
  BY <1>3, <1>4, <1>5, <1>6, <1>7, <1>8, <1>9, <1>10, LoggedStepsRest DEF Next, HandlerStep

------------------------------------------------------------------------------
(* One end.                                                                *)

(* The states a row of server_executions can be in.                        *)
StageShape(k) ==
    /\ <<executions[k].state, executions[k].recon>>
           \in {<<"missing", "none">>, <<"in_flight", "pending">>,
                <<"in_flight", "uncertain">>, <<"completed", "resolved">>}
    /\ executions[k].state # "completed" => executions[k].result = NoValue

(* What the outbox and the chain say of it.                                *)
StageIsTold(k) ==
    /\ [key |-> k, stage |-> "completed"] \in outbox <=> executions[k].state = "completed"
    /\ [key |-> k, stage |-> "uncertain"] \in outbox <=> executions[k].recon = "uncertain"
    /\ InChain(StageRow("ServerExecutionIntent", k)) <=> executions[k].state # "missing"
    /\ InChain(StageRow("ServerExecutionCompleted", k)) <=> executions[k].state = "completed"
    /\ InChain(StageRow("ServerExecutionUncertain", k)) <=> executions[k].recon = "uncertain"

TerminalOnce(k) ==
    \A m, n \in DOMAIN entries :
        entries[m] \in TerminalRows(k) /\ entries[n] \in TerminalRows(k) => m = n

StageInv == TypeInv /\ \A k \in Keys : StageShape(k) /\ StageIsTold(k) /\ TerminalOnce(k)

(* The chain shows the stage rows it showed, and those just added.         *)
LEMMA ChainTellsStages ==
    ASSUME NEW R, StagesAdded(R), NEW k \in Keys, NEW s \in StageIntents
    PROVE  InChain(StageRow(s, k))' <=> InChain(StageRow(s, k)) \/ StageRow(s, k) \in R
<1>1. StageRow(s, k).intent = s
  BY DEF StageRow, Row
<1>. QED
  BY <1>1 DEF StagesAdded, ChainGrows, InChain

(* A terminal row may be added where the chain shows none.                 *)
LEMMA TerminalStaysOnce ==
    ASSUME NEW R, StagesAdded(R), NEW k \in Keys, TerminalOnce(k),
           \A x, y \in R \cap TerminalRows(k) : x = y,
           R \cap TerminalRows(k) # {} => \A row \in TerminalRows(k) : ~InChain(row)
    PROVE  TerminalOnce(k)'
<1>1. \A row \in TerminalRows(k) : row.intent \in StageIntents
  BY DEF TerminalRows, StageRow, Row, StageIntents
<1>2. SUFFICES ASSUME NEW m \in DOMAIN entries', NEW n \in DOMAIN entries',
                      entries'[m] \in TerminalRows(k), entries'[n] \in TerminalRows(k)
               PROVE  m = n
  BY DEF TerminalOnce, TerminalRows
<1>3. \A j \in DOMAIN entries' : j \notin DOMAIN entries /\ entries'[j] \in TerminalRows(k)
          => entries'[j] \in R \cap TerminalRows(k)
  BY <1>1 DEF StagesAdded
<1>4. \A j \in DOMAIN entries' : j \in DOMAIN entries => entries'[j] = entries[j]
  BY DEF StagesAdded, ChainGrows
<1>5. CASE R \cap TerminalRows(k) = {}
  BY <1>2, <1>3, <1>4, <1>5 DEF TerminalOnce
<1>6. CASE R \cap TerminalRows(k) # {}
  <2>1. m \notin DOMAIN entries /\ n \notin DOMAIN entries
    BY <1>2, <1>4, <1>6 DEF InChain
  <2>2. entries'[m] \in R /\ entries'[n] \in R /\ entries'[m] = entries'[n]
    BY <1>2, <1>3, <2>1
  <2>. QED
    BY <2>1, <2>2 DEF StagesAdded
<1>. QED
  BY <1>5, <1>6

(* A stage row is terminal for its own execution only.                     *)
LEMMA TerminalRowsAre ==
    ASSUME NEW k \in Keys, NEW l \in Keys
    PROVE  /\ StageRow("ServerExecutionIntent", k) \notin TerminalRows(l)
           /\ StageRow("ServerExecutionCompleted", k) \in TerminalRows(l) => k = l
           /\ StageRow("ServerExecutionUncertain", k) \in TerminalRows(l) => k = l
BY StageRowsDiffer DEF TerminalRows, StageIntents

LEMMA RestKeepsStages ==
    ASSUME StageInv, ExecutionsRest, NEW k \in Keys
    PROVE  (StageShape(k) /\ StageIsTold(k) /\ TerminalOnce(k))'
<1>1. executions[k] \in Execution
  BY DEF StageInv, TypeInv, TypeOK, LedgerTypeOK
<1>2. /\ executions'[k].state = executions[k].state
      /\ executions'[k].recon = executions[k].recon
      /\ executions'[k].result = executions[k].result
      /\ outbox' = outbox /\ StagesAdded({})
  BY <1>1 DEF ExecutionsRest, Execution
<1>3. \A s \in StageIntents : InChain(StageRow(s, k))' <=> InChain(StageRow(s, k))
  BY <1>2, ChainTellsStages
<1>4. TerminalOnce(k)'
  BY <1>2, TerminalStaysOnce DEF StageInv
<1>. QED
  BY <1>2, <1>3, <1>4 DEF StageInv, StageShape, StageIsTold, StageIntents

(* An execution that begins has no end yet.                                *)
LEMMA BeginKeepsStages ==
    ASSUME StageInv, NEW l \in Keys, NEW p \in Payloads, NEW i \in Instances \cup {NoValue},
           BeginTx(l, p, i), NEW k \in Keys
    PROVE  (StageShape(k) /\ StageIsTold(k) /\ TerminalOnce(k))'
<1>1. LedgerTypeOK /\ executions[l].state = "missing"
  BY BeginKeeps DEF StageInv, TypeInv, TypeOK
<1>. DEFINE row == StageRow("ServerExecutionIntent", l)
<1>2. row \in Entry /\ row.intent \in StageIntents
  BY RowTypes DEF StageRow, Row, StageIntents
<1>3. StagesAdded({row})
  BY <1>1, <1>2, AppendAddsStage DEF BeginTx
<1>4. /\ outbox' = outbox
      /\ \A j \in Keys : j # l => executions'[j] = executions[j]
      /\ executions'[l].state = "in_flight" /\ executions'[l].recon = "pending"
      /\ executions'[l].result = NoValue
  BY <1>1 DEF BeginTx, LedgerTypeOK
<1>. HIDE DEF row
<1>5. \A s \in StageIntents : InChain(StageRow(s, k))'
          <=> InChain(StageRow(s, k)) \/ (s = "ServerExecutionIntent" /\ k = l)
  <2>. TAKE s \in StageIntents
  <2>1. StageRow(s, k) \in {row} <=> s = "ServerExecutionIntent" /\ k = l
    BY StageRowsDiffer DEF row, StageIntents
  <2>. QED
    BY <1>3, <2>1, ChainTellsStages
<1>6. TerminalOnce(k)'
  <2>1. {row} \cap TerminalRows(k) = {}
    BY TerminalRowsAre DEF row
  <2>. QED
    BY <1>3, <2>1, TerminalStaysOnce DEF StageInv
<1>. QED
  BY <1>1, <1>4, <1>5, <1>6 DEF StageInv, StageShape, StageIsTold, StageIntents

(* A completion that the outbox accepts ends an execution that is pending. *)
LEMMA CompleteKeepsStages ==
    ASSUME StageInv, NEW l \in Keys, NEW p \in Payloads, NEW v \in Results \cup {NoValue},
           CompleteTx(l, p, v), NEW k \in Keys
    PROVE  (StageShape(k) /\ StageIsTold(k) /\ TerminalOnce(k))'
<1>1. LedgerTypeOK /\ executions[l] \in Execution
  BY DEF StageInv, TypeInv, TypeOK, LedgerTypeOK
<1>2. /\ executions[l].state = "in_flight" /\ OutboxFree(l)
      /\ executions' = [executions EXCEPT ![l] =
             [@ EXCEPT !.state = "completed", !.recon = "resolved", !.result = v]]
      /\ outbox' = outbox \cup {[key |-> l, stage |-> "completed"]}
      /\ AppendRow(StageRow("ServerExecutionCompleted", l))
  BY DEF CompleteTx, Completable
<1>3. executions[l].recon = "pending"
  BY <1>2 DEF StageInv, StageShape, StageIsTold, OutboxFree
<1>. DEFINE row == StageRow("ServerExecutionCompleted", l)
<1>4. row \in Entry /\ row.intent \in StageIntents
  BY RowTypes DEF StageRow, Row, StageIntents
<1>5. StagesAdded({row})
  BY <1>1, <1>2, <1>4, AppendAddsStage
<1>6. /\ \A j \in Keys : j # l => executions'[j] = executions[j]
      /\ executions'[l].state = "completed" /\ executions'[l].recon = "resolved"
  BY <1>1, <1>2 DEF LedgerTypeOK, Execution
<1>. HIDE DEF row
<1>7. \A s \in StageIntents : InChain(StageRow(s, k))'
          <=> InChain(StageRow(s, k)) \/ (s = "ServerExecutionCompleted" /\ k = l)
  <2>. TAKE s \in StageIntents
  <2>1. StageRow(s, k) \in {row} <=> s = "ServerExecutionCompleted" /\ k = l
    BY StageRowsDiffer DEF row, StageIntents
  <2>. QED
    BY <1>5, <2>1, ChainTellsStages
<1>8. TerminalOnce(k)'
  <2>1. {row} \cap TerminalRows(k) # {} => k = l
    BY TerminalRowsAre DEF row
  <2>2. \A r \in TerminalRows(l) : ~InChain(r)
    BY <1>2, <1>3 DEF StageInv, StageIsTold, TerminalRows
  <2>. QED
    BY <1>5, <2>1, <2>2, TerminalStaysOnce DEF StageInv
<1>9. StageShape(k)'
  BY <1>6 DEF StageInv, StageShape
<1>10. StageIsTold(k)'
  <2>1. CASE k # l
    BY <1>2, <1>6, <1>7, <2>1 DEF StageInv, StageIsTold, StageIntents
  <2>2. CASE k = l
    BY <1>2, <1>3, <1>6, <1>7, <2>2 DEF StageInv, StageIsTold, StageIntents
  <2>. QED
    BY <2>1, <2>2
<1>. QED
  BY <1>8, <1>9, <1>10

(* So does a reconciliation, for each execution of its batch.              *)
LEMMA ReconcileKeepsStages ==
    ASSUME StageInv, NEW i \in Instances, ReconcileTx(i), NEW k \in Keys
    PROVE  (StageShape(k) /\ StageIsTold(k) /\ TerminalOnce(k))'
<1>1. LedgerTypeOK /\ \A j \in Keys : executions[j] \in Execution
  BY DEF StageInv, TypeInv, TypeOK, LedgerTypeOK
<1>2. PICK K \in SUBSET Keys :
        /\ \A j \in K : executions[j].state = "in_flight" /\ executions[j].recon = "pending"
        /\ executions' = [j \in Keys |->
               IF j \in K THEN [executions[j] EXCEPT !.recon = "uncertain"]
                          ELSE executions[j]]
        /\ outbox' = outbox \cup {[key |-> j, stage |-> "uncertain"] : j \in K}
        /\ \A n \in DOMAIN entries' : n \notin DOMAIN entries =>
               \E j \in K : entries'[n] = StageRow("ServerExecutionUncertain", j)
        /\ \A j \in K : \E n \in DOMAIN entries' :
               entries'[n] = StageRow("ServerExecutionUncertain", j)
        /\ \A m, n \in DOMAIN entries' :
               m \notin DOMAIN entries /\ n \notin DOMAIN entries /\ entries'[m] = entries'[n]
               => m = n
  BY <1>1, ReconcileEffect
<1>. DEFINE R == {StageRow("ServerExecutionUncertain", j) : j \in K}
<1>3. StagesAdded(R)
  <2>1. ChainGrows
    BY <1>1, ReconcileKeeps DEF NothingLost
  <2>. QED
    BY <1>2, <2>1 DEF StagesAdded, InChain
<1>4. /\ k \in K => executions'[k] = [executions[k] EXCEPT !.recon = "uncertain"]
      /\ k \notin K => executions'[k] = executions[k]
  BY <1>2
<1>5. /\ executions'[k].state = executions[k].state
      /\ executions'[k].result = executions[k].result
      /\ executions'[k].recon = IF k \in K THEN "uncertain" ELSE executions[k].recon
  BY <1>1, <1>4 DEF Execution
<1>6. \A s \in StageIntents : InChain(StageRow(s, k))'
          <=> InChain(StageRow(s, k)) \/ (s = "ServerExecutionUncertain" /\ k \in K)
  <2>. TAKE s \in StageIntents
  <2>1. StageRow(s, k) \in R <=> s = "ServerExecutionUncertain" /\ k \in K
    BY StageRowsDiffer DEF StageIntents
  <2>. QED
    BY <1>3, <2>1, ChainTellsStages
<1>7. R \cap TerminalRows(k) \subseteq {StageRow("ServerExecutionUncertain", k)}
          /\ (R \cap TerminalRows(k) # {} => k \in K)
  BY TerminalRowsAre
<1>. HIDE DEF R
<1>8. TerminalOnce(k)'
  <2>1. k \in K => \A r \in TerminalRows(k) : ~InChain(r)
    BY <1>2 DEF StageInv, StageIsTold, TerminalRows
  <2>. QED
    BY <1>3, <1>7, <2>1, TerminalStaysOnce DEF StageInv
<1>9. StageShape(k)'
  BY <1>2, <1>5 DEF StageInv, StageShape
<1>10. StageIsTold(k)'
  <2>1. /\ [key |-> k, stage |-> "completed"] \in outbox'
               <=> [key |-> k, stage |-> "completed"] \in outbox
        /\ [key |-> k, stage |-> "uncertain"] \in outbox'
               <=> [key |-> k, stage |-> "uncertain"] \in outbox \/ k \in K
    BY <1>2
  <2>. QED
    BY <1>2, <1>5, <1>6, <2>1 DEF StageInv, StageIsTold, StageIntents
<1>. QED
  BY <1>8, <1>9, <1>10

LEMMA StepKeepsStages ==
    ASSUME StageInv, [Next]_vars
    PROVE  StageInv'
<1>1. TypeInv /\ TypeOK /\ LedgerTypeOK
  BY DEF StageInv, TypeInv, TypeOK
<1>2. SUFFICES ASSUME NEW k \in Keys
               PROVE  (StageShape(k) /\ StageIsTold(k) /\ TerminalOnce(k))'
  BY <1>1, TypeStep DEF StageInv
<1>3. \A r \in Requests : /\ Key(r) \in Keys /\ call[r].payload \in Payloads
                          /\ at[r] \in Instances \cup {NoValue}
                          /\ body[r] \in Results \cup {NoValue}
  BY <1>1, CallTypes DEF TypeOK
<1>4. CASE ExecutionsRest
  BY <1>4, RestKeepsStages
<1>5. CASE \E r \in Requests : BeginTx(Key(r), call[r].payload, at[r])
  BY <1>3, <1>5, BeginKeepsStages
<1>6. CASE \E r \in Requests : CompleteTx(Key(r), call[r].payload, body[r])
  BY <1>3, <1>6, CompleteKeepsStages
<1>7. CASE \E i \in Instances : Reconcile(i)
  BY <1>7, ReconcileKeepsStages DEF Reconcile
<1>. QED
  BY <1>1, <1>4, <1>5, <1>6, <1>7, StageCases

LEMMA StageInvariant == Spec => []StageInv
<1>1. ASSUME Init PROVE StageInv
  <2>1. TypeInv
    BY <1>1, TypeInit
  <2>2. entries = <<>> /\ outbox = {}
        /\ \A k \in Keys : /\ executions[k].state = "missing" /\ executions[k].recon = "none"
                           /\ executions[k].result = NoValue
    BY <1>1 DEF Init, LedgerInit
  <2>3. DOMAIN entries = {}
    BY <2>2
  <2>. QED
    BY <2>1, <2>2, <2>3 DEF StageInv, StageShape, StageIsTold, TerminalOnce, InChain
<1>2. StageInv /\ [Next]_vars => StageInv'
  BY StepKeepsStages
<1>. QED
  BY <1>1, <1>2, PTL DEF Spec

(* Of each execution the chain, the outbox and the table tell one end and  *)
(* the same, whatever races: a completion against a reconciliation, two    *)
(* reconcilers, a retry against either (ledger.rs:552-723, 1151-1202).     *)
THEOREM EndsAreUnique == Spec => []OneTerminalStage
<1>1. ASSUME StageInv PROVE OneTerminalStage
  <2>1. ASSUME NEW k \in Keys
        PROVE  /\ StageShape(k) /\ StageIsTold(k) /\ TerminalOnce(k)
               /\ executions[k].state # "completed" \/ executions[k].recon = "resolved"
               /\ k \in AwaitingStage
                      <=> /\ InChain(StageRow("ServerExecutionIntent", k))
                          /\ \A row \in TerminalRows(k) : ~InChain(row)
    BY <1>1 DEF StageInv, StageShape, StageIsTold, TerminalRows, AwaitingStage
  <2>. QED
    BY <2>1 DEF OneTerminalStage, TerminalOnce, StageIsTold
<1>. QED
  BY <1>1, StageInvariant, PTL

------------------------------------------------------------------------------
(* Results.                                                                *)

(* A handler that waits for the upstream, or holds its answer, has sent;   *)
(* one that told a result has finished.                                    *)
HandlerShape(r) ==
    /\ pc[r] \in {"await", "complete"} => sent[r]
    /\ pc[r] = "complete" => body[r] \in Results
    /\ reply[r] \in {"executed", "replayed"} => pc[r] = "done"

(* ResultsAreTheUpstreams is not inductive: the result of a completed      *)
(* execution is that of the request that sent it before anybody is told.   *)
CompletedIsSent ==
    \A k \in Keys : executions[k].state = "completed" =>
        \E s \in Requests : /\ sent[s] /\ Key(s) = k /\ pc[s] = "done"
                            /\ executions[k].digest = call[s].payload
                            /\ executions[k].result = body[s]

ToldIsStored ==
    \A r \in Requests : reply[r] \in {"executed", "replayed"} =>
        /\ executions[Key(r)].state = "completed"
        /\ executions[Key(r)].digest = call[r].payload
        /\ executions[Key(r)].result = body[r]

ResultInv == /\ ExecutionInv /\ StageInv
             /\ \A r \in Requests : HandlerShape(r)
             /\ CompletedIsSent /\ ToldIsStored

LEMMA HandlerShapeStep ==
    ASSUME TypeOK, [Next]_vars, NEW r \in Requests, HandlerShape(r)
    PROVE  HandlerShape(r)'
<1>. USE DEF HandlerShape
<1>1. CASE StandsStill(r)
  BY <1>1 DEF StandsStill, HandlerSteps
<1>2. CASE RequestStep(r)
  <2>. USE DEF TypeOK, Goto, Answer, historyVars, HandlerSteps
  <2>1. CASE Arrive(r) \/ Refuse(r) \/ Throttle(r) \/ Disconnect(r)
    BY <2>1 DEF Arrive, Refuse, Throttle, Disconnect
  <2>2. CASE Inspect(r) \/ Begin(r)
    BY <2>2 DEF Inspect, Begin, AnswerFromRow, StorageUnavailable
  <2>3. CASE Verdict(r)
    BY <2>3 DEF Verdict, AfterVerdict
  <2>4. CASE Lookup(r) \/ Park(r)
    BY <2>4 DEF Lookup, Park, StorageUnavailable
  <2>5. CASE Send(r) \/ UpstreamAnswers(r) \/ UpstreamError(r) \/ Complete(r)
    BY <2>5 DEF Send, UpstreamAnswers, UpstreamError, Complete
  <2>. QED
    BY <1>2, <2>1, <2>2, <2>3, <2>4, <2>5 DEF RequestStep, HandlerStep
<1>. QED
  BY <1>1, <1>2, OthersStandStill

(* A handler that has answered changes no more.                            *)
LEMMA DoneStaysDone ==
    ASSUME TypeOK, [Next]_vars, NEW r \in Requests, pc[r] = "done"
    PROVE  pc'[r] = "done" /\ sent'[r] = sent[r] /\ body'[r] = body[r] /\ reply'[r] = reply[r]
<1>1. ~RequestStep(r)
  BY DEF RequestStep, HandlerStep, HandlerSteps, Arrive, Refuse, Throttle, Disconnect, Inspect,
         Begin, Verdict, Lookup, Park, Send, UpstreamAnswers, UpstreamError, Complete
<1>2. StandsStill(r)
  BY <1>1, OthersStandStill
<1>. QED
  BY <1>2 DEF StandsStill, HandlerSteps

(* Only an accepted completion completes an execution.                     *)
LEMMA CompletedByCompletion ==
    ASSUME StageInv, [Next]_vars, NEW k \in Keys,
           executions[k].state # "completed", executions'[k].state = "completed"
    PROVE  \E r \in Requests : /\ Complete(r)
                               /\ CompleteTx(Key(r), call[r].payload, body[r])
                               /\ Key(r) = k
<1>1. TypeInv /\ LedgerTypeOK /\ executions[k] \in Execution
  BY DEF StageInv, TypeInv, TypeOK, LedgerTypeOK
<1>2. ~ExecutionsRest
  BY <1>1 DEF ExecutionsRest, Execution
<1>3. ~\E r \in Requests : BeginTx(Key(r), call[r].payload, at[r])
  BY <1>1 DEF BeginTx, LedgerTypeOK
<1>4. ~\E i \in Instances : Reconcile(i)
  BY <1>1 DEF Reconcile, ReconcileTx, Execution
<1>5. PICK r \in Requests : Complete(r) /\ CompleteTx(Key(r), call[r].payload, body[r])
  BY <1>1, <1>2, <1>3, <1>4, StageCases
<1>6. Key(r) = k
  BY <1>1, <1>5 DEF CompleteTx, LedgerTypeOK
<1>. QED
  BY <1>5, <1>6

LEMMA CompletedIsSentStep ==
    ASSUME ResultInv, [Next]_vars
    PROVE  CompletedIsSent'
<1>1. /\ TypeInv /\ TypeOK /\ LedgerTypeOK /\ StageInv
      /\ CompletedIsSent /\ \A r \in Requests : HandlerShape(r)
  BY DEF ResultInv, StageInv, TypeInv, TypeOK
<1>2. ExecutionsStay /\ call' = call
  BY <1>1, StepKeepsLedger, RequestStepTypes, OtherStepTypes DEF Next, NothingLost
<1>3. SUFFICES ASSUME NEW k \in Keys, executions'[k].state = "completed"
               PROVE  \E s \in Requests : /\ sent'[s] /\ Key(s) = k /\ pc'[s] = "done"
                                          /\ executions'[k].digest = call[s].payload
                                          /\ executions'[k].result = body'[s]
  BY <1>2 DEF CompletedIsSent, Key
<1>4. CASE executions[k].state = "completed"
  <2>1. PICK s \in Requests : /\ sent[s] /\ Key(s) = k /\ pc[s] = "done"
                              /\ executions[k].digest = call[s].payload
                              /\ executions[k].result = body[s]
    BY <1>1, <1>4 DEF CompletedIsSent
  <2>2. executions'[k] = executions[k]
    BY <1>2, <1>4 DEF ExecutionsStay
  <2>. QED
    BY <1>1, <2>1, <2>2, DoneStaysDone
<1>5. CASE executions[k].state # "completed"
  <2>1. PICK r \in Requests : /\ Complete(r)
                              /\ CompleteTx(Key(r), call[r].payload, body[r])
                              /\ Key(r) = k
    BY <1>1, <1>3, <1>5, CompletedByCompletion
  <2>2. sent[r] /\ sent' = sent /\ body' = body /\ pc'[r] = "done"
    BY <1>1, <2>1 DEF Complete, HandlerShape, Answer, historyVars, TypeOK
  <2>3. executions'[k].digest = call[r].payload /\ executions'[k].result = body[r]
    <3>1. executions[k] \in Execution
      BY <1>1 DEF LedgerTypeOK
    <3>. QED
      BY <1>1, <2>1, <3>1 DEF CompleteTx, Completable, LedgerTypeOK, Execution
  <2>. QED
    BY <2>1, <2>2, <2>3
<1>. QED
  BY <1>4, <1>5

LEMMA ToldIsStoredStep ==
    ASSUME ResultInv, [Next]_vars
    PROVE  ToldIsStored'
<1>1. /\ TypeInv /\ TypeOK /\ LedgerTypeOK /\ ToldIsStored
      /\ \A r \in Requests : HandlerShape(r)
  BY DEF ResultInv, StageInv, TypeInv, TypeOK
<1>2. ExecutionsStay /\ call' = call
  BY <1>1, StepKeepsLedger, RequestStepTypes, OtherStepTypes DEF Next, NothingLost
<1>3. SUFFICES ASSUME NEW r \in Requests, reply'[r] \in {"executed", "replayed"}
               PROVE  /\ executions'[Key(r)].state = "completed"
                      /\ executions'[Key(r)].digest = call[r].payload
                      /\ executions'[Key(r)].result = body'[r]
  BY <1>2 DEF ToldIsStored, Key
<1>4. Key(r) \in Keys /\ executions[Key(r)] \in Execution
  BY <1>1, CallTypes DEF LedgerTypeOK
<1>5. CASE reply[r] \in {"executed", "replayed"}
  <2>1. body'[r] = body[r]
    BY <1>1, <1>5, DoneStaysDone DEF HandlerShape
  <2>2. executions[Key(r)].state = "completed"
    BY <1>1, <1>5 DEF ToldIsStored
  <2>3. executions'[Key(r)] = executions[Key(r)]
    BY <1>2, <1>4, <2>2 DEF ExecutionsStay
  <2>. QED
    BY <1>1, <1>5, <2>1, <2>3 DEF ToldIsStored
<1>6. CASE reply[r] \notin {"executed", "replayed"}
  <2>1. RequestStep(r)
    BY <1>1, <1>3, <1>6, OthersStandStill DEF StandsStill
  <2>2. ASSUME AnswerFromRow(r), UNCHANGED executions
        PROVE  /\ executions'[Key(r)].state = "completed"
               /\ executions'[Key(r)].digest = call[r].payload
               /\ executions'[Key(r)].result = body'[r]
    <3>1. /\ InspectOutcome(Key(r), call[r].payload) = "completed"
          /\ body' = [body EXCEPT ![r] = executions[Key(r)].result]
      BY <1>1, <1>3, <2>2 DEF AnswerFromRow, Answer, TypeOK
    <3>2. executions[Key(r)].state = "completed" /\ executions[Key(r)].digest = call[r].payload
      BY <1>4, <3>1 DEF InspectOutcome, Execution
    <3>. QED
      BY <1>1, <2>2, <3>1, <3>2 DEF TypeOK
  <2>. USE <1>1, <1>3, <1>6 DEF Goto, Answer, TypeOK
  <2>3. CASE Arrive(r) \/ Refuse(r) \/ Throttle(r) \/ Disconnect(r)
    BY <2>3 DEF Arrive, Refuse, Throttle, Disconnect
  <2>4. CASE Inspect(r)
    BY <2>2, <2>4 DEF Inspect, StorageUnavailable, storeVars
  <2>5. CASE Begin(r)
    BY <2>2, <2>5 DEF Begin, StorageUnavailable, storeVars
  <2>6. CASE Verdict(r)
    BY <2>6 DEF Verdict, AfterVerdict
  <2>7. CASE Lookup(r) \/ Park(r)
    BY <2>7 DEF Lookup, Park, StorageUnavailable
  <2>8. CASE Send(r) \/ UpstreamAnswers(r) \/ UpstreamError(r)
    BY <2>8 DEF Send, UpstreamAnswers, UpstreamError
  <2>9. CASE Complete(r)
    <3>1. CompleteTx(Key(r), call[r].payload, body[r]) /\ body' = body
      BY <2>9 DEF Complete
    <3>. QED
      BY <1>4, <3>1 DEF CompleteTx, Completable, LedgerTypeOK, Execution
  <2>. QED
    BY <2>1, <2>3, <2>4, <2>5, <2>6, <2>7, <2>8, <2>9 DEF RequestStep, HandlerStep
<1>. QED
  BY <1>5, <1>6

LEMMA ResultInvariant == Spec => []ResultInv
<1>1. Init => /\ \A r \in Requests : HandlerShape(r)
              /\ CompletedIsSent /\ ToldIsStored
  BY DEF Init, LedgerInit, HandlerShape, CompletedIsSent, ToldIsStored
<1>2. ResultInv /\ [Next]_vars =>
          (\A r \in Requests : HandlerShape(r))' /\ CompletedIsSent' /\ ToldIsStored'
  BY HandlerShapeStep, CompletedIsSentStep, ToldIsStoredStep DEF ResultInv, StageInv, TypeInv
<1>3. ResultInv <=> /\ ExecutionInv /\ StageInv
                    /\ \A r \in Requests : HandlerShape(r)
                    /\ CompletedIsSent /\ ToldIsStored
  BY DEF ResultInv
<1>. QED
  BY <1>1, <1>2, <1>3, ExecutionInvariant, StageInvariant, PTL DEF Spec

(* Whoever is told a result is told the one the upstream gave the only     *)
(* request that reached it, for the same payload; the row keeps it.        *)
THEOREM ResultsAreTrue == Spec => []ResultsAreTheUpstreams
<1>1. ASSUME ResultInv, NEW r \in Requests, reply[r] \in {"executed", "replayed"}
      PROVE  /\ executions[Key(r)].state = "completed"
             /\ executions[Key(r)].result = body[r]
             /\ \E s \in Requests : /\ sent[s] /\ Key(s) = Key(r)
                                    /\ call[s].payload = call[r].payload
                                    /\ body[s] = body[r]
  <2>1. /\ executions[Key(r)].state = "completed"
        /\ executions[Key(r)].digest = call[r].payload
        /\ executions[Key(r)].result = body[r]
    BY <1>1 DEF ResultInv, ToldIsStored
  <2>2. Key(r) \in Keys
    BY <1>1, CallTypes DEF ResultInv, StageInv, TypeInv
  <2>. QED
    BY <1>1, <2>1, <2>2 DEF ResultInv, CompletedIsSent
<1>2. ResultInv => ResultsAreTheUpstreams
  BY <1>1 DEF ResultsAreTheUpstreams
<1>. QED
  BY <1>2, ResultInvariant, PTL

------------------------------------------------------------------------------
(* The promise.                                                            *)

(* The abstract state, as the instance Promise reads it off the tables.    *)
Phases == [k \in Keys |-> Phase(k)]
Attempts == [k \in Keys |-> \E r \in Requests : sent[r] /\ Key(r) = k]
Retained == [k \in Keys |-> executions[k].result]

LEMMA PhaseIs ==
    ASSUME NEW k \in Keys, StageShape(k)
    PROVE  /\ Phase(k) = "unknown"   <=> executions[k].state = "missing"
           /\ Phase(k) = "completed" <=> executions[k].state = "completed"
           /\ Phase(k) = "uncertain" <=> executions[k].recon = "uncertain"
           /\ Phase(k) = "intended"  <=> executions[k].recon = "pending"
BY DEF StageShape, Phase

(* Where the row of an execution says the same, so does the promise.       *)
LEMMA PhaseStays ==
    ASSUME NEW k \in Keys, executions'[k].state = executions[k].state,
           executions'[k].recon = executions[k].recon
    PROVE  Phase(k)' = Phase(k)
BY DEF Phase

LEMMA AttemptsStay ==
    ASSUME UNCHANGED <<sent, call>>
    PROVE  Attempts' = Attempts
BY DEF Attempts, Key

(* Only Send changes the history of attempts.                              *)
LEMMA SentBySend ==
    ASSUME TypeOK, [Next]_vars
    PROVE  sent' = sent \/ \E r \in Requests : Send(r)
<1>. USE DEF historyVars
<1>1. ASSUME NEW r \in Requests, RequestStep(r), ~Send(r)
      PROVE  sent' = sent
  BY <1>1 DEF RequestStep, HandlerStep, Arrive, Refuse, Throttle, Inspect, Verdict, Lookup,
              Park, Begin, UpstreamAnswers, UpstreamError, Complete, Disconnect
<1>2. ASSUME \/ \E o \in Operators : Decide(o) \/ Audit(o) \/ DisconnectOperator(o)
             \/ \E i \in Instances : Start(i) \/ Crash(i) \/ Reconcile(i)
             \/ \E k \in Keys : Elapse(k)
             \/ UNCHANGED vars
      PROVE  sent' = sent
  BY <1>2 DEF Decide, Audit, DisconnectOperator, Start, Crash, Reconcile, Elapse, vars
<1>. QED
  BY <1>1, <1>2 DEF Next, RequestStep

(* The attempt of a handler that has begun is the first, and comes before  *)
(* any end but uncertain.                                                  *)
LEMMA SendIsAttempt ==
    ASSUME ResultInv, NEW r \in Requests, Send(r)
    PROVE  \E k \in Keys : Promise!Attempt(k)
<1>a. PICK k \in Keys : k = Key(r)
  BY CallTypes DEF ResultInv, StageInv, TypeInv
<1>1. /\ TypeOK /\ LedgerTypeOK /\ SentAfterBegin /\ CommittedIsStored /\ OneCommitted
      /\ CompletedIsSent /\ StageShape(k)
  BY DEF ResultInv, ExecutionInv, StageInv, TypeInv, TypeOK
<1>2. /\ pc[r] = "send" /\ Committed(r)
      /\ sent' = [sent EXCEPT ![r] = TRUE]
      /\ UNCHANGED <<executions, call>>
  BY DEF Send, Committed, storeVars, inputVars
<1>3. \A q \in Requests : sent[q] => Key(q) # k
  <2>1. ~sent[r]
    BY <1>1, <1>2 DEF SentAfterBegin, BeforeSend
  <2>. QED
    BY <1>1, <1>a, <1>2, <2>1 DEF OneCommitted, Committed
<1>4. Phases[k] \in {"intended", "uncertain"}
  <2>1. executions[k].state # "missing"
    BY <1>1, <1>a, <1>2 DEF CommittedIsStored
  <2>2. executions[k].state # "completed"
    BY <1>1, <1>3 DEF CompletedIsSent
  <2>3. Phase(k) \in {"unknown", "completed", "uncertain", "intended"}
    BY <1>1 DEF StageShape, Phase
  <2>. QED
    BY <1>1, <2>1, <2>2, <2>3, PhaseIs DEF Phases
<1>5. ~Attempts[k]
  BY <1>1, <1>3 DEF Attempts
<1>6. Attempts' = [Attempts EXCEPT ![k] = TRUE]
  <2>1. \A l \in Keys : (\E q \in Requests : sent'[q] /\ Key(q) = l)
                            <=> (\E q \in Requests : sent[q] /\ Key(q) = l) \/ l = k
    BY <1>1, <1>a, <1>2 DEF TypeOK
  <2>2. \A l \in Keys : (\E q \in Requests : sent'[q] /\ Key(q) = l)
            = IF l = k THEN TRUE ELSE \E q \in Requests : sent[q] /\ Key(q) = l
    BY <2>1
  <2>3. \A q \in Requests : Key(q)' = Key(q)
    BY <1>2 DEF Key
  <2>4. Attempts' = [l \in Keys |-> \E q \in Requests : sent'[q] /\ Key(q) = l]
    BY <2>3 DEF Attempts
  <2>5. [Attempts EXCEPT ![k] = TRUE]
            = [l \in Keys |-> IF l = k THEN TRUE
                              ELSE \E q \in Requests : sent[q] /\ Key(q) = l]
    BY DEF Attempts
  <2>. QED
    BY <2>2, <2>4, <2>5, Zenon
<1>7. Phases' = Phases /\ Retained' = Retained
  BY <1>2 DEF Phases, Retained, Phase
<1>. QED
  BY <1>4, <1>5, <1>6, <1>7 DEF Promise!Attempt, Phases, Attempts, Retained

LEMMA BeginIsIntend ==
    ASSUME ResultInv, NEW k \in Keys, NEW p \in Payloads, NEW i \in Instances \cup {NoValue},
           BeginTx(k, p, i), UNCHANGED <<sent, call>>
    PROVE  Promise!Intend(k)
<1>1. LedgerTypeOK /\ StageShape(k)
  BY DEF ResultInv, StageInv, TypeInv, TypeOK
<1>2. executions[k].state = "missing" /\ executions[k].result = NoValue
  BY <1>1, BeginKeeps DEF StageShape
<1>3. /\ executions'[k].state = "in_flight" /\ executions'[k].recon = "pending"
      /\ executions'[k].result = NoValue
      /\ \A l \in Keys : l # k => executions'[l] = executions[l]
  BY <1>1 DEF BeginTx, LedgerTypeOK
<1>4. Phase(k) = "unknown" /\ Phase(k)' = "intended"
  BY <1>2, <1>3 DEF Phase
<1>5. Phases' = [Phases EXCEPT ![k] = "intended"]
  BY <1>3, <1>4, PhaseStays DEF Phases
<1>6. Retained' = Retained
  BY <1>2, <1>3 DEF Retained
<1>. QED
  BY <1>4, <1>5, <1>6, AttemptsStay DEF Promise!Intend, Phases, Attempts, Retained

LEMMA CompleteIsSettle ==
    ASSUME ResultInv, NEW r \in Requests, pc[r] = "complete",
           CompleteTx(Key(r), call[r].payload, body[r]), UNCHANGED <<sent, call>>
    PROVE  \E k \in Keys : Promise!Settle(k)
<1>a. PICK k \in Keys : k = Key(r)
  BY CallTypes DEF ResultInv, StageInv, TypeInv
<1>1. LedgerTypeOK /\ StageShape(k) /\ StageIsTold(k) /\ HandlerShape(r)
  BY DEF ResultInv, StageInv, TypeInv, TypeOK
<1>2. sent[r] /\ body[r] \in Results
  BY <1>1 DEF HandlerShape
<1>3. executions[k].state = "in_flight" /\ OutboxFree(k)
  BY <1>a DEF CompleteTx, Completable
<1>4. executions[k].recon = "pending"
  BY <1>1, <1>3 DEF StageShape, StageIsTold, OutboxFree
<1>5. /\ executions'[k].state = "completed" /\ executions'[k].result = body[r]
      /\ \A l \in Keys : l # k => executions'[l] = executions[l]
  <2>1. executions' = [executions EXCEPT ![k] =
            [@ EXCEPT !.state = "completed", !.recon = "resolved", !.result = body[r]]]
    BY <1>a DEF CompleteTx
  <2>2. executions \in [Keys -> Execution]
    BY <1>1 DEF LedgerTypeOK
  <2>. QED
    BY <1>1, <2>1, <2>2 DEF Execution
<1>6. Phase(k) = "intended" /\ Phase(k)' = "completed"
  BY <1>3, <1>4, <1>5 DEF Phase
<1>7. Phases' = [Phases EXCEPT ![k] = "completed"]
  BY <1>5, <1>6, PhaseStays DEF Phases
<1>8. Retained' = [Retained EXCEPT ![k] = body[r]]
  BY <1>5 DEF Retained
<1>9. Attempts[k]
  BY <1>a, <1>2 DEF Attempts
<1>10. Promise!Settle(k)
  BY <1>1, <1>2, <1>6, <1>7, <1>8, <1>9, AttemptsStay
  DEF Promise!Settle, Phases, Attempts, Retained
<1>. QED
  BY <1>10

LEMMA ReconcileIsGiveUp ==
    ASSUME ResultInv, NEW i \in Instances, ReconcileTx(i), UNCHANGED <<sent, call>>
    PROVE  \E K \in SUBSET Keys : Promise!GiveUp(K)
<1>1. /\ LedgerTypeOK
      /\ \A k \in Keys : executions[k] \in Execution
  BY DEF ResultInv, StageInv, TypeInv, TypeOK, LedgerTypeOK
<1>2. PICK K \in SUBSET Keys :
        /\ \A k \in K : executions[k].state = "in_flight" /\ executions[k].recon = "pending"
        /\ executions' = [k \in Keys |->
               IF k \in K THEN [executions[k] EXCEPT !.recon = "uncertain"]
                          ELSE executions[k]]
  BY <1>1, ReconcileEffect
<1>3. \A k \in Keys : /\ executions'[k].result = executions[k].result
                      /\ executions'[k].state = executions[k].state
                      /\ executions'[k].recon
                             = IF k \in K THEN "uncertain" ELSE executions[k].recon
  BY <1>1, <1>2 DEF Execution
<1>4. \A k \in K : Phase(k) = "intended" /\ Phase(k)' = "uncertain"
  BY <1>2, <1>3 DEF Phase
<1>5. Phases' = [k \in Keys |-> IF k \in K THEN "uncertain" ELSE Phases[k]]
  BY <1>3, <1>4, PhaseStays DEF Phases
<1>6. Retained' = Retained
  BY <1>3 DEF Retained
<1>7. Promise!GiveUp(K)
  BY <1>4, <1>5, <1>6, AttemptsStay DEF Promise!GiveUp, Phases, Attempts, Retained
<1>. QED
  BY <1>7

(* Every step of the gateway is one of the promise's, or none.             *)
LEMMA StepKeepsPromise ==
    ASSUME ResultInv, [Next]_vars
    PROVE  [Promise!ANext]_(Promise!avars)
<1>1. /\ TypeInv /\ TypeOK /\ \A k \in Keys : executions[k] \in Execution
      /\ \A r \in Requests : /\ Key(r) \in Keys /\ call[r].payload \in Payloads
                             /\ at[r] \in Instances \cup {NoValue}
  BY CallTypes DEF ResultInv, StageInv, TypeInv, TypeOK, LedgerTypeOK
<1>2. call' = call
  BY <1>1, RequestStepTypes, OtherStepTypes DEF Next
<1>3. CASE \E r \in Requests : Send(r)
  <2>1. \E k \in Keys : Promise!Attempt(k)
    BY <1>1, <1>3, SendIsAttempt
  <2>. QED
    BY <2>1 DEF Promise!ANext
<1>4. CASE sent' = sent
  <2>1. CASE ExecutionsRest
    <3>1. \A k \in Keys : /\ executions'[k].state = executions[k].state
                          /\ executions'[k].recon = executions[k].recon
                          /\ executions'[k].result = executions[k].result
      BY <1>1, <2>1 DEF ExecutionsRest, Execution
    <3>2. Phases' = Phases /\ Retained' = Retained
      BY <3>1, PhaseStays DEF Phases, Retained
    <3>. QED
      BY <1>2, <1>4, <3>2, AttemptsStay DEF Promise!avars, Phases, Attempts, Retained
  <2>2. CASE \E r \in Requests : BeginTx(Key(r), call[r].payload, at[r])
    BY <1>1, <1>2, <1>4, <2>2, BeginIsIntend DEF Promise!ANext
  <2>3. CASE \E r \in Requests : Complete(r) /\ CompleteTx(Key(r), call[r].payload, body[r])
    <3>1. \E k \in Keys : Promise!Settle(k)
      BY <1>1, <1>2, <1>4, <2>3, CompleteIsSettle DEF Complete
    <3>. QED
      BY <3>1 DEF Promise!ANext
  <2>4. CASE \E i \in Instances : Reconcile(i)
    BY <1>2, <1>4, <2>4, ReconcileIsGiveUp DEF Promise!ANext, Reconcile
  <2>. QED
    BY <1>1, <2>1, <2>2, <2>3, <2>4, StageCases
<1>. QED
  BY <1>1, <1>3, <1>4, SentBySend

(* The gateway implements the promise of durable server execution, for     *)
(* every number of requests, processes, keys and results.                  *)
THEOREM PromiseIsKept == Spec => KeepsPromise
<1>1. Init => Promise!AInit
  BY DEF Init, LedgerInit, Promise!AInit, Phase
<1>2. ResultInv /\ [Next]_vars => [Promise!ANext]_(Promise!avars)
  BY StepKeepsPromise
<1>. QED
  BY <1>1, <1>2, ResultInvariant, PTL DEF Spec, KeepsPromise, Promise!ASpec

===============================================================================
