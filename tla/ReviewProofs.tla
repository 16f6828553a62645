------------------------------ MODULE ReviewProofs -----------------------------
(***************************************************************************)
(* Proofs about human review: one operator decides, and the chain tells    *)
(* that decision, once and after the review; queues, polls and the report  *)
(* tell each scope what became of its own calls.                           *)
(*                                                                         *)
(* Every step is the commit of a decision, the append of its audit row, or *)
(* quiet: it commits no decision and adds no decision row.  The invariant  *)
(* says in addition whose row each decision row of the chain is.           *)
(***************************************************************************)
EXTENDS GatewayProofs

(* The row of a decided operator is in the chain or was lost, and no       *)
(* decision row is anyone else's.                                          *)
RowsAreTheDeciders ==
    \A c \in Ids : \A n \in DecisionRows(c) :
        \E o \in Operators : Decider(o, c) /\ opPc[o] = "decided"

DecisionInv == TypeInv /\ OneDecider /\ AuditTellsTheDecision /\ RowsAreTheDeciders

(* OneDecider in parts: whose the review is, and what became of its row.   *)
RowIsTold(row) == InChain(row) \/ row \in dropped

DeciderRow(o, c) == Row(DecisionIntent(order[o].decision), pendings[c].agent, c)

OneDeciderOf(c) ==
    /\ \A o, q \in Operators : Decider(o, c) /\ Decider(q, c) => o = q
    /\ pendings[c].decision \in {"allow", "deny"} => \E o \in Operators : Decider(o, c)
    /\ \A o \in Operators : Decider(o, c) => /\ InScope(c, order[o].scope)
                                             /\ pendings[c].decision = order[o].decision
    /\ \A o \in Operators :
           Decider(o, c) /\ opPc[o] = "decided" => RowIsTold(DeciderRow(o, c))

LEMMA DeciderParts == OneDecider <=> \A c \in Ids : OneDeciderOf(c)
BY DEF OneDecider, OneDeciderOf, RowIsTold, DeciderRow

(* Rows that were added by a step are no decision rows.                    *)
NoDecisionRowAdded ==
    \A n \in DOMAIN entries' : n \notin DOMAIN entries =>
        entries'[n].intent \notin DecisionIntents

(* No review is decided and no decision row is written.                    *)
Quiet ==
    /\ \A o \in Operators : \/ opPc'[o] = opPc[o]
                            \/ opPc[o] = "audit" /\ opPc'[o] = "dead"
                            \/ opPc[o] = "idle" /\ opPc'[o] \notin {"audit", "decided", "dead"}
    /\ \A c \in Ids :
           \/ pendings'[c] = pendings[c]
           \/ pendings[c].decision = "absent" /\ pendings'[c].decision = "undecided"
    /\ NoDecisionRowAdded
    /\ dropped \subseteq dropped'

------------------------------------------------------------------------------
(* Rows of the chain.                                                      *)

LEMMA ReconcileAddsStages ==
    ASSUME LedgerTypeOK, NEW i \in Instances, ReconcileTx(i)
    PROVE  NoDecisionRowAdded
<1>1. \A n \in DOMAIN entries' : n \notin DOMAIN entries =>
          \E k \in Keys : entries'[n] = StageRow("ServerExecutionUncertain", k)
  BY ReconcileEffect
<1> QED BY <1>1 DEF NoDecisionRowAdded, DecisionIntents, StageRow, Row

(* Appends of other rows than a decision's.                                *)
LEMMA AppendAddsNoDecision ==
    ASSUME entries \in Seq(Entry), NEW row \in Entry, row.intent \notin DecisionIntents,
           AppendRow(row) \/ UNCHANGED entries
    PROVE  NoDecisionRowAdded
<1>1. CASE AppendRow(row)
  BY <1>1, AppendAddsRow DEF NoDecisionRowAdded
<1>2. CASE UNCHANGED entries
  BY <1>2 DEF NoDecisionRowAdded
<1> QED BY <1>1, <1>2

------------------------------------------------------------------------------
(* Requests decide nothing.                                                *)
LEMMA RequestStepIsQuiet ==
    ASSUME TypeInv, NEW r \in Requests, RequestStep(r)
    PROVE  Quiet
<1>1. TypeOK /\ LedgerTypeOK /\ entries \in Seq(Entry)
  BY DEF TypeInv, TypeOK, LedgerTypeOK
<1>2. opPc' = opPc
  BY <1>1, RequestStepTypes DEF RequestStep
<1>3. call[r].id \in Ids /\ call[r].agent \in Agents /\ call[r].tenant \in Tenants
          /\ Key(r) \in Keys /\ call[r].payload \in Payloads
  BY <1>1, CallTypes
<1>4. ASSUME NEW row \in Entry, row.intent \notin DecisionIntents, TryAppend(row)
      PROVE  NoDecisionRowAdded /\ pendings' = pendings /\ dropped \subseteq dropped'
  <2>1. (AppendRow(row) \/ UNCHANGED entries) /\ pendings' = pendings
            /\ dropped \subseteq dropped'
    BY <1>4 DEF TryAppend
  <2> QED BY <1>1, <1>4, <2>1, AppendAddsNoDecision
<1>5. CASE Throttle(r)
  <2> DEFINE row == Row("RateLimitDenied", <<call[r].tenant, call[r].agent>>, call[r].id)
  <2>1. row \in Entry /\ row.intent = "RateLimitDenied" /\ TryAppend(row)
    BY <1>3, <1>5, RowTypes DEF Throttle, Row
  <2> HIDE DEF row
  <2>2. row.intent \notin DecisionIntents
    BY <2>1 DEF DecisionIntents
  <2>3. NoDecisionRowAdded /\ pendings' = pendings /\ dropped \subseteq dropped'
    BY <1>4, <2>1, <2>2
  <2> QED BY <1>2, <2>3 DEF Quiet
<1>6. CASE Verdict(r)
  <2>1. PICK t \in TiersOf[call[r].payload] :
            TryAppend(Row(VerdictIntent(t), call[r].agent, call[r].id))
    BY <1>6 DEF Verdict
  <2>2. t \in Tiers
    BY <1>3, GatewayAssumption
  <2>3. VerdictIntent(t) \in {"Allowed", "PendingReview", "Denied"}
    BY <2>2 DEF VerdictIntent, Tiers
  <2> DEFINE row == Row(VerdictIntent(t), call[r].agent, call[r].id)
  <2>4. row \in Entry /\ row.intent = VerdictIntent(t)
    BY <1>3, <2>3, RowTypes DEF Row, Intents, VerdictIntents
  <2>5. TryAppend(row)
    BY <2>1
  <2> HIDE DEF row
  <2>6. row.intent \notin DecisionIntents
    BY <2>3, <2>4 DEF DecisionIntents
  <2>7. NoDecisionRowAdded /\ pendings' = pendings /\ dropped \subseteq dropped'
    BY <1>4, <2>4, <2>5, <2>6
  <2> QED BY <1>2, <2>7 DEF Quiet
<1>7. ASSUME ~Throttle(r), ~Verdict(r) PROVE dropped' = dropped
  BY <1>7 DEF RequestStep, HandlerStep, Arrive, Refuse, Inspect, Lookup, Park, Begin, Send,
              UpstreamAnswers, UpstreamError, Complete, Disconnect, historyVars
<1>8. ASSUME UNCHANGED storeVars, ~Throttle(r), ~Verdict(r) PROVE Quiet
  BY <1>2, <1>7, <1>8 DEF Quiet, NoDecisionRowAdded, storeVars
<1>9. CASE Park(r)
  <2>1. CASE UNCHANGED storeVars
    <3>1. dropped' = dropped
      BY <1>9 DEF Park
    <3> QED BY <1>2, <2>1, <3>1 DEF Quiet, NoDecisionRowAdded, storeVars
  <2>2. CASE ParkTx(call[r].id, call[r].tenant, call[r].agent)
    <3>1. /\ pendings[call[r].id].decision = "absent"
          /\ pendings' = [pendings EXCEPT ![call[r].id] =
                 [decision |-> "undecided", tenant |-> call[r].tenant, agent |-> call[r].agent]]
          /\ entries' = entries
      BY <2>2 DEF ParkTx
    <3>2. dropped' = dropped
      BY <1>9 DEF Park
    <3>3. \A c \in Ids :
              \/ pendings'[c] = pendings[c]
              \/ pendings[c].decision = "absent" /\ pendings'[c].decision = "undecided"
      BY <1>1, <3>1 DEF LedgerTypeOK
    <3> QED BY <1>2, <3>1, <3>2, <3>3 DEF Quiet, NoDecisionRowAdded
  <2> QED BY <1>9, <2>1, <2>2 DEF Park
<1>10. ASSUME NEW row \in Entry, row.intent \in StageIntents, AppendRow(row),
              pendings' = pendings, dropped' = dropped
       PROVE  Quiet
  <2>1. row.intent \notin DecisionIntents
    BY <1>10 DEF StageIntents, DecisionIntents
  <2>2. NoDecisionRowAdded
    BY <1>1, <1>10, <2>1, AppendAddsNoDecision
  <2> QED BY <1>2, <1>10, <2>2 DEF Quiet
<1>11. ASSUME NEW stage \in StageIntents, AppendRow(StageRow(stage, Key(r))),
              pendings' = pendings, dropped' = dropped
       PROVE  Quiet
  <2>1. StageRow(stage, Key(r)) \in Entry /\ StageRow(stage, Key(r)).intent = stage
    BY <1>3, RowTypes DEF StageRow, Row
  <2> QED BY <1>10, <1>11, <2>1
<1>12. CASE Begin(r)
  <2>1. dropped' = dropped
    BY <1>12 DEF Begin, historyVars
  <2>2. CASE UNCHANGED storeVars
    BY <1>2, <2>1, <2>2 DEF Quiet, NoDecisionRowAdded, storeVars
  <2>3. CASE BeginTx(Key(r), call[r].payload, at[r])
    <3>1. AppendRow(StageRow("ServerExecutionIntent", Key(r))) /\ pendings' = pendings
      BY <2>3 DEF BeginTx
    <3> QED BY <1>11, <2>1, <3>1 DEF StageIntents
  <2> QED BY <1>12, <2>2, <2>3 DEF Begin
<1>13. CASE Complete(r)
  <2>1. dropped' = dropped
    BY <1>13 DEF Complete, historyVars
  <2>2. CASE UNCHANGED storeVars
    BY <1>2, <2>1, <2>2 DEF Quiet, NoDecisionRowAdded, storeVars
  <2>3. CASE CompleteTx(Key(r), call[r].payload, body[r])
    <3>1. AppendRow(StageRow("ServerExecutionCompleted", Key(r))) /\ pendings' = pendings
      BY <2>3 DEF CompleteTx
    <3> QED BY <1>11, <2>1, <3>1 DEF StageIntents
  <2> QED BY <1>13, <2>2, <2>3 DEF Complete
<1>14. ASSUME \/ Arrive(r) \/ Refuse(r) \/ Inspect(r) \/ Lookup(r) \/ Send(r)
              \/ UpstreamAnswers(r) \/ UpstreamError(r) \/ Disconnect(r)
       PROVE  Quiet
  <2>1. UNCHANGED storeVars /\ dropped' = dropped
    BY <1>14 DEF Arrive, Refuse, Inspect, Lookup, Send, UpstreamAnswers, UpstreamError,
                 Disconnect, historyVars
  <2> QED BY <1>2, <2>1 DEF Quiet, NoDecisionRowAdded, storeVars
<1> QED BY <1>5, <1>6, <1>9, <1>12, <1>13, <1>14 DEF RequestStep, HandlerStep

(* Nor do processes, time, a reconciler, an operator who disconnects or an *)
(* order that is turned down.                                              *)
LEMMA OtherStepIsQuiet ==
    ASSUME TypeInv,
           \/ \E i \in Instances : Start(i) \/ Crash(i) \/ Reconcile(i)
           \/ \E k \in Keys : Elapse(k)
           \/ \E o \in Operators : \/ DisconnectOperator(o)
                                   \/ Decide(o) /\ UNCHANGED storeVars
           \/ UNCHANGED vars
    PROVE  Quiet
<1>1. TypeOK /\ LedgerTypeOK
  BY DEF TypeInv, TypeOK
<1>2. opPc \in [Operators -> {"idle", "audit", "dead"} \cup OperatorReplies]
  BY <1>1 DEF TypeOK
<1>3. dropped' = dropped
  BY DEF Start, Crash, Reconcile, Elapse, DisconnectOperator, Decide, vars, historyVars
<1>4. ASSUME UNCHANGED <<entries, pendings>>, opPc' = opPc PROVE Quiet
  BY <1>3, <1>4 DEF Quiet, NoDecisionRowAdded
<1>5. ASSUME UNCHANGED <<entries, pendings>>, NEW o \in Operators,
             opPc[o] = "idle", NEW x \in {"not_found", "already_decided", "failed"},
             opPc' = [opPc EXCEPT ![o] = x]
      PROVE  Quiet
  BY <1>2, <1>3, <1>5 DEF Quiet, NoDecisionRowAdded
<1>6. CASE \E i \in Instances : Start(i)
  BY <1>4, <1>6 DEF Start, storeVars, operatorVars
<1>7. ASSUME NEW i \in Instances, Crash(i) PROVE Quiet
  <2>1. UNCHANGED <<entries, pendings>>
    BY <1>7 DEF Crash, storeVars
  <2>2. \A o \in Operators : \/ opPc'[o] = opPc[o]
                             \/ opPc[o] = "audit" /\ opPc'[o] = "dead"
    BY <1>2, <1>7 DEF Crash
  <2> QED BY <1>3, <2>1, <2>2 DEF Quiet, NoDecisionRowAdded
<1>8. ASSUME NEW i \in Instances, Reconcile(i) PROVE Quiet
  <2>1. ReconcileTx(i) /\ opPc' = opPc
    BY <1>8 DEF Reconcile, operatorVars
  <2>2. pendings' = pendings
    BY <2>1 DEF ReconcileTx
  <2>3. NoDecisionRowAdded
    BY <1>1, <2>1, ReconcileAddsStages
  <2> QED BY <1>3, <2>1, <2>2, <2>3 DEF Quiet
<1>9. CASE \E k \in Keys : Elapse(k)
  BY <1>4, <1>9 DEF Elapse, operatorVars
<1>10. ASSUME NEW o \in Operators, DisconnectOperator(o) PROVE Quiet
  <2>1. UNCHANGED <<entries, pendings>> /\ opPc[o] = "audit"
            /\ opPc' = [opPc EXCEPT ![o] = "dead"]
    BY <1>10 DEF DisconnectOperator, storeVars
  <2>2. \A q \in Operators : \/ opPc'[q] = opPc[q]
                             \/ opPc[q] = "audit" /\ opPc'[q] = "dead"
    BY <1>2, <2>1
  <2> QED BY <1>3, <2>1, <2>2 DEF Quiet, NoDecisionRowAdded
<1>11. ASSUME NEW o \in Operators, Decide(o), UNCHANGED storeVars PROVE Quiet
  <2>1. UNCHANGED <<entries, pendings>> /\ opPc[o] = "idle"
    BY <1>11 DEF Decide, storeVars
  <2>2. CASE DecideTx(order[o].id, order[o].scope, order[o].decision)
    <3>1. /\ pendings[order[o].id].decision = "undecided"
          /\ pendings'[order[o].id].decision = order[o].decision
      BY <1>1, <2>2, CallTypes DEF DecideTx, LedgerTypeOK
    <3>2. order[o].decision # "undecided"
      BY <1>1, CallTypes
    <3> QED BY <2>1, <3>1, <3>2
  <2>3. CASE ~DecideTx(order[o].id, order[o].scope, order[o].decision)
    <3>1. \E x \in {"not_found", "already_decided", "failed"} :
              opPc' = [opPc EXCEPT ![o] = x]
      BY <1>11, <2>3 DEF Decide
    <3> QED BY <1>5, <2>1, <3>1
  <2> QED BY <2>2, <2>3
<1>12. CASE UNCHANGED vars
  BY <1>4, <1>12 DEF vars, storeVars, operatorVars
<1> QED BY <1>6, <1>7, <1>8, <1>9, <1>10, <1>11, <1>12

------------------------------------------------------------------------------
(* The invariant, step by step.                                            *)

(* Quiet steps keep it: a decider stays one, and nobody becomes one.       *)
LEMMA QuietKeeps ==
    ASSUME DecisionInv, TypeInv', NothingLost, Quiet, order' = order
    PROVE  OneDecider' /\ AuditTellsTheDecision' /\ RowsAreTheDeciders'
<1>1. /\ OneDecider /\ AuditTellsTheDecision /\ RowsAreTheDeciders
      /\ DecisionsStay /\ ChainGrows
  BY DEF DecisionInv, NothingLost
<1>2. \A o \in Operators, c \in Ids : Decider(o, c)' <=> Decider(o, c)
  BY DEF Quiet, Decider
<1>3. \A o \in Operators, c \in Ids :
          Decider(o, c) => (opPc'[o] = "decided" <=> opPc[o] = "decided")
  BY DEF Quiet, Decider
<1>4. \A c \in Ids : DecisionRows(c)' = DecisionRows(c)
                         /\ \A n \in DecisionRows(c) : entries'[n] = entries[n]
  <2> TAKE c \in Ids
  <2>1. \A n \in DOMAIN entries : n \in DOMAIN entries' /\ entries'[n] = entries[n]
    BY <1>1 DEF ChainGrows
  <2>2. \A n \in DecisionRows(c)' : n \in DecisionRows(c)
    BY <2>1 DEF DecisionRows, Quiet, NoDecisionRowAdded
  <2>3. \A n \in DecisionRows(c) : n \in DecisionRows(c)' /\ entries'[n] = entries[n]
    BY <2>1 DEF DecisionRows
  <2> QED BY <2>2, <2>3
<1>5. \A c \in Ids : pendings[c].decision \in {"allow", "deny"} => pendings'[c] = pendings[c]
  BY DEF Quiet
<1>6. \A c \in Ids : pendings'[c].decision \in {"allow", "deny"} => pendings'[c] = pendings[c]
  BY DEF Quiet
<1>7. RowsAreTheDeciders'
  BY <1>1, <1>2, <1>3, <1>4 DEF RowsAreTheDeciders
<1>8. AuditTellsTheDecision'
  BY <1>1, <1>4, <1>5 DEF AuditTellsTheDecision
<1>9. ASSUME NEW c \in Ids, NEW o \in Operators, Decider(o, c)
      PROVE  pendings'[c] = pendings[c]
  <2>1. pendings[c].decision = order[o].decision
    BY <1>1, <1>9 DEF OneDecider
  <2>2. order[o].decision \in {"allow", "deny"}
    BY CallTypes DEF DecisionInv, TypeInv
  <2> QED BY <1>5, <2>1, <2>2
<1>10. \A row : RowIsTold(row) => InChain(row)' \/ row \in dropped'
  BY <1>1 DEF RowIsTold, InChain, ChainGrows, Quiet
<1>11. OneDecider'
  <2>1. ASSUME NEW c \in Ids PROVE OneDeciderOf(c)'
    <3>1. OneDeciderOf(c)
      BY <1>1, DeciderParts
    <3>2. \A o, q \in Operators : Decider(o, c)' /\ Decider(q, c)' => o = q
      BY <1>2, <3>1 DEF OneDeciderOf
    <3>3. pendings'[c].decision \in {"allow", "deny"} => \E o \in Operators : Decider(o, c)'
      BY <1>2, <1>6, <3>1 DEF OneDeciderOf
    <3>4. \A o \in Operators : Decider(o, c)' =>
              /\ InScope(c, order[o].scope)'
              /\ pendings'[c].decision = order'[o].decision
      BY <1>2, <1>9, <3>1 DEF OneDeciderOf, InScope
    <3>5. ASSUME NEW o \in Operators, Decider(o, c)', opPc'[o] = "decided"
          PROVE  RowIsTold(DeciderRow(o, c))'
      <4>1. Decider(o, c) /\ opPc[o] = "decided"
        BY <1>2, <1>3, <3>5
      <4>2. RowIsTold(DeciderRow(o, c))
        BY <3>1, <4>1 DEF OneDeciderOf
      <4>3. DeciderRow(o, c)' = DeciderRow(o, c)
        BY <1>9, <4>1 DEF DeciderRow
      <4>4. InChain(DeciderRow(o, c))' \/ DeciderRow(o, c)' \in dropped'
        BY <1>10, <4>2, <4>3 DEF InChain
      <4> QED BY <4>4 DEF RowIsTold
    <3> QED BY <3>2, <3>3, <3>4, <3>5 DEF OneDeciderOf
  <2> QED BY <2>1 DEF OneDecider, OneDeciderOf, RowIsTold, DeciderRow
<1> QED BY <1>7, <1>8, <1>11

(* A decision keeps it: an undecided row had neither decider nor row.      *)
LEMMA DecideKeepsDecider ==
    ASSUME DecisionInv, NEW o \in Operators, opPc[o] = "idle",
           DecideTx(order[o].id, order[o].scope, order[o].decision),
           opPc' = [opPc EXCEPT ![o] = "audit"], order' = order, dropped' = dropped
    PROVE  OneDecider' /\ AuditTellsTheDecision' /\ RowsAreTheDeciders'
<1> DEFINE c0 == order[o].id
<1>1. /\ OneDecider /\ AuditTellsTheDecision /\ RowsAreTheDeciders
      /\ TypeOK /\ LedgerTypeOK
      /\ opPc \in [Operators -> {"idle", "audit", "dead"} \cup OperatorReplies]
  BY DEF DecisionInv, TypeInv, TypeOK
<1>2. /\ c0 \in Ids
      /\ \A q \in Operators : order[q].decision \in {"allow", "deny"}
  BY <1>1, CallTypes
<1>3. /\ InScope(c0, order[o].scope)
      /\ pendings[c0].decision = "undecided"
      /\ pendings' = [pendings EXCEPT ![c0].decision = order[o].decision]
      /\ entries' = entries
  BY DEF DecideTx
<1>4. /\ \A c \in Ids : c # c0 => pendings'[c] = pendings[c]
      /\ pendings'[c0].decision = order[o].decision
      /\ pendings'[c0].tenant = pendings[c0].tenant
  BY <1>1, <1>2, <1>3 DEF LedgerTypeOK, Pending
<1>5. \A q \in Operators : ~Decider(q, c0)
  BY <1>1, <1>2, <1>3 DEF OneDecider
<1>6. \A c \in Ids : ~Decider(o, c)
  BY DEF Decider
<1>7. \A q \in Operators, c \in Ids :
          Decider(q, c)' <=> Decider(q, c) \/ (q = o /\ c = c0)
  BY <1>1, <1>6 DEF Decider
<1>8. /\ opPc'[o] = "audit"
      /\ \A q \in Operators : q # o => opPc'[q] = opPc[q]
  BY <1>1
<1>9. \A c \in Ids : DecisionRows(c)' = DecisionRows(c)
  BY <1>3 DEF DecisionRows
<1>10. DecisionRows(c0) = {}
  BY <1>1, <1>2, <1>3 DEF AuditTellsTheDecision
<1> HIDE DEF c0
<1>11. RowsAreTheDeciders'
  <2> SUFFICES ASSUME NEW c \in Ids, NEW n \in DecisionRows(c)
               PROVE  \E q \in Operators : Decider(q, c)' /\ opPc'[q] = "decided"
    BY <1>9 DEF RowsAreTheDeciders
  <2>1. PICK q \in Operators : Decider(q, c) /\ opPc[q] = "decided"
    BY <1>1 DEF RowsAreTheDeciders
  <2> QED BY <1>6, <1>7, <1>8, <2>1
<1>12. AuditTellsTheDecision'
  <2> SUFFICES ASSUME NEW c \in Ids
               PROVE  /\ \A m, n \in DecisionRows(c) : m = n
                      /\ \A n \in DecisionRows(c) :
                             /\ pendings'[c].decision \in {"allow", "deny"}
                             /\ entries[n].intent = DecisionIntent(pendings'[c].decision)
    BY <1>3, <1>9 DEF AuditTellsTheDecision
  <2>1. CASE c = c0
    BY <1>10, <2>1
  <2>2. CASE c # c0
    BY <1>1, <1>4, <2>2 DEF AuditTellsTheDecision
  <2> QED BY <2>1, <2>2
<1>13. ASSUME NEW c \in Ids PROVE OneDeciderOf(c)'
  <2>1. OneDeciderOf(c)
    BY <1>1, DeciderParts
  <2>2. CASE c = c0
    <3>1. \A q \in Operators : Decider(q, c)' <=> q = o
      BY <1>2, <1>5, <1>7, <2>2
    <3>2. InScope(c, order[o].scope)'
      BY <1>2, <1>3, <1>4, <2>2 DEF InScope
    <3> QED BY <1>2, <1>4, <1>8, <2>2, <3>1, <3>2 DEF OneDeciderOf
  <2>3. CASE c # c0
    <3>1. \A q \in Operators : (Decider(q, c)' <=> Decider(q, c)) /\ (Decider(q, c) => q # o)
      BY <1>6, <1>7, <2>3
    <3>2. pendings'[c] = pendings[c]
      BY <1>4, <2>3
    <3>3. \A q \in Operators : InScope(c, order[q].scope)' <=> InScope(c, order[q].scope)
      BY <3>2 DEF InScope
    <3>4. \A q \in Operators : RowIsTold(DeciderRow(q, c))' <=> RowIsTold(DeciderRow(q, c))
      BY <1>3, <3>2 DEF RowIsTold, DeciderRow, InChain
    <3> QED BY <1>8, <2>1, <3>1, <3>2, <3>3, <3>4 DEF OneDeciderOf
  <2> QED BY <2>2, <2>3
<1>14. OneDecider'
  BY <1>13 DEF OneDecider, OneDeciderOf, RowIsTold, DeciderRow
<1> QED BY <1>11, <1>12, <1>14

(* The audit row keeps it: no earlier row can be there, because its        *)
(* operator would be another decider of the same review.                   *)
LEMMA AuditKeepsDecider ==
    ASSUME DecisionInv, NEW o \in Operators, Audit(o)
    PROVE  OneDecider' /\ AuditTellsTheDecision' /\ RowsAreTheDeciders'
<1>1. /\ OneDecider /\ AuditTellsTheDecision /\ RowsAreTheDeciders
      /\ TypeOK /\ LedgerTypeOK /\ AuditIsBacked
      /\ opPc \in [Operators -> {"idle", "audit", "dead"} \cup OperatorReplies]
  BY DEF DecisionInv, TypeInv, TypeOK
<1>a. PICK c0 \in Ids : c0 = order[o].id
  BY <1>1, CallTypes
<1>b. PICK row : row = DeciderRow(o, c0)
  OBVIOUS
<1>2. c0 = order[o].id /\ row = DeciderRow(o, c0) /\ order[o].decision \in {"allow", "deny"}
  BY <1>1, <1>a, <1>b, CallTypes
<1>3. /\ opPc[o] = "audit"
      /\ opPc' = [opPc EXCEPT ![o] = "decided"]
      /\ order' = order /\ pendings' = pendings
  BY DEF Audit, TryAppend, inputVars
<1>4. Decider(o, c0) /\ \A q \in Operators : Decider(q, c0) => q = o
  BY <1>1, <1>2, <1>3 DEF Decider, OneDecider
<1>5. pendings[c0].decision = order[o].decision /\ pendings[c0].agent \in Agents
  BY <1>1, <1>2, <1>4 DEF OneDecider, LedgerTypeOK, Pending
<1>6. /\ row \in Entry
      /\ row.intent = DecisionIntent(pendings[c0].decision)
      /\ row.intent \in DecisionIntents
      /\ row.corr = c0
  <2>1. DecisionIntent(order[o].decision) \in DecisionIntents
    BY <1>2 DEF DecisionIntent, DecisionIntents
  <2> QED BY <1>2, <1>5, <2>1, RowTypes DEF DeciderRow, Row, Intents
<1>7. \/ AppendRow(row) /\ dropped' = dropped
      \/ dropped' = dropped \cup {row} /\ entries' = entries
  <2>1. TryAppend(row)
    BY <1>2 DEF Audit, DeciderRow
  <2> QED BY <2>1 DEF TryAppend
<1>8. \A q \in Operators, c \in Ids : Decider(q, c)' <=> Decider(q, c)
  BY <1>1, <1>3 DEF Decider
<1>9. /\ opPc'[o] = "decided"
      /\ \A q \in Operators : q # o => opPc'[q] = opPc[q]
  BY <1>1, <1>3
<1>10. DecisionRows(c0) = {}
  BY <1>2, <1>3, <1>4, <1>1 DEF RowsAreTheDeciders
<1>11. /\ \A n \in DOMAIN entries : n \in DOMAIN entries' /\ entries'[n] = entries[n]
       /\ \A m, n \in DOMAIN entries' : m \notin DOMAIN entries /\ n \notin DOMAIN entries => m = n
       /\ \A n \in DOMAIN entries' : n \notin DOMAIN entries => entries'[n] = row
       /\ RowIsTold(row)'
  <2>1. CASE AppendRow(row)
    <3>1. ChainGrows /\ \E n \in DOMAIN entries' : entries'[n] = row
      BY <1>1, <1>6, <2>1, AppendKeepsChain DEF LedgerTypeOK
    <3>2. \A n \in DOMAIN entries' : n \notin DOMAIN entries => entries'[n] = row
                                               /\ n = Len(entries) + 1
      BY <1>1, <1>6, <2>1, AppendAddsRow DEF LedgerTypeOK
    <3>3. RowIsTold(row)'
      BY <3>1 DEF RowIsTold, InChain
    <3> QED BY <3>1, <3>2, <3>3 DEF ChainGrows
  <2>2. CASE dropped' = dropped \cup {row} /\ entries' = entries
    BY <2>2 DEF RowIsTold
  <2> QED BY <1>7, <2>1, <2>2
<1>12. /\ \A m, n \in DecisionRows(c0)' : m = n /\ entries'[n] = row
       /\ \A c \in Ids : c # c0 => DecisionRows(c)' = DecisionRows(c)
       /\ \A c \in Ids : \A n \in DecisionRows(c) : entries'[n] = entries[n]
  <2>1. ASSUME NEW n \in DecisionRows(c0)' PROVE n \in DOMAIN entries' /\ n \notin DOMAIN entries
    BY <1>10, <1>11, <2>1 DEF DecisionRows
  <2>2. \A c \in Ids : c # c0 => DecisionRows(c)' = DecisionRows(c)
    BY <1>6, <1>11 DEF DecisionRows
  <2>3. \A c \in Ids : \A n \in DecisionRows(c) : entries'[n] = entries[n]
    BY <1>11 DEF DecisionRows
  <2> QED BY <1>11, <2>1, <2>2, <2>3
<1>13. RowsAreTheDeciders'
  <2> SUFFICES ASSUME NEW c \in Ids, NEW n \in DecisionRows(c)'
               PROVE  \E q \in Operators : Decider(q, c)' /\ opPc'[q] = "decided"
    BY DEF RowsAreTheDeciders
  <2>1. CASE c = c0
    BY <1>4, <1>8, <1>9, <1>2, <2>1
  <2>2. CASE c # c0
    <3>1. PICK q \in Operators : Decider(q, c) /\ opPc[q] = "decided"
      BY <1>1, <1>12, <2>2 DEF RowsAreTheDeciders
    <3> QED BY <1>3, <1>8, <1>9, <3>1
  <2> QED BY <2>1, <2>2
<1>14. AuditTellsTheDecision'
  <2> SUFFICES ASSUME NEW c \in Ids
               PROVE  /\ \A m, n \in DecisionRows(c)' : m = n
                      /\ \A n \in DecisionRows(c)' :
                             /\ pendings[c].decision \in {"allow", "deny"}
                             /\ entries'[n].intent = DecisionIntent(pendings[c].decision)
    BY <1>3 DEF AuditTellsTheDecision
  <2>1. CASE c = c0
    BY <1>2, <1>5, <1>6, <1>12, <2>1
  <2>2. CASE c # c0
    BY <1>1, <1>12, <2>2 DEF AuditTellsTheDecision
  <2> QED BY <2>1, <2>2
<1>15. ASSUME NEW c \in Ids PROVE OneDeciderOf(c)'
  <2>1. OneDeciderOf(c)
    BY <1>1, DeciderParts
  <2>2. ASSUME NEW q \in Operators, Decider(q, c), opPc'[q] = "decided"
        PROVE  RowIsTold(DeciderRow(q, c))'
    <3>1. DeciderRow(q, c)' = DeciderRow(q, c)
      BY <1>3 DEF DeciderRow
    <3>2. CASE q = o
      <4>1. row = DeciderRow(q, c)
        BY <1>2, <2>2, <3>2 DEF Decider
      <4>2. DeciderRow(q, c)' = row
        BY <3>1, <4>1
      <4>3. InChain(row)' \/ row \in dropped'
        BY <1>11 DEF RowIsTold
      <4> QED BY <4>2, <4>3 DEF RowIsTold, InChain
    <3>3. CASE q # o
      <4>1. RowIsTold(DeciderRow(q, c))
        BY <1>9, <2>1, <2>2, <3>3 DEF OneDeciderOf
      <4>2. dropped \subseteq dropped'
        BY <1>7
      <4> QED BY <1>11, <3>1, <4>1, <4>2 DEF RowIsTold, InChain
    <3> QED BY <3>2, <3>3
  <2>3. \A q \in Operators : InScope(c, order[q].scope)' <=> InScope(c, order[q].scope)
    BY <1>3 DEF InScope
  <2> QED BY <1>3, <1>8, <2>1, <2>2, <2>3 DEF OneDeciderOf
<1>16. OneDecider'
  BY <1>15 DEF OneDecider, OneDeciderOf, RowIsTold, DeciderRow
<1> QED BY <1>13, <1>14, <1>16

------------------------------------------------------------------------------
(* Every step of the gateway.                                              *)

LEMMA StepKeepsDecider ==
    ASSUME DecisionInv, [Next]_vars
    PROVE  DecisionInv'
<1>1. TypeInv /\ TypeOK /\ LedgerTypeOK
  BY DEF DecisionInv, TypeInv, TypeOK
<1>2. TypeInv' /\ NothingLost /\ order' = order
  BY <1>1, TypeStep, StepKeepsLedger, RequestStepTypes, OtherStepTypes DEF Next
<1>3. SUFFICES OneDecider' /\ AuditTellsTheDecision' /\ RowsAreTheDeciders'
  BY <1>2 DEF DecisionInv
<1>4. CASE Quiet
  BY <1>2, <1>4, QuietKeeps
<1>5. CASE \E r \in Requests : RequestStep(r)
  BY <1>1, <1>4, <1>5, RequestStepIsQuiet
<1>6. CASE \E o \in Operators : Audit(o)
  BY <1>6, AuditKeepsDecider
<1>7. ASSUME NEW o \in Operators, Decide(o)
      PROVE  OneDecider' /\ AuditTellsTheDecision' /\ RowsAreTheDeciders'
  <2>1. CASE UNCHANGED storeVars
    BY <1>1, <1>4, <1>7, <2>1, OtherStepIsQuiet
  <2>2. CASE ~UNCHANGED storeVars
    <3>1. /\ DecideTx(order[o].id, order[o].scope, order[o].decision)
          /\ opPc[o] = "idle"
          /\ opPc' = [opPc EXCEPT ![o] = "audit"]
          /\ dropped' = dropped
      BY <1>7, <2>2 DEF Decide, historyVars
    <3> QED BY <1>2, <3>1, DecideKeepsDecider
  <2> QED BY <2>1, <2>2
<1>8. CASE \/ \E i \in Instances : Start(i) \/ Crash(i) \/ Reconcile(i)
           \/ \E k \in Keys : Elapse(k)
           \/ \E o \in Operators : DisconnectOperator(o)
           \/ UNCHANGED vars
  BY <1>1, <1>4, <1>8, OtherStepIsQuiet
<1> QED BY <1>5, <1>6, <1>7, <1>8 DEF Next, RequestStep

(* The strengthened invariant: one operator decides each review, and every *)
(* decision row of the chain is the row of the operator who did.           *)
LEMMA DecisionInvariant == Spec => []DecisionInv
<1>1. ASSUME Init PROVE DecisionInv
  <2>1. /\ TypeInv
        /\ \A o \in Operators, c \in Ids : ~Decider(o, c)
        /\ \A c \in Ids : pendings[c].decision = "absent"
    BY <1>1, TypeInit DEF Init, LedgerInit, Decider
  <2>2. \A c \in Ids : DecisionRows(c) = {}
    BY <1>1 DEF Init, LedgerInit, DecisionRows
  <2> QED BY <2>1, <2>2 DEF DecisionInv, OneDecider, AuditTellsTheDecision, RowsAreTheDeciders
<1>2. DecisionInv /\ [Next]_vars => DecisionInv'
  BY StepKeepsDecider
<1> QED BY <1>1, <1>2, PTL DEF Spec

(* Each review has at most one operator who decided it, and who may;       *)
(* proxy.rs:1080 answers every other one without a write.                  *)
THEOREM DecisionsAreMadeOnce == Spec => []OneDecider
<1>1. DecisionInv => OneDecider
  BY DEF DecisionInv
<1> QED BY <1>1, DecisionInvariant, PTL

(* The chain shows no other decision than the one taken, and shows it at   *)
(* most once (ledger.rs:828).                                              *)
THEOREM AuditIsTruthful == Spec => []AuditTellsTheDecision
<1>1. DecisionInv => AuditTellsTheDecision
  BY DEF DecisionInv
<1> QED BY <1>1, DecisionInvariant, PTL

------------------------------------------------------------------------------
(* The queue, the order of the rows, and the report.                       *)

(* A row of the queue is the request's that parked it.                     *)
ParkerOwns(c) ==
    IF parker[c] = NoValue
    THEN pendings[c].decision = "absent"
    ELSE /\ pendings[c].decision # "absent"
         /\ pendings[c].tenant = call[parker[c]].tenant
         /\ pendings[c].agent = call[parker[c]].agent

(* The chain shows a row of one of these kinds for this id, or lost it.    *)
KindIsTold(c, kinds) ==
    \E row \in Entry : RowIsTold(row) /\ row.corr = c /\ row.intent \in kinds

(* GraduationIsTruthful in terms of rows: every verdict that would stop    *)
(* the call in enforce mode was written, or its append failed.             *)
VerdictIsTold(r) ==
    tier[r] \in {"Yellow", "Red"} \/ reply[r] = "throttled" =>
        KindIsTold(call[r].id, {"PendingReview", "Denied", "RateLimitDenied"})

(* The review is told before the row of the queue is inserted.             *)
ParkIsTold(r) == pc[r] \in {"lookup", "park"} => KindIsTold(call[r].id, {"PendingReview"})

PendingIsTold(c) == pendings[c].decision # "absent" => KindIsTold(c, {"PendingReview"})

QueueInv ==
    /\ DecisionInv
    /\ \A c \in Ids : ParkerOwns(c) /\ PendingIsTold(c)
    /\ \A r \in Requests : VerdictIsTold(r) /\ ParkIsTold(r)
    /\ DecisionFollowsReview

(* What is told stays told.                                                *)
LEMMA ToldStaysTold ==
    ASSUME TypeInv, [Next]_vars, NEW c, NEW kinds, KindIsTold(c, kinds)
    PROVE  KindIsTold(c, kinds)'
<1>1. ChainGrows /\ dropped \subseteq dropped'
  BY StepKeepsLedger, StepKeepsDropped DEF NothingLost
<1>. QED
  BY <1>1 DEF KindIsTold, RowIsTold, InChain, ChainGrows

(* An append tells its row, or its failure is remembered.                  *)
LEMMA TryAppendTells ==
    ASSUME LedgerTypeOK, NEW row \in Entry, TryAppend(row), NEW kinds, row.intent \in kinds
    PROVE  KindIsTold(row.corr, kinds)'
<1>1. CASE AppendRow(row)
  <2>1. \E n \in DOMAIN entries' : entries'[n] = row
    BY <1>1, AppendKeepsChain DEF LedgerTypeOK
  <2>. QED
    BY <2>1 DEF KindIsTold, RowIsTold, InChain
<1>2. CASE row \in dropped'
  BY <1>2 DEF KindIsTold, RowIsTold
<1>. QED
  BY <1>1, <1>2 DEF TryAppend

(* A throttled request and a verdict tell theirs.                          *)
LEMMA ThrottleTells ==
    ASSUME TypeInv, NEW r \in Requests, Throttle(r), NEW c \in Ids, c = call[r].id
    PROVE  KindIsTold(c, {"RateLimitDenied"})'
<1>1. TypeOK /\ LedgerTypeOK
  BY DEF TypeInv, TypeOK
<1>2. PICK row \in Entry : /\ TryAppend(row)
                           /\ row.intent \in {"RateLimitDenied"} /\ row.corr = c
  BY <1>1, CallTypes, RowTypes DEF Throttle, Row
<1>. QED
  BY <1>1, <1>2, TryAppendTells

LEMMA VerdictTells ==
    ASSUME TypeInv, NEW r \in Requests, Verdict(r), NEW c \in Ids, c = call[r].id
    PROVE  \E t \in Tiers : /\ tier' = [tier EXCEPT ![r] = t]
                            /\ AfterVerdict(r, t)
                            /\ KindIsTold(c, {VerdictIntent(t)})'
<1>1. TypeOK /\ LedgerTypeOK
  BY DEF TypeInv, TypeOK
<1>2. PICK t \in TiersOf[call[r].payload] :
          /\ tier' = [tier EXCEPT ![r] = t]
          /\ TryAppend(Row(VerdictIntent(t), call[r].agent, call[r].id))
          /\ AfterVerdict(r, t)
  BY DEF Verdict
<1>3. t \in Tiers
  BY <1>1, CallTypes, GatewayAssumption
<1>4. VerdictIntent(t) \in VerdictIntents
  BY <1>3 DEF VerdictIntent, Tiers, VerdictIntents
<1>5. PICK row \in Entry : /\ TryAppend(row)
                           /\ row.intent \in {VerdictIntent(t)} /\ row.corr = c
  BY <1>1, <1>2, <1>4, CallTypes, RowTypes DEF Row, Intents
<1>. QED
  BY <1>1, <1>2, <1>3, <1>5, TryAppendTells

(* The kinds of row in which a weaker statement is told.                   *)
LEMMA KindsWiden ==
    ASSUME NEW c, NEW kinds, NEW more, kinds \subseteq more, KindIsTold(c, kinds)'
    PROVE  KindIsTold(c, more)'
BY DEF KindIsTold

LEMMA VerdictIsToldStep ==
    ASSUME TypeInv, [Next]_vars, NEW r \in Requests, VerdictIsTold(r)
    PROVE  VerdictIsTold(r)'
<1>. DEFINE kinds == {"PendingReview", "Denied", "RateLimitDenied"}
<1>1. TypeOK /\ LedgerTypeOK
  BY DEF TypeInv, TypeOK
<1>2. call' = call
  BY <1>1, RequestStepTypes, OtherStepTypes DEF Next
<1>3. PICK c \in Ids : c = call[r].id
  BY <1>1, CallTypes
<1>4. SUFFICES ASSUME tier'[r] \in {"Yellow", "Red"} \/ reply'[r] = "throttled"
               PROVE  KindIsTold(c, kinds)'
  BY <1>2, <1>3 DEF VerdictIsTold
<1>5. CASE tier[r] \in {"Yellow", "Red"} \/ reply[r] = "throttled"
  <2>1. KindIsTold(c, kinds)
    BY <1>3, <1>5 DEF VerdictIsTold
  <2>. QED
    BY <2>1, ToldStaysTold
<1>6. CASE ~(tier[r] \in {"Yellow", "Red"} \/ reply[r] = "throttled")
  <2>1. RequestStep(r)
    BY <1>1, <1>4, <1>6, OthersStandStill DEF StandsStill
  <2>2. CASE Throttle(r)
    <3>1. KindIsTold(c, {"RateLimitDenied"})'
      BY <1>3, <2>2, ThrottleTells
    <3>. QED
      BY <3>1, KindsWiden
  <2>3. CASE Verdict(r)
    <3>1. PICK t \in Tiers : /\ tier' = [tier EXCEPT ![r] = t]
                             /\ AfterVerdict(r, t)
                             /\ KindIsTold(c, {VerdictIntent(t)})'
      BY <1>3, <2>3, VerdictTells
    <3>2. reply'[r] # "throttled"
      BY <1>1, <1>6, <3>1 DEF AfterVerdict, Goto, Answer, TypeOK
    <3>3. t \in {"Yellow", "Red"}
      BY <1>1, <1>4, <3>1, <3>2 DEF TypeOK
    <3>4. VerdictIntent(t) \in kinds
      BY <3>3 DEF VerdictIntent
    <3>. HIDE DEF kinds
    <3>. QED
      BY <3>1, <3>4, KindsWiden
  <2>. USE <1>1, <1>4, <1>6 DEF Goto, Answer, TypeOK
  <2>4. CASE Arrive(r) \/ Refuse(r) \/ Disconnect(r)
    BY <2>4 DEF Arrive, Refuse, Disconnect
  <2>5. CASE Inspect(r) \/ Begin(r)
    BY <2>5 DEF Inspect, Begin, AnswerFromRow, StorageUnavailable
  <2>6. CASE Lookup(r) \/ Park(r)
    BY <2>6 DEF Lookup, Park, StorageUnavailable
  <2>7. CASE Send(r) \/ UpstreamAnswers(r) \/ UpstreamError(r) \/ Complete(r)
    BY <2>7 DEF Send, UpstreamAnswers, UpstreamError, Complete
  <2>. QED
    BY <2>1, <2>2, <2>3, <2>4, <2>5, <2>6, <2>7 DEF RequestStep, HandlerStep
<1>. QED
  BY <1>5, <1>6

LEMMA ParkIsToldStep ==
    ASSUME TypeInv, [Next]_vars, NEW r \in Requests, ParkIsTold(r)
    PROVE  ParkIsTold(r)'
<1>1. TypeOK /\ LedgerTypeOK
  BY DEF TypeInv, TypeOK
<1>2. call' = call
  BY <1>1, RequestStepTypes, OtherStepTypes DEF Next
<1>3. PICK c \in Ids : c = call[r].id
  BY <1>1, CallTypes
<1>4. SUFFICES ASSUME pc'[r] \in {"lookup", "park"}
               PROVE  KindIsTold(c, {"PendingReview"})'
  BY <1>2, <1>3 DEF ParkIsTold
<1>5. CASE pc[r] \in {"lookup", "park"}
  <2>1. KindIsTold(c, {"PendingReview"})
    BY <1>3, <1>5 DEF ParkIsTold
  <2>. QED
    BY <2>1, ToldStaysTold
<1>6. CASE pc[r] \notin {"lookup", "park"}
  <2>1. RequestStep(r)
    BY <1>1, <1>4, <1>6, OthersStandStill DEF StandsStill
  <2>2. CASE Verdict(r)
    <3>1. PICK t \in Tiers : /\ tier' = [tier EXCEPT ![r] = t]
                             /\ AfterVerdict(r, t)
                             /\ KindIsTold(c, {VerdictIntent(t)})'
      BY <1>3, <2>2, VerdictTells
    <3>2. t = "Yellow"
      BY <1>1, <1>4, <3>1 DEF AfterVerdict, Goto, Answer, TypeOK
    <3>3. VerdictIntent(t) = "PendingReview"
      BY <3>2 DEF VerdictIntent
    <3>. QED
      BY <3>1, <3>3
  <2>. USE <1>1, <1>4, <1>6 DEF Goto, Answer, TypeOK
  <2>3. CASE Arrive(r) \/ Refuse(r) \/ Throttle(r) \/ Disconnect(r)
    BY <2>3 DEF Arrive, Refuse, Throttle, Disconnect
  <2>4. CASE Inspect(r) \/ Begin(r)
    BY <2>4 DEF Inspect, Begin, AnswerFromRow, StorageUnavailable
  <2>5. CASE Lookup(r) \/ Park(r)
    BY <2>5 DEF Lookup, Park
  <2>6. CASE Send(r) \/ UpstreamAnswers(r) \/ UpstreamError(r) \/ Complete(r)
    BY <2>6 DEF Send, UpstreamAnswers, UpstreamError, Complete
  <2>. QED
    BY <2>1, <2>2, <2>3, <2>4, <2>5, <2>6 DEF RequestStep, HandlerStep
<1>. QED
  BY <1>5, <1>6

(* Of a row of the queue every step but its own park keeps whose it is.    *)
QueueRests ==
    /\ parker' = parker
    /\ \A c \in Ids : /\ pendings'[c].decision = "absent" <=> pendings[c].decision = "absent"
                      /\ pendings'[c].tenant = pendings[c].tenant
                      /\ pendings'[c].agent = pendings[c].agent

Parks(r) ==
    /\ pc[r] = "park"
    /\ ParkTx(call[r].id, call[r].tenant, call[r].agent)
    /\ parker' = [parker EXCEPT ![call[r].id] = r]

LEMMA ParkCases ==
    ASSUME TypeInv, [Next]_vars
    PROVE  QueueRests \/ \E r \in Requests : Parks(r)
<1>1. TypeOK /\ LedgerTypeOK
  BY DEF TypeInv, TypeOK
<1>. USE DEF QueueRests, storeVars, historyVars
<1>2. ASSUME NEW r \in Requests, RequestStep(r), ~Park(r), ~Begin(r), ~Complete(r)
      PROVE  QueueRests
  BY <1>2 DEF RequestStep, HandlerStep, Arrive, Refuse, Throttle, Inspect, Verdict, Lookup,
              Send, UpstreamAnswers, UpstreamError, Disconnect, TryAppend
<1>3. ASSUME NEW r \in Requests, Begin(r) \/ Complete(r)
      PROVE  QueueRests
  BY <1>3 DEF Begin, Complete, BeginTx, CompleteTx
<1>4. ASSUME NEW r \in Requests, Park(r)
      PROVE  QueueRests \/ Parks(r)
  BY <1>4 DEF Park, Parks
<1>5. ASSUME NEW o \in Operators, Decide(o)
      PROVE  QueueRests
  <2>1. parker' = parker
    BY <1>5 DEF Decide
  <2>2. CASE UNCHANGED storeVars
    BY <2>1, <2>2
  <2>3. CASE DecideTx(order[o].id, order[o].scope, order[o].decision)
    <3>1. order[o].id \in Ids /\ order[o].decision \in {"allow", "deny"}
      BY <1>1, CallTypes
    <3>2. \A c \in Ids : pendings[c] \in Pending
      BY <1>1 DEF LedgerTypeOK
    <3>. QED
      BY <1>1, <2>1, <2>3, <3>1, <3>2 DEF DecideTx, LedgerTypeOK, Pending
  <2>. QED
    BY <1>5, <2>2, <2>3 DEF Decide
<1>6. ASSUME \/ \E o \in Operators : Audit(o) \/ DisconnectOperator(o)
             \/ \E i \in Instances : Start(i) \/ Crash(i) \/ Reconcile(i)
             \/ \E k \in Keys : Elapse(k)
             \/ UNCHANGED vars
      PROVE  QueueRests
  BY <1>6 DEF Audit, TryAppend, DisconnectOperator, Start, Crash, Reconcile, ReconcileTx,
              Elapse, vars
<1>. QED
  BY <1>2, <1>3, <1>4, <1>5, <1>6 DEF Next, RequestStep

LEMMA ParkerOwnsStep ==
    ASSUME TypeInv, [Next]_vars, \A c \in Ids : ParkerOwns(c)
    PROVE  \A c \in Ids : ParkerOwns(c)'
<1>1. TypeOK /\ LedgerTypeOK /\ parker \in [Ids -> Requests \cup {NoValue}]
  BY DEF TypeInv, TypeOK
<1>2. call' = call
  BY <1>1, RequestStepTypes, OtherStepTypes DEF Next
<1>3. CASE QueueRests
  BY <1>2, <1>3 DEF QueueRests, ParkerOwns
<1>4. ASSUME NEW r \in Requests, Parks(r)
      PROVE  \A c \in Ids : ParkerOwns(c)'
  <2>1. r # NoValue
    BY GatewayAssumption
  <2>. QED
    BY <1>1, <1>2, <1>4, <2>1, CallTypes DEF Parks, ParkTx, LedgerTypeOK, ParkerOwns
<1>. QED
  BY <1>3, <1>4, ParkCases

LEMMA PendingIsToldStep ==
    ASSUME TypeInv, [Next]_vars, NEW c \in Ids, PendingIsTold(c),
           \A r \in Requests : ParkIsTold(r)
    PROVE  PendingIsTold(c)'
<1>1. TypeOK /\ LedgerTypeOK
  BY DEF TypeInv, TypeOK
<1>2. SUFFICES ASSUME pendings'[c].decision # "absent"
               PROVE  KindIsTold(c, {"PendingReview"})'
  BY DEF PendingIsTold
<1>3. KindIsTold(c, {"PendingReview"})
  <2>1. CASE pendings[c].decision # "absent"
    BY <2>1 DEF PendingIsTold
  <2>2. CASE pendings[c].decision = "absent"
    <3>1. PICK r \in Requests : Parks(r)
      BY <1>2, <2>2, ParkCases DEF QueueRests
    <3>2. c = call[r].id
      BY <1>1, <1>2, <2>2, <3>1, CallTypes DEF Parks, ParkTx, LedgerTypeOK
    <3>. QED
      BY <3>1, <3>2 DEF Parks, ParkIsTold
  <2>. QED
    BY <2>1, <2>2
<1>. QED
  BY <1>3, ToldStaysTold

(* Only an audit adds a decision row, and adds it at the end.              *)
LEMMA DecisionRowByAudit ==
    ASSUME DecisionInv, [Next]_vars, NEW n \in DOMAIN entries', n \notin DOMAIN entries,
           entries'[n].intent \in DecisionIntents
    PROVE  \E o \in Operators : /\ opPc[o] = "audit"
                                /\ entries'[n].corr = order[o].id
                                /\ n = Len(entries) + 1 /\ dropped' = dropped
<1>1. TypeInv /\ TypeOK /\ LedgerTypeOK /\ AuditIsBacked
  BY DEF DecisionInv, TypeInv, TypeOK
<1>2. ~Quiet
  BY DEF Quiet, NoDecisionRowAdded
<1>3. ~\E r \in Requests : RequestStep(r)
  BY <1>1, <1>2, RequestStepIsQuiet
<1>4. ~\E o \in Operators : Decide(o)
  BY <1>1, <1>2, OtherStepIsQuiet DEF Decide, DecideTx
<1>5. PICK o \in Operators : Audit(o)
  BY <1>1, <1>2, <1>3, <1>4, OtherStepIsQuiet DEF Next, RequestStep
<1>6. order[o].id \in Ids /\ pendings[order[o].id].agent \in Agents
  <2>1. order[o].id \in Ids
    BY <1>1, CallTypes
  <2>2. pendings[order[o].id] \in Pending /\ pendings[order[o].id].decision # "absent"
    BY <1>1, <1>5, <2>1 DEF LedgerTypeOK, AuditIsBacked, Audit
  <2>. QED
    BY <2>1, <2>2 DEF Pending
<1>7. DecisionIntent(order[o].decision) \in Intents
  BY DEF DecisionIntent, Intents, DecisionIntents
<1>8. PICK row \in Entry : TryAppend(row) /\ row.corr = order[o].id
  BY <1>5, <1>6, <1>7, RowTypes DEF Audit, Row
<1>9. AppendRow(row) /\ dropped' = dropped
  BY <1>8 DEF TryAppend
<1>10. entries'[n] = row /\ n = Len(entries) + 1
  BY <1>1, <1>9, AppendAddsRow DEF LedgerTypeOK
<1>. QED
  BY <1>5, <1>8, <1>9, <1>10 DEF Audit

(* A decision row of c at n, with the review before it.                    *)
ReviewBefore(n, c) ==
    \/ \E m \in 1 .. n - 1 : entries[m].corr = c /\ entries[m].intent = "PendingReview"
    \/ \E row \in dropped : row.corr = c /\ row.intent = "PendingReview"

LEMMA DecisionFollowsStep ==
    ASSUME QueueInv, [Next]_vars
    PROVE  DecisionFollowsReview'
<1>1. /\ DecisionInv /\ TypeInv /\ TypeOK /\ LedgerTypeOK /\ DecisionFollowsReview
      /\ AuditIsBacked
  BY DEF QueueInv, DecisionInv, TypeInv, TypeOK
<1>2. ChainGrows /\ dropped \subseteq dropped'
  BY <1>1, StepKeepsLedger, StepKeepsDropped DEF NothingLost
<1>3. DOMAIN entries = 1 .. Len(entries) /\ Len(entries) \in Nat
  BY <1>1, LenProperties DEF LedgerTypeOK
<1>4. SUFFICES ASSUME NEW c \in Ids, NEW n \in DOMAIN entries', entries'[n].corr = c,
                      entries'[n].intent \in DecisionIntents
               PROVE  ReviewBefore(n, c)'
  BY DEF DecisionFollowsReview, DecisionRows, ReviewBefore
<1>5. CASE n \in DOMAIN entries
  <2>1. ReviewBefore(n, c)
    BY <1>1, <1>2, <1>4, <1>5 DEF DecisionFollowsReview, DecisionRows, ReviewBefore, ChainGrows
  <2>2. \A m \in 1 .. n - 1 : m \in DOMAIN entries
    BY <1>3, <1>5
  <2>. QED
    BY <1>2, <2>1, <2>2 DEF ReviewBefore, ChainGrows
<1>6. CASE n \notin DOMAIN entries
  <2>1. PICK o \in Operators : /\ opPc[o] = "audit" /\ c = order[o].id
                               /\ n = Len(entries) + 1 /\ dropped' = dropped
    BY <1>1, <1>4, <1>6, DecisionRowByAudit
  <2>2. pendings[c].decision # "absent"
    BY <1>1, <2>1 DEF AuditIsBacked
  <2>3. PICK row \in Entry : /\ RowIsTold(row) /\ row.corr = c
                             /\ row.intent = "PendingReview"
    BY <2>2 DEF QueueInv, PendingIsTold, KindIsTold
  <2>4. CASE row \in dropped
    BY <1>2, <2>3, <2>4 DEF ReviewBefore
  <2>5. CASE InChain(row)
    <3>1. PICK m \in DOMAIN entries : entries[m] = row
      BY <2>5 DEF InChain
    <3>2. m \in 1 .. n - 1
      BY <1>3, <2>1, <3>1
    <3>. QED
      BY <1>2, <2>3, <3>1, <3>2 DEF ReviewBefore, ChainGrows
  <2>. QED
    BY <2>3, <2>4, <2>5 DEF RowIsTold
<1>. QED
  BY <1>5, <1>6

LEMMA QueueInvariant == Spec => []QueueInv
<1>1. ASSUME Init
      PROVE  /\ \A c \in Ids : ParkerOwns(c) /\ PendingIsTold(c)
             /\ \A r \in Requests : VerdictIsTold(r) /\ ParkIsTold(r)
             /\ DecisionFollowsReview
  <2>1. entries = <<>> /\ \A c \in Ids : parker[c] = NoValue /\ pendings[c].decision = "absent"
    BY <1>1 DEF Init, LedgerInit
  <2>2. \A r \in Requests : tier[r] \notin {"Yellow", "Red"} /\ reply[r] = "none" /\ pc[r] = "idle"
    <3>1. tier = [r \in Requests |-> NoValue] /\ NoValue \notin {"Yellow", "Red"}
      BY <1>1, GatewayAssumption DEF Init, Tiers
    <3>. QED
      BY <1>1, <3>1 DEF Init
  <2>. QED
    BY <2>1, <2>2 DEF ParkerOwns, PendingIsTold, VerdictIsTold, ParkIsTold,
                      DecisionFollowsReview, DecisionRows
<1>2. ASSUME QueueInv, [Next]_vars
      PROVE  /\ (\A c \in Ids : ParkerOwns(c) /\ PendingIsTold(c))'
             /\ (\A r \in Requests : VerdictIsTold(r) /\ ParkIsTold(r))'
             /\ DecisionFollowsReview'
  <2>1. TypeInv
    BY <1>2 DEF QueueInv, DecisionInv
  <2>. QED
    BY <1>2, <2>1, ParkerOwnsStep, PendingIsToldStep, VerdictIsToldStep, ParkIsToldStep,
       DecisionFollowsStep DEF QueueInv
<1>3. QueueInv <=> /\ DecisionInv
                   /\ \A c \in Ids : ParkerOwns(c) /\ PendingIsTold(c)
                   /\ \A r \in Requests : VerdictIsTold(r) /\ ParkIsTold(r)
                   /\ DecisionFollowsReview
  BY DEF QueueInv
<1>. QED
  BY <1>1, <1>2, <1>3, DecisionInvariant, PTL DEF Spec

(* Every decision row of the chain stands behind the row of the review it  *)
(* decides (ledger.rs:787), unless the append of that review failed.       *)
THEOREM DecisionsFollowReviews == Spec => []DecisionFollowsReview
<1>1. QueueInv => DecisionFollowsReview
  BY DEF QueueInv
<1>. QED
  BY <1>1, QueueInvariant, PTL

(* The report of report.rs:145 recommends enforce mode only when nothing   *)
(* so far would have been stopped.                                         *)
THEOREM GraduationIsTrue == Spec => []GraduationIsTruthful
<1>1. ASSUME QueueInv, RecommendsEnforce(TRUE), NEW r \in Requests,
             tier[r] \in {"Yellow", "Red"} \/ reply[r] = "throttled"
      PROVE  \E row \in dropped :
                 /\ row.corr = call[r].id
                 /\ row.intent \in {"PendingReview", "Denied", "RateLimitDenied"}
  <2>1. PICK row \in Entry : /\ RowIsTold(row) /\ row.corr = call[r].id
                             /\ row.intent \in {"PendingReview", "Denied", "RateLimitDenied"}
    BY <1>1 DEF QueueInv, VerdictIsTold, KindIsTold
  <2>2. ~InChain(row)
    BY <1>1, <2>1 DEF RecommendsEnforce, WouldDeny, WouldPend, RowsOf, InChain
  <2>. QED
    BY <2>1, <2>2 DEF RowIsTold
<1>2. QueueInv => GraduationIsTruthful
  BY <1>1 DEF GraduationIsTruthful
<1>. QED
  BY <1>2, QueueInvariant, PTL

(* The queue of each scope, and the poll of each identity, show just the   *)
(* reviews that were parked for them, as the operators left them.          *)
THEOREM QueuesAreTheWork == Spec => []QueueIsTheWork
<1>1. ASSUME QueueInv, NEW c \in Ids
      PROVE  LET open == \A o \in Operators : ~Decider(o, c)
                 by == parker[c] IN
             /\ \A t \in Tenants \cup {NoValue} :
                    /\ c \in Listed("parked", t) <=>
                           by # NoValue /\ open /\ t \in {NoValue, call[by].tenant}
                    /\ c \in Listed("decided", t) <=>
                           by # NoValue /\ ~open /\ t \in {NoValue, call[by].tenant}
             /\ \A t \in Tenants, a \in Agents :
                    IF by = NoValue \/ <<t, a>> # <<call[by].tenant, call[by].agent>>
                    THEN Polled(c, t, a) = "not_found"
                    ELSE \/ open /\ Polled(c, t, a) = "pending"
                         \/ \E o \in Operators :
                                /\ Decider(o, c)
                                /\ Polled(c, t, a) = IF order[o].decision = "allow"
                                                     THEN "approved" ELSE "denied"
  <2>1. TypeOK /\ OneDecider /\ ParkerOwns(c) /\ pendings[c] \in Pending
    BY <1>1 DEF QueueInv, DecisionInv, TypeInv, TypeOK, LedgerTypeOK
  <2>2. \A o \in Operators : order[o].decision \in {"allow", "deny"}
    BY <2>1, CallTypes
  <2>3. (\A o \in Operators : ~Decider(o, c))
            <=> pendings[c].decision \in {"absent", "undecided"}
    <3>1. \A o \in Operators : Decider(o, c) => pendings[c].decision = order[o].decision
      BY <2>1 DEF OneDecider
    <3>2. pendings[c].decision \in {"allow", "deny"} => \E o \in Operators : Decider(o, c)
      BY <2>1 DEF OneDecider
    <3>3. pendings[c].decision \in {"absent", "undecided", "allow", "deny"}
      BY <2>1 DEF Pending
    <3>. QED
      BY <2>2, <3>1, <3>2, <3>3
  <2>4. /\ parker[c] = NoValue <=> pendings[c].decision = "absent"
        /\ parker[c] # NoValue => /\ pendings[c].tenant = call[parker[c]].tenant
                                  /\ pendings[c].agent = call[parker[c]].agent
    BY <2>1 DEF ParkerOwns
  <2>5. ASSUME NEW t \in Tenants \cup {NoValue}
        PROVE  /\ c \in Listed("parked", t)
                      <=> /\ parker[c] # NoValue /\ (\A o \in Operators : ~Decider(o, c))
                          /\ t \in {NoValue, call[parker[c]].tenant}
               /\ c \in Listed("decided", t)
                      <=> /\ parker[c] # NoValue /\ ~(\A o \in Operators : ~Decider(o, c))
                          /\ t \in {NoValue, call[parker[c]].tenant}
    BY <2>1, <2>3, <2>4 DEF Listed, InScope, Pending
  <2>6. ASSUME NEW t \in Tenants, NEW a \in Agents
        PROVE  IF parker[c] = NoValue
                      \/ <<t, a>> # <<call[parker[c]].tenant, call[parker[c]].agent>>
               THEN Polled(c, t, a) = "not_found"
               ELSE \/ /\ \A o \in Operators : ~Decider(o, c)
                       /\ Polled(c, t, a) = "pending"
                    \/ \E o \in Operators :
                           /\ Decider(o, c)
                           /\ Polled(c, t, a) = IF order[o].decision = "allow"
                                                THEN "approved" ELSE "denied"
    <3>1. CASE parker[c] = NoValue
                   \/ <<t, a>> # <<call[parker[c]].tenant, call[parker[c]].agent>>
      BY <2>4, <3>1 DEF Polled
    <3>2. CASE parker[c] # NoValue
                   /\ <<t, a>> = <<call[parker[c]].tenant, call[parker[c]].agent>>
      <4>1. Polled(c, t, a) = CASE pendings[c].decision = "undecided" -> "pending"
                                [] pendings[c].decision = "allow"     -> "approved"
                                [] pendings[c].decision = "deny"      -> "denied"
        BY <2>4, <3>2 DEF Polled
      <4>2. CASE pendings[c].decision = "undecided"
        BY <2>3, <3>2, <4>1, <4>2
      <4>3. CASE pendings[c].decision # "undecided"
        <5>1. PICK o \in Operators : Decider(o, c)
          BY <2>1, <2>3, <2>4, <3>2, <4>3 DEF Pending
        <5>2. pendings[c].decision = order[o].decision
          BY <2>1, <5>1 DEF OneDecider
        <5>. QED
          BY <2>2, <3>2, <4>1, <5>1, <5>2
      <4>. QED
        BY <4>2, <4>3
    <3>. QED
      BY <3>1, <3>2
  <2>. QED
    BY <2>5, <2>6
<1>2. QueueInv => QueueIsTheWork
  BY <1>1 DEF QueueIsTheWork
<1>. QED
  BY <1>2, QueueInvariant, PTL

===============================================================================
