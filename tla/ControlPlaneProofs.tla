--------------------------- MODULE ControlPlaneProofs --------------------------
(***************************************************************************)
(* The tool pins, for all agents, catalogs, processes and requests.        *)
(*                                                                         *)
(* The inductive invariant ties each pin to an answer that its agent got   *)
(* from that process, each catalog that was shown without a row to the     *)
(* pin, while the process lives, and each row to the pin it was compared   *)
(* with.                                                                   *)
(***************************************************************************)
EXTENDS ControlPlane, TLAPS

CatalogAt(r) == CatalogOf(answer[r].tools)

(* The handler of r has a catalog in its hands.                            *)
HasCatalog(r) == answer[r] # NoValue /\ answer[r].tools # NoValue

Shape ==
    /\ proc \in [Instances -> {"new", "up", "down"}]
    /\ DOMAIN pins = Instances
    /\ DOMAIN call = Requests
    /\ DOMAIN pc = Requests
    /\ at \in [Requests -> Instances \cup {NoValue}]
    /\ answer \in [Requests -> Answers \cup {NoValue}]

HandlersLive ==
    \A r \in Requests :
        /\ pc[r] \in HandlerSteps => at[r] \in Instances /\ proc[at[r]] = "up"
        /\ pc[r] \in {"observe", "append"} => answer[r] # NoValue
        /\ pc[r] = "relayed" => at[r] \in Instances /\ answer[r] # NoValue
        /\ at[r] \in Instances => proc[at[r]] # "new"

(* s got the catalog of a pin of process i from that process.              *)
GivenBy(s, i, a) ==
    /\ at[s] = i /\ call[s].agent = a
    /\ HasCatalog(s)
    /\ pc[s] \notin {"idle", "await", "observe", "append"}

PinsAreGiven ==
    \A i \in Instances : \A a \in DOMAIN pins[i] :
        \E s \in Requests : GivenBy(s, i, a) /\ pins[i][a] = CatalogAt(s)

(* Who was shown a catalog, with nothing recorded or lost.                 *)
Silent(r) == ShownCatalog(r) /\ ~Recorded(r) /\ r \notin lost

SilentIsPinned ==
    \A r \in Requests : Silent(r) /\ proc[at[r]] = "up" =>
        /\ call[r].agent \in DOMAIN pins[at[r]]
        /\ pins[at[r]][call[r].agent] = CatalogAt(r)

DivergentIsPinned ==
    \A r \in Requests : pc[r] = "append" =>
        /\ call[r].agent \in DOMAIN pins[at[r]]
        /\ HasCatalog(r)
        /\ Changes(pins[at[r]][call[r].agent], CatalogAt(r)) # {}

(* What a row was compared with, and by whom.                              *)
RowsAreGiven ==
    \A row \in rows :
        /\ row.of \in Requests
        /\ pc[row.of] \notin {"idle", "await", "observe", "append"}
        /\ row.changes # {}
        /\ \E s \in Requests \ {row.of} :
               /\ GivenBy(s, at[row.of], call[row.of].agent)
               /\ row.changes = Changes(CatalogAt(s), CatalogAt(row.of))

PinInv ==
    /\ Shape
    /\ HandlersLive
    /\ PinsAreGiven
    /\ SilentIsPinned
    /\ DivergentIsPinned
    /\ RowsAreGiven
    /\ UnrecordedAgree

------------------------------------------------------------------------------
(* A catalog is a function of names.                                       *)
LEMMA CatalogIsFunction ==
    ASSUME NEW tools
    PROVE  CatalogOf(tools) = [t \in DOMAIN CatalogOf(tools) |-> CatalogOf(tools)[t]]
<1> DEFINE D(t) == LET last == CHOOSE n \in DOMAIN tools :
                            /\ tools[n].name = t
                            /\ \A m \in DOMAIN tools : tools[m].name = t => m <= n
                   IN tools[last].definition
<1>1. CatalogOf(tools) = [t \in Named(tools) |-> D(t)]
  BY Zenon DEF CatalogOf
<1> HIDE DEF D
<1> QED BY <1>1

(* The comparison misses nothing: two catalogs without a difference are    *)
(* the same.                                                               *)
LEMMA NoChangesMeansEqual ==
    ASSUME NEW p, NEW f,
           Changes(CatalogOf(p), CatalogOf(f)) = {}
    PROVE  CatalogOf(p) = CatalogOf(f)
<1> DEFINE P == CatalogOf(p)
           F == CatalogOf(f)
<1>1. P = [t \in DOMAIN P |-> P[t]] /\ F = [t \in DOMAIN F |-> F[t]]
  BY CatalogIsFunction
<1>2. Changes(P, F) = {}
  OBVIOUS
<1> HIDE DEF P, F
<1>3. ASSUME NEW t \in DOMAIN F \ DOMAIN P PROVE FALSE
  <2>1. <<"added", t>> \in Changes(P, F)
    BY DEF Changes
  <2> QED BY <1>2, <2>1
<1>4. ASSUME NEW t \in DOMAIN P \ DOMAIN F PROVE FALSE
  <2>1. <<"removed", t>> \in Changes(P, F)
    BY DEF Changes
  <2> QED BY <1>2, <2>1
<1>5. ASSUME NEW t \in DOMAIN F \cap DOMAIN P, P[t] # F[t] PROVE FALSE
  <2>1. <<"changed", t>> \in Changes(P, F)
    BY <1>5 DEF Changes
  <2> QED BY <1>2, <2>1
<1>6. DOMAIN P = DOMAIN F
  BY <1>3, <1>4
<1>7. \A t \in DOMAIN P : P[t] = F[t]
  BY <1>5, <1>6
<1>8. P = F
  BY <1>1, <1>6, <1>7
<1> QED BY <1>8 DEF P, F

------------------------------------------------------------------------------
LEMMA InitPinInv == Init => PinInv
<1> SUFFICES ASSUME Init PROVE PinInv
  OBVIOUS
<1>1. Shape
  BY DEF Init, Shape
<1>2. \A r \in Requests : pc[r] = "idle"
  BY DEF Init
<1>3. \A i \in Instances : DOMAIN pins[i] = {}
  BY DEF Init
<1>4. rows = {}
  BY DEF Init
<1>5. \A r \in Requests : at[r] \notin Instances
  BY ControlPlaneAssumption DEF Init
<1> QED BY <1>1, <1>2, <1>3, <1>4, <1>5 DEF PinInv, HandlersLive, HandlerSteps, PinsAreGiven,
           SilentIsPinned, Silent, ShownCatalog, DivergentIsPinned, RowsAreGiven,
           UnrecordedAgree

(* A step of the handler of r, before it has looked at the pins or with    *)
(* nothing to look at, that leaves it neither at the append nor with a     *)
(* catalog shown.                                                          *)
LEMMA QuietStepKeepsPinInv ==
    ASSUME PinInv, Shape', HandlersLive', NEW r \in Requests, NEW step,
           pc' = [pc EXCEPT ![r] = step],
           proc' = proc, pins' = pins, rows' = rows, call' = call, lost' = lost,
           \A s \in Requests \ {r} : at'[s] = at[s] /\ answer'[s] = answer[s],
           \/ pc[r] \in {"idle", "await", "observe"}
           \/ pc[r] = "append" /\ step = "dead" /\ at'[r] = at[r] /\ answer'[r] = answer[r],
           step \notin {"append"},
           ~ShownCatalog(r)'
    PROVE  PinInv'
<1> USE DEF PinInv, Shape
<1>1. \A s \in Requests : s # r =>
          /\ pc'[s] = pc[s] /\ at'[s] = at[s] /\ answer'[s] = answer[s]
          /\ HasCatalog(s)' = HasCatalog(s) /\ CatalogAt(s)' = CatalogAt(s)
          /\ ShownCatalog(s)' = ShownCatalog(s)
          /\ Recorded(s)' = Recorded(s)
  BY DEF HasCatalog, CatalogAt, ShownCatalog, Recorded
<1>2. PinsAreGiven'
  <2> SUFFICES ASSUME NEW i \in Instances, NEW a \in DOMAIN pins[i]
               PROVE  \E s \in Requests : GivenBy(s, i, a)' /\ pins[i][a] = CatalogAt(s)'
    BY DEF PinsAreGiven
  <2>1. PICK s \in Requests : GivenBy(s, i, a) /\ pins[i][a] = CatalogAt(s)
    BY DEF PinsAreGiven
  <2>2. s # r
    BY <2>1 DEF GivenBy
  <2> QED BY <1>1, <2>1, <2>2 DEF GivenBy
<1>3. SilentIsPinned'
  <2> SUFFICES ASSUME NEW s \in Requests, Silent(s)', proc[at'[s]] = "up"
               PROVE  /\ call[s].agent \in DOMAIN pins[at'[s]]
                      /\ pins[at'[s]][call[s].agent] = CatalogAt(s)'
    BY DEF SilentIsPinned
  <2>1. s # r
    BY DEF Silent
  <2>2. Silent(s)
    BY <1>1, <2>1 DEF Silent
  <2> QED BY <1>1, <2>1, <2>2 DEF SilentIsPinned
<1>4. DivergentIsPinned'
  <2> SUFFICES ASSUME NEW s \in Requests, pc'[s] = "append"
               PROVE  /\ call[s].agent \in DOMAIN pins[at'[s]]
                      /\ HasCatalog(s)'
                      /\ Changes(pins[at'[s]][call[s].agent], CatalogAt(s)') # {}
    BY DEF DivergentIsPinned
  <2>1. s # r
    OBVIOUS
  <2> QED BY <1>1, <2>1 DEF DivergentIsPinned
<1>5. RowsAreGiven'
  <2> SUFFICES ASSUME NEW row \in rows
               PROVE  /\ row.of \in Requests
                      /\ pc'[row.of] \notin {"idle", "await", "observe", "append"}
                      /\ row.changes # {}
                      /\ \E s \in Requests \ {row.of} :
                             /\ GivenBy(s, at[row.of], call[row.of].agent)'
                             /\ row.changes = Changes(CatalogAt(s), CatalogAt(row.of))'
    BY DEF RowsAreGiven
  <2>1. /\ row.of \in Requests
        /\ pc[row.of] \notin {"idle", "await", "observe", "append"}
        /\ row.changes # {}
    BY DEF RowsAreGiven
  <2>2. PICK s \in Requests \ {row.of} :
            /\ GivenBy(s, at[row.of], call[row.of].agent)
            /\ row.changes = Changes(CatalogAt(s), CatalogAt(row.of))
    BY DEF RowsAreGiven
  <2>3. row.of # r /\ s # r
    BY <2>1, <2>2 DEF GivenBy
  <2>4. GivenBy(s, at[row.of], call[row.of].agent)'
    BY <1>1, <2>1, <2>2, <2>3 DEF GivenBy
  <2>5. row.changes = Changes(CatalogAt(s), CatalogAt(row.of))'
    BY <1>1, <2>1, <2>2, <2>3
  <2> QED BY <2>1, <2>4, <2>5
<1>6. UnrecordedAgree'
  <2> SUFFICES ASSUME NEW s \in Requests, NEW u \in Requests,
                      ShownCatalog(s)', ShownCatalog(u)', at'[s] = at'[u],
                      call[s].agent = call[u].agent,
                      ~Recorded(s)', ~Recorded(u)', s \notin lost, u \notin lost
               PROVE  CatalogAt(s)' = CatalogAt(u)'
    BY DEF UnrecordedAgree, CatalogAt
  <2>1. s # r /\ u # r
    OBVIOUS
  <2>2. CatalogAt(s) = CatalogAt(u)
    BY <1>1, <2>1 DEF UnrecordedAgree, CatalogAt
  <2> QED BY <1>1, <2>1, <2>2
<1> QED BY <1>2, <1>3, <1>4, <1>5, <1>6

------------------------------------------------------------------------------
(* Observe, with a catalog to look at.  c is what it is compared with: its *)
(* own, when it is the first.                                              *)
LEMMA ObserveKeepsPinInv ==
    ASSUME PinInv, NEW r \in Requests, Observe(r), answer[r].tools # NoValue
    PROVE  PinInv'
<1> USE DEF PinInv, Shape
<1> DEFINE i == at[r]
           a == call[r].agent
           new == pins'[i][a]
<1>1. /\ pc[r] = "observe" /\ pc'[r] \in {"relayed", "append"}
      /\ \A s \in Requests \ {r} : pc'[s] = pc[s]
      /\ proc' = proc /\ rows' = rows /\ call' = call /\ at' = at
      /\ answer' = answer /\ lost' = lost
      /\ DOMAIN pc' = Requests
  BY DEF Observe, Goto
<1>2. i \in Instances /\ proc[i] = "up" /\ HasCatalog(r)
  BY <1>1 DEF HandlersLive, HandlerSteps, HasCatalog
<1>3. /\ DOMAIN pins' = Instances
      /\ a \in DOMAIN pins'[i]
      /\ \A j \in Instances : \A b \in DOMAIN pins'[j] :
             \/ b \in DOMAIN pins[j] /\ pins'[j][b] = pins[j][b]
             \/ j = i /\ b = a /\ pins'[j][b] = CatalogAt(r) /\ pc'[r] = "relayed"
      /\ \A j \in Instances : \A b \in DOMAIN pins[j] :
             b \in DOMAIN pins'[j] /\ pins'[j][b] = pins[j][b]
  <2>1. CASE a \notin DOMAIN pins[i]
    <3>1. /\ pins' = [pins EXCEPT ![i] = [b \in DOMAIN pins[i] \cup {a} |->
                         IF b = a THEN CatalogAt(r) ELSE pins[i][b]]]
          /\ pc' = [pc EXCEPT ![r] = "relayed"]
      BY <1>1, <2>1 DEF Observe, Goto, PinKey, CatalogAt
    <3>2. /\ \A j \in Instances : j # i => pins'[j] = pins[j]
          /\ pins'[i] = [b \in DOMAIN pins[i] \cup {a} |->
                            IF b = a THEN CatalogAt(r) ELSE pins[i][b]]
          /\ DOMAIN pins' = Instances /\ pc'[r] = "relayed"
      BY <1>2, <3>1
    <3> HIDE DEF i, a
    <3> QED BY <2>1, <3>2
  <2>2. CASE a \in DOMAIN pins[i]
    <3>1. pins' = pins
      BY <1>1, <2>2 DEF Observe, Goto, PinKey
    <3> QED BY <2>2, <3>1
  <2> QED BY <2>1, <2>2
<1>4. \/ pc'[r] = "relayed" /\ new = CatalogAt(r)
      \/ pc'[r] = "append" /\ Changes(new, CatalogAt(r)) # {}
  <2>1. CASE a \notin DOMAIN pins[i]
    BY <1>2, <1>3, <2>1
  <2>2. CASE a \in DOMAIN pins[i]
    <3>1. new = pins[i][a]
      BY <1>2, <1>3, <2>2
    <3>2. pc' = [pc EXCEPT ![r] = IF Changes(pins[i][a], CatalogAt(r)) = {}
                                  THEN "relayed" ELSE "append"]
      BY <1>1, <2>2 DEF Observe, Goto, PinKey, CatalogAt
    <3>3. PICK s \in Requests : pins[i][a] = CatalogAt(s)
      BY <1>2, <2>2 DEF PinsAreGiven
    <3>4. CASE Changes(pins[i][a], CatalogAt(r)) = {}
      <4>1. Changes(CatalogAt(s), CatalogAt(r)) = {}
        BY <3>3, <3>4
      <4>2. CatalogAt(s) = CatalogAt(r)
        BY <4>1, NoChangesMeansEqual DEF CatalogAt
      <4> QED BY <3>1, <3>2, <3>3, <3>4, <4>2
    <3>5. CASE Changes(pins[i][a], CatalogAt(r)) # {}
      BY <3>1, <3>2, <3>5
    <3> QED BY <3>4, <3>5
  <2> QED BY <2>1, <2>2
<1>5. \A s \in Requests :
          /\ HasCatalog(s)' = HasCatalog(s) /\ CatalogAt(s)' = CatalogAt(s)
          /\ Recorded(s)' = Recorded(s)
          /\ s # r => ShownCatalog(s)' = ShownCatalog(s)
  BY <1>1 DEF HasCatalog, CatalogAt, ShownCatalog, Recorded
<1>6. \A s \in Requests, j \in Instances : \A b :
          GivenBy(s, j, b) => GivenBy(s, j, b)'
  BY <1>1, <1>5 DEF GivenBy
<1> HIDE DEF new
<1>7. Shape'
  BY <1>1, <1>3
<1>8. HandlersLive'
  BY <1>1, <1>2 DEF HandlersLive, HandlerSteps, HasCatalog
<1>9. PinsAreGiven'
  <2> SUFFICES ASSUME NEW j \in Instances, NEW b \in DOMAIN pins'[j]
               PROVE  \E s \in Requests : GivenBy(s, j, b)' /\ pins'[j][b] = CatalogAt(s)'
    BY DEF PinsAreGiven
  <2>1. CASE b \in DOMAIN pins[j] /\ pins'[j][b] = pins[j][b]
    <3>1. PICK s \in Requests : GivenBy(s, j, b) /\ pins[j][b] = CatalogAt(s)
      BY <2>1 DEF PinsAreGiven
    <3> QED BY <1>5, <1>6, <2>1, <3>1
  <2>2. CASE j = i /\ b = a /\ pins'[j][b] = CatalogAt(r) /\ pc'[r] = "relayed"
    <3>1. GivenBy(r, j, b)'
      BY <1>1, <1>2, <1>5, <2>2 DEF GivenBy
    <3> QED BY <1>5, <2>2, <3>1
  <2> QED BY <1>3, <2>1, <2>2
<1>10. SilentIsPinned'
  <2> SUFFICES ASSUME NEW s \in Requests, Silent(s)', proc'[at'[s]] = "up"
               PROVE  /\ call[s].agent \in DOMAIN pins'[at[s]]
                      /\ pins'[at[s]][call[s].agent] = CatalogAt(s)
    BY <1>1, <1>5 DEF SilentIsPinned
  <2>1. CASE s = r
    <3>1. pc'[r] = "relayed"
      BY <2>1 DEF Silent, ShownCatalog
    <3> QED BY <1>3, <1>4, <2>1, <3>1 DEF new
  <2>2. CASE s # r
    <3>1. Silent(s) /\ proc[at[s]] = "up" /\ at[s] \in Instances
      BY <1>1, <1>5, <2>2 DEF Silent, ShownCatalog, HandlersLive
    <3>2. call[s].agent \in DOMAIN pins[at[s]] /\ pins[at[s]][call[s].agent] = CatalogAt(s)
      BY <3>1 DEF SilentIsPinned
    <3> QED BY <1>3, <3>1, <3>2
  <2> QED BY <2>1, <2>2
<1>11. DivergentIsPinned'
  <2> SUFFICES ASSUME NEW s \in Requests, pc'[s] = "append"
               PROVE  /\ call[s].agent \in DOMAIN pins'[at[s]]
                      /\ HasCatalog(s)
                      /\ Changes(pins'[at[s]][call[s].agent], CatalogAt(s)) # {}
    BY <1>1, <1>5 DEF DivergentIsPinned
  <2>1. CASE s = r
    BY <1>2, <1>3, <1>4, <2>1 DEF new
  <2>2. CASE s # r
    <3>1. pc[s] = "append" /\ at[s] \in Instances
      BY <1>1, <2>2 DEF HandlersLive, HandlerSteps
    <3>2. /\ call[s].agent \in DOMAIN pins[at[s]] /\ HasCatalog(s)
          /\ Changes(pins[at[s]][call[s].agent], CatalogAt(s)) # {}
      BY <3>1 DEF DivergentIsPinned
    <3> QED BY <1>3, <3>1, <3>2
  <2> QED BY <2>1, <2>2
<1>12. RowsAreGiven'
  <2> SUFFICES ASSUME NEW row \in rows
               PROVE  /\ row.of \in Requests
                      /\ pc'[row.of] \notin {"idle", "await", "observe", "append"}
                      /\ row.changes # {}
                      /\ \E s \in Requests \ {row.of} :
                             /\ GivenBy(s, at[row.of], call[row.of].agent)'
                             /\ row.changes = Changes(CatalogAt(s), CatalogAt(row.of))'
    BY <1>1 DEF RowsAreGiven
  <2>1. /\ row.of \in Requests /\ row.changes # {}
        /\ pc[row.of] \notin {"idle", "await", "observe", "append"}
    BY DEF RowsAreGiven
  <2>2. PICK s \in Requests \ {row.of} :
            /\ GivenBy(s, at[row.of], call[row.of].agent)
            /\ row.changes = Changes(CatalogAt(s), CatalogAt(row.of))
    BY DEF RowsAreGiven
  <2>3. GivenBy(s, at[row.of], call[row.of].agent)'
    BY <1>1, <1>5, <2>2 DEF GivenBy
  <2>4. row.changes = Changes(CatalogAt(s), CatalogAt(row.of))'
    BY <1>5, <2>1, <2>2
  <2>5. row.of # r
    BY <1>1, <2>1
  <2> QED BY <1>1, <2>1, <2>3, <2>4, <2>5
<1>13. UnrecordedAgree'
  <2>1. ASSUME NEW s \in Requests, Silent(s), at[s] = i, call[s].agent = a,
               Silent(r)'
        PROVE  CatalogAt(s) = CatalogAt(r)
    <3>1. pc'[r] = "relayed"
      BY <2>1 DEF Silent, ShownCatalog
    <3>2. a \in DOMAIN pins[i] /\ pins[i][a] = CatalogAt(s)
      BY <1>2, <2>1 DEF SilentIsPinned
    <3>3. new = pins[i][a]
      BY <1>2, <1>3, <3>2 DEF new
    <3> QED BY <1>4, <3>1, <3>2, <3>3
  <2> SUFFICES ASSUME NEW s \in Requests, NEW u \in Requests,
                      Silent(s)', Silent(u)', at[s] = at[u], call[s].agent = call[u].agent
               PROVE  CatalogAt(s) = CatalogAt(u)
    BY <1>1, <1>5 DEF UnrecordedAgree, CatalogAt, Silent
  <2>2. \A v \in Requests : v # r /\ Silent(v)' => Silent(v)
    BY <1>1, <1>5 DEF Silent
  <2>3. CASE s = r /\ u = r
    BY <2>3
  <2>4. CASE s = r /\ u # r
    BY <2>1, <2>2, <2>4
  <2>5. CASE s # r /\ u = r
    BY <2>1, <2>2, <2>5
  <2>6. CASE s # r /\ u # r
    BY <2>2, <2>6 DEF UnrecordedAgree, CatalogAt, Silent
  <2> QED BY <2>3, <2>4, <2>5, <2>6
<1> QED BY <1>7, <1>8, <1>9, <1>10, <1>11, <1>12, <1>13

(* The divergence is recorded, or lost; either way it is shown.            *)
LEMMA AppendKeepsPinInv ==
    ASSUME PinInv, NEW r \in Requests, AppendDivergence(r)
    PROVE  PinInv'
<1> USE DEF PinInv, Shape
<1> DEFINE lines == Changes(pins[at[r]][call[r].agent], CatalogAt(r))
           row0 == [agent |-> call[r].agent[2], of |-> r, changes |-> lines]
<1>1. /\ pc[r] = "append" /\ pc' = [pc EXCEPT ![r] = "relayed"]
      /\ proc' = proc /\ pins' = pins /\ call' = call /\ at' = at /\ answer' = answer
  BY DEF AppendDivergence, Goto
<1>2. \/ rows' = rows \cup {row0} /\ lost' = lost
      \/ rows' = rows /\ lost' = lost \cup {r}
  BY DEF AppendDivergence, PinKey, CatalogAt
<1>3. /\ at[r] \in Instances /\ proc[at[r]] = "up"
      /\ call[r].agent \in DOMAIN pins[at[r]] /\ HasCatalog(r) /\ lines # {}
  BY <1>1 DEF HandlersLive, HandlerSteps, DivergentIsPinned
<1>4. row0.of = r /\ row0.changes = lines
  OBVIOUS
<1> HIDE DEF lines, row0
<1>5. \A s \in Requests :
          /\ HasCatalog(s)' = HasCatalog(s) /\ CatalogAt(s)' = CatalogAt(s)
          /\ s # r => pc'[s] = pc[s] /\ ShownCatalog(s)' = ShownCatalog(s)
  BY <1>1 DEF HasCatalog, CatalogAt, ShownCatalog
<1>6. ~Silent(r)' /\ \A s \in Requests \ {r} : Silent(s)' => Silent(s)
  BY <1>2, <1>4, <1>5 DEF Silent, Recorded
<1>7. \A s \in Requests : \A j, b : GivenBy(s, j, b) => s # r /\ GivenBy(s, j, b)'
  BY <1>1, <1>5 DEF GivenBy
<1>8. Shape' /\ HandlersLive'
  BY <1>1, <1>3 DEF HandlersLive, HandlerSteps, HasCatalog
<1>9. PinsAreGiven'
  <2> SUFFICES ASSUME NEW j \in Instances, NEW b \in DOMAIN pins[j]
               PROVE  \E s \in Requests : GivenBy(s, j, b)' /\ pins[j][b] = CatalogAt(s)'
    BY <1>1 DEF PinsAreGiven
  <2>1. PICK s \in Requests : GivenBy(s, j, b) /\ pins[j][b] = CatalogAt(s)
    BY DEF PinsAreGiven
  <2> QED BY <1>5, <1>7, <2>1
<1>10. SilentIsPinned'
  <2> SUFFICES ASSUME NEW s \in Requests, Silent(s)', proc[at[s]] = "up"
               PROVE  /\ call[s].agent \in DOMAIN pins[at[s]]
                      /\ pins[at[s]][call[s].agent] = CatalogAt(s)
    BY <1>1, <1>5 DEF SilentIsPinned
  <2> QED BY <1>6 DEF SilentIsPinned
<1>11. DivergentIsPinned'
  BY <1>1, <1>5 DEF DivergentIsPinned
<1>12. RowsAreGiven'
  <2> SUFFICES ASSUME NEW row \in rows'
               PROVE  /\ row.of \in Requests
                      /\ pc'[row.of] \notin {"idle", "await", "observe", "append"}
                      /\ row.changes # {}
                      /\ \E s \in Requests \ {row.of} :
                             /\ GivenBy(s, at[row.of], call[row.of].agent)'
                             /\ row.changes = Changes(CatalogAt(s), CatalogAt(row.of))'
    BY <1>1 DEF RowsAreGiven
  <2>1. CASE row \in rows
    <3>1. /\ row.of \in Requests /\ row.changes # {}
          /\ pc[row.of] \notin {"idle", "await", "observe", "append"}
      BY <2>1 DEF RowsAreGiven
    <3>2. PICK s \in Requests \ {row.of} :
              /\ GivenBy(s, at[row.of], call[row.of].agent)
              /\ row.changes = Changes(CatalogAt(s), CatalogAt(row.of))
      BY <2>1 DEF RowsAreGiven
    <3>3. row.changes = Changes(CatalogAt(s), CatalogAt(row.of))'
      BY <1>5, <3>1, <3>2
    <3>4. row.of # r
      BY <1>1, <3>1
    <3>5. GivenBy(s, at[row.of], call[row.of].agent)'
      BY <1>1, <1>5, <1>7, <3>2 DEF GivenBy
    <3> QED BY <1>5, <3>1, <3>3, <3>4, <3>5
  <2>2. CASE row = row0
    <3>1. PICK s \in Requests : /\ GivenBy(s, at[r], call[r].agent)
                                /\ pins[at[r]][call[r].agent] = CatalogAt(s)
      BY <1>3 DEF PinsAreGiven
    <3>2. s # r /\ lines = Changes(CatalogAt(s), CatalogAt(r))
      BY <1>7, <3>1 DEF lines
    <3>3. row.changes = Changes(CatalogAt(s), CatalogAt(r))'
      BY <1>4, <1>5, <2>2, <3>2
    <3>4. GivenBy(s, at[r], call[r].agent)'
      BY <1>1, <1>5, <3>1, <3>2 DEF GivenBy
    <3>5. row.of = r /\ row.changes = lines
      BY <1>4, <2>2
    <3>6. pc'[r] = "relayed"
      BY <1>1
    <3>7. s \in Requests \ {row.of}
      BY <3>2, <3>5
    <3>8. \E v \in Requests \ {row.of} :
              /\ GivenBy(v, at[row.of], call[row.of].agent)'
              /\ row.changes = Changes(CatalogAt(v), CatalogAt(row.of))'
      BY <3>3, <3>4, <3>5, <3>7
    <3> QED BY <1>3, <3>5, <3>6, <3>8
  <2> QED BY <1>2, <2>1, <2>2
<1>13. UnrecordedAgree'
  <2> SUFFICES ASSUME NEW s \in Requests, NEW u \in Requests,
                      Silent(s)', Silent(u)', at[s] = at[u], call[s].agent = call[u].agent
               PROVE  CatalogAt(s) = CatalogAt(u)
    BY <1>1, <1>5 DEF UnrecordedAgree, CatalogAt, Silent
  <2> QED BY <1>6 DEF UnrecordedAgree, CatalogAt, Silent
<1> QED BY <1>8, <1>9, <1>10, <1>11, <1>12, <1>13

(* A process starts, or stops and takes its pins and handlers with it.     *)
LEMMA ProcessStepKeepsPinInv ==
    ASSUME PinInv, NEW i \in Instances, Start(i) \/ Crash(i)
    PROVE  PinInv'
<1> USE DEF PinInv, Shape
<1>1. /\ rows' = rows /\ call' = call /\ at' = at /\ answer' = answer /\ lost' = lost
      /\ DOMAIN pc' = Requests /\ DOMAIN pins' = Instances
      /\ proc' \in [Instances -> {"new", "up", "down"}]
  BY DEF Start, Crash
<1>2. \A j \in Instances :
          \/ j # i /\ proc'[j] = proc[j] /\ pins'[j] = pins[j]
          \/ j = i /\ proc[i] = "new" /\ proc'[i] = "up" /\ pins'[i] = pins[i]
          \/ j = i /\ proc'[i] = "down" /\ DOMAIN pins'[i] = {}
  BY DEF Start, Crash
<1>3. \A s \in Requests :
          \/ pc'[s] = pc[s] /\ (pc[s] \in HandlerSteps => at[s] # i)
          \/ pc'[s] = "dead" /\ pc[s] \in HandlerSteps
  <2>1. CASE Start(i)
    BY <2>1 DEF Start, HandlersLive
  <2>2. CASE Crash(i)
    BY <2>2 DEF Crash
  <2> QED BY <2>1, <2>2
<1>4. \A s \in Requests :
          /\ HasCatalog(s)' = HasCatalog(s) /\ CatalogAt(s)' = CatalogAt(s)
          /\ Silent(s)' => Silent(s)
          /\ Recorded(s)' = Recorded(s)
  BY <1>1, <1>3 DEF HasCatalog, CatalogAt, ShownCatalog, Recorded, Silent, HandlerSteps
<1>5. \A s \in Requests : \A j, b : GivenBy(s, j, b) => GivenBy(s, j, b)'
  BY <1>1, <1>3, <1>4 DEF GivenBy, HandlerSteps
<1>6. Shape'
  BY <1>1
<1>7. HandlersLive'
  BY <1>1, <1>2, <1>3 DEF HandlersLive, HandlerSteps
<1>8. PinsAreGiven'
  <2> SUFFICES ASSUME NEW j \in Instances, NEW b \in DOMAIN pins'[j]
               PROVE  \E s \in Requests : GivenBy(s, j, b)' /\ pins'[j][b] = CatalogAt(s)'
    BY DEF PinsAreGiven
  <2>1. pins'[j] = pins[j]
    BY <1>2
  <2>2. PICK s \in Requests : GivenBy(s, j, b) /\ pins[j][b] = CatalogAt(s)
    BY <2>1 DEF PinsAreGiven
  <2> QED BY <1>4, <1>5, <2>1, <2>2
<1>9. SilentIsPinned'
  <2> SUFFICES ASSUME NEW s \in Requests, Silent(s)', proc'[at[s]] = "up"
               PROVE  /\ call[s].agent \in DOMAIN pins'[at[s]]
                      /\ pins'[at[s]][call[s].agent] = CatalogAt(s)
    BY <1>1, <1>4 DEF SilentIsPinned
  <2>1. Silent(s) /\ at[s] \in Instances /\ proc[at[s]] # "new"
    BY <1>4 DEF Silent, ShownCatalog, HandlersLive
  <2>2. proc[at[s]] = "up" /\ pins'[at[s]] = pins[at[s]]
    BY <1>2, <2>1
  <2> QED BY <2>1, <2>2 DEF SilentIsPinned
<1>10. DivergentIsPinned'
  <2> SUFFICES ASSUME NEW s \in Requests, pc'[s] = "append"
               PROVE  /\ call[s].agent \in DOMAIN pins'[at[s]]
                      /\ HasCatalog(s)
                      /\ Changes(pins'[at[s]][call[s].agent], CatalogAt(s)) # {}
    BY <1>1, <1>4 DEF DivergentIsPinned
  <2>1. pc[s] = "append" /\ at[s] # i /\ at[s] \in Instances
    BY <1>3 DEF HandlersLive, HandlerSteps
  <2>2. pins'[at[s]] = pins[at[s]]
    BY <1>2, <2>1
  <2> QED BY <2>1, <2>2 DEF DivergentIsPinned
<1>11. RowsAreGiven'
  <2> SUFFICES ASSUME NEW row \in rows
               PROVE  /\ row.of \in Requests
                      /\ pc'[row.of] \notin {"idle", "await", "observe", "append"}
                      /\ row.changes # {}
                      /\ \E s \in Requests \ {row.of} :
                             /\ GivenBy(s, at[row.of], call[row.of].agent)'
                             /\ row.changes = Changes(CatalogAt(s), CatalogAt(row.of))'
    BY <1>1 DEF RowsAreGiven
  <2>1. /\ row.of \in Requests /\ row.changes # {}
        /\ pc[row.of] \notin {"idle", "await", "observe", "append"}
    BY DEF RowsAreGiven
  <2>2. PICK s \in Requests \ {row.of} :
            /\ GivenBy(s, at[row.of], call[row.of].agent)
            /\ row.changes = Changes(CatalogAt(s), CatalogAt(row.of))
    BY DEF RowsAreGiven
  <2>3. GivenBy(s, at[row.of], call[row.of].agent)'
    BY <1>1, <1>3, <1>4, <2>2 DEF GivenBy, HandlerSteps
  <2>4. row.changes = Changes(CatalogAt(s), CatalogAt(row.of))'
    BY <1>4, <2>1, <2>2
  <2>5. pc'[row.of] \notin {"idle", "await", "observe", "append"}
    BY <1>3, <2>1
  <2> QED BY <2>1, <2>3, <2>4, <2>5
<1>12. UnrecordedAgree'
  <2> SUFFICES ASSUME NEW s \in Requests, NEW u \in Requests,
                      Silent(s)', Silent(u)', at[s] = at[u], call[s].agent = call[u].agent
               PROVE  CatalogAt(s) = CatalogAt(u)
    BY <1>1, <1>4 DEF UnrecordedAgree, CatalogAt, Silent
  <2> QED BY <1>4 DEF UnrecordedAgree, CatalogAt, Silent
<1> QED BY <1>6, <1>7, <1>8, <1>9, <1>10, <1>11, <1>12

LEMMA NextKeepsPinInv == PinInv /\ [Next]_vars => PinInv'
<1> SUFFICES ASSUME PinInv, [Next]_vars PROVE PinInv'
  OBVIOUS
<1>1. ASSUME NEW r \in Requests, NEW step \in {"refused", "bad_gateway", "dead"},
             pc' = [pc EXCEPT ![r] = step],
             pc[r] \in {"idle", "await"} \/ (pc[r] = "append" /\ step = "dead"),
             proc' = proc, pins' = pins, rows' = rows, call' = call, lost' = lost,
             at' = at, answer' = answer
      PROVE  PinInv'
  <2>1. Shape' /\ HandlersLive'
    BY <1>1 DEF PinInv, Shape, HandlersLive, HandlerSteps
  <2>2. ~ShownCatalog(r)'
    BY <1>1 DEF ShownCatalog, PinInv, Shape
  <2> QED BY <1>1, <2>1, <2>2, QuietStepKeepsPinInv
<1>2. ASSUME NEW r \in Requests, Refuse(r) PROVE PinInv'
  <2>1. PICK step : step = "refused" /\ pc' = [pc EXCEPT ![r] = step]
    BY <1>2 DEF Refuse, Goto
  <2>2. /\ pc[r] = "idle"
        /\ proc' = proc /\ pins' = pins /\ rows' = rows /\ call' = call /\ lost' = lost
        /\ at' = at /\ answer' = answer
    BY <1>2 DEF Refuse
  <2> QED BY <1>1, <2>1, <2>2
<1>3. ASSUME NEW r \in Requests, UpstreamError(r) PROVE PinInv'
  <2>1. PICK step : step = "bad_gateway" /\ pc' = [pc EXCEPT ![r] = step]
    BY <1>3 DEF UpstreamError, Goto
  <2>2. /\ pc[r] = "await"
        /\ proc' = proc /\ pins' = pins /\ rows' = rows /\ call' = call /\ lost' = lost
        /\ at' = at /\ answer' = answer
    BY <1>3 DEF UpstreamError
  <2> QED BY <1>1, <2>1, <2>2
<1>4. ASSUME NEW r \in Requests, Disconnect(r) PROVE PinInv'
  <2>1. PICK step : step = "dead" /\ pc' = [pc EXCEPT ![r] = step]
    BY <1>4 DEF Disconnect, Goto
  <2>2. /\ pc[r] \in {"await", "append"}
        /\ proc' = proc /\ pins' = pins /\ rows' = rows /\ call' = call /\ lost' = lost
        /\ at' = at /\ answer' = answer
    BY <1>4 DEF Disconnect
  <2> QED BY <1>1, <2>1, <2>2
<1>5. ASSUME NEW r \in Requests, Arrive(r) PROVE PinInv'
  <2>1. PICK i \in Instances : proc[i] = "up" /\ at' = [at EXCEPT ![r] = i]
    BY <1>5 DEF Arrive
  <2>2. /\ pc[r] = "idle" /\ pc' = [pc EXCEPT ![r] = "await"]
        /\ proc' = proc /\ pins' = pins /\ rows' = rows /\ call' = call /\ lost' = lost
        /\ answer' = answer
    BY <1>5 DEF Arrive, Goto
  <2>3. Shape' /\ HandlersLive'
    BY <2>1, <2>2 DEF PinInv, Shape, HandlersLive, HandlerSteps
  <2>4. ~ShownCatalog(r)'
    BY <2>2 DEF ShownCatalog, PinInv, Shape
  <2>5. \A s \in Requests \ {r} : at'[s] = at[s] /\ answer'[s] = answer[s]
    BY <2>1, <2>2 DEF PinInv, Shape
  <2>6. PICK step \in {"await"} : pc' = [pc EXCEPT ![r] = step]
    BY <2>2
  <2> QED BY <2>2, <2>3, <2>4, <2>5, <2>6, QuietStepKeepsPinInv
<1>6. ASSUME NEW r \in Requests, Receive(r) PROVE PinInv'
  <2>1. /\ pc[r] = "await" /\ at' = at
        /\ proc' = proc /\ pins' = pins /\ rows' = rows /\ call' = call /\ lost' = lost
    BY <1>6 DEF Receive
  <2>2. PICK step \in {"observe", "relayed", "bad_gateway"} :
            /\ pc' = [pc EXCEPT ![r] = step]
            /\ step = "relayed" => call[r].method # "tools/list"
            /\ \/ \E a \in Answers : answer' = [answer EXCEPT ![r] = a]
               \/ step = "bad_gateway" /\ answer' = answer
    BY <1>6 DEF Receive, Goto
  <2>3. \A a \in Answers : a # NoValue
    BY ControlPlaneAssumption
  <2>4. /\ Shape'
        /\ \A s \in Requests \ {r} : at'[s] = at[s] /\ answer'[s] = answer[s]
        /\ step # "bad_gateway" => answer'[r] # NoValue
    BY <2>1, <2>2, <2>3 DEF PinInv, Shape
  <2>5. HandlersLive'
    <3> SUFFICES ASSUME NEW s \in Requests
                 PROVE  /\ pc'[s] \in HandlerSteps => at[s] \in Instances /\ proc[at[s]] = "up"
                        /\ pc'[s] \in {"observe", "append"} => answer'[s] # NoValue
                        /\ pc'[s] = "relayed" => at[s] \in Instances /\ answer'[s] # NoValue
                        /\ at[s] \in Instances => proc[at[s]] # "new"
      BY <2>1 DEF HandlersLive
    <3>1. CASE s = r
      BY <2>1, <2>2, <2>4, <3>1 DEF PinInv, Shape, HandlersLive, HandlerSteps
    <3>2. CASE s # r
      BY <2>2, <2>4, <3>2 DEF PinInv, Shape, HandlersLive
    <3> QED BY <3>1, <3>2
  <2>6. ~ShownCatalog(r)'
    BY <2>1, <2>2 DEF ShownCatalog, PinInv, Shape
  <2> QED BY <2>1, <2>2, <2>4, <2>5, <2>6, QuietStepKeepsPinInv
<1>7. ASSUME NEW r \in Requests, Observe(r) PROVE PinInv'
  <2>1. CASE answer[r].tools # NoValue
    BY <1>7, <2>1, ObserveKeepsPinInv
  <2>2. CASE answer[r].tools = NoValue
    <3>1. PICK step :
          /\ step = "relayed" /\ pc' = [pc EXCEPT ![r] = step]
          /\ pc[r] = "observe"
          /\ proc' = proc /\ pins' = pins /\ rows' = rows /\ call' = call /\ lost' = lost
          /\ at' = at /\ answer' = answer
      BY <1>7, <2>2 DEF Observe, Goto
    <3>2. Shape' /\ HandlersLive'
      BY <3>1 DEF PinInv, Shape, HandlersLive, HandlerSteps
    <3>3. ~ShownCatalog(r)'
      BY <2>2, <3>1 DEF ShownCatalog
    <3>4. /\ \A s \in Requests \ {r} : at'[s] = at[s] /\ answer'[s] = answer[s]
          /\ pc[r] \in {"idle", "await", "observe"} /\ step \notin {"append"}
      BY <3>1
    <3> QED BY <3>1, <3>2, <3>3, <3>4, QuietStepKeepsPinInv
  <2> QED BY <2>1, <2>2
<1>8. ASSUME NEW r \in Requests, AppendDivergence(r) PROVE PinInv'
  BY <1>8, AppendKeepsPinInv
<1>9. ASSUME NEW i \in Instances, Start(i) \/ Crash(i) PROVE PinInv'
  BY <1>9, ProcessStepKeepsPinInv
<1>10. CASE UNCHANGED vars
  BY <1>10 DEF vars, PinInv, Shape, HandlersLive, HandlerSteps, PinsAreGiven, GivenBy,
              HasCatalog, CatalogAt, SilentIsPinned, Silent, ShownCatalog, Recorded,
              DivergentIsPinned, RowsAreGiven, UnrecordedAgree
<1>11. ASSUME NEW r \in Requests, RequestStep(r) PROVE PinInv'
  BY <1>2, <1>3, <1>4, <1>5, <1>6, <1>7, <1>8, <1>11 DEF RequestStep
<1>12. CASE Next
  BY <1>9, <1>11, <1>12 DEF Next
<1> QED BY <1>10, <1>12

------------------------------------------------------------------------------
(* Pins, shown catalogs and rows belong together.                          *)
THEOREM PinInvariant == Spec => []PinInv
BY InitPinInv, NextKeepsPinInv, PTL DEF Spec

(* supply_chain.rs:7-9: of the catalogs that one process shows an agent,   *)
(* in whatever order its requests come back, those without a row agree.    *)
THEOREM DriftIsRecorded == Spec => []UnrecordedAgree
<1>1. PinInv => UnrecordedAgree
  BY DEF PinInv
<1> QED BY <1>1, PinInvariant, PTL

(* supply_chain.rs:103-105: a row tells a real difference between two      *)
(* catalogs of one agent and one process.                                  *)
THEOREM RowsAreNoFalseAlarms == Spec => []AlarmIsTrue
<1>1. PinInv => AlarmIsTrue
  <2> SUFFICES ASSUME PinInv, NEW row \in rows
               PROVE  \E s \in Requests \ {row.of} :
                          /\ at[s] = at[row.of] /\ call[s].agent = call[row.of].agent
                          /\ answer[s] # NoValue /\ answer[s].tools # NoValue
                          /\ row.changes = Changes(CatalogOf(answer[s].tools),
                                                   CatalogOf(answer[row.of].tools))
                          /\ row.changes # {}
    BY DEF AlarmIsTrue
  <2> QED BY DEF PinInv, RowsAreGiven, GivenBy, HasCatalog, CatalogAt
<1> QED BY <1>1, PinInvariant, PTL

===============================================================================
