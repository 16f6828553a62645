---------------------------- MODULE AssessmentProofs ---------------------------
(***************************************************************************)
(* The evaluation permit, the shared engine and the velocity breaker, for  *)
(* every set of agents, requests and calls, every window and limit, and    *)
(* evaluations that may panic.                                             *)
(*                                                                         *)
(* The engine's invariant relates where a handler stands to its blocking   *)
(* task, the tasks to the permit and the lock, the input of the engine to  *)
(* the task that holds the lock, and a verdict to the call it is about.    *)
(* The tracker's matches the hits of each deque with the requests behind   *)
(* them, and the breaker's says that the last call counted of a window has *)
(* counted the others.                                                     *)
(***************************************************************************)
EXTENDS Assessment, SequenceTheorems, FiniteSetTheorems, WellFoundedInduction, TLAPS

Running(r) == task[r] \in {"blocked", "evaluating"}

Shape ==
    /\ call \in [Requests -> Calls \cup {NoValue}]
    /\ pc \in [Requests -> {"idle", "queue", "await", "assessed", "dead"}]
    /\ DOMAIN count = Requests
    /\ task \in [Requests -> {"none", "blocked", "evaluating", "over"}]
    /\ DOMAIN verdict = Requests
    /\ permits \in {0, 1}
    /\ locked \in BOOLEAN

(* A request's task exists between its permit and the end of both.         *)
TaskFollowsHandler ==
    \A r \in Requests :
        /\ pc[r] \in {"idle", "queue"} => task[r] = "none"
        /\ pc[r] = "await" => Running(r)
        /\ pc[r] = "assessed" => task[r] = "over"

EngineIsTheTasks ==
    \A r \in Requests : task[r] = "evaluating" => locked /\ input = r

(* What a task that is over has told its handler.                          *)
Judged(r) ==
    \/ verdict[r] = Unavailable
    \/ \E businessHours \in BOOLEAN : verdict[r] = Evaluate(call[r], count[r], businessHours)

VerdictsAreJudged == \A r \in Requests : task[r] = "over" => Judged(r)

EngineInv ==
    /\ Shape
    /\ PermitFollowsTask
    /\ TaskFollowsHandler
    /\ EngineIsTheTasks
    /\ VerdictsAreJudged

------------------------------------------------------------------------------
LEMMA InitEngineInv == Init => EngineInv
BY DEF Init, EngineInv, Shape, PermitFollowsTask, TaskFollowsHandler, Running,
       EngineIsTheTasks, VerdictsAreJudged

(* The end of a task gives the permit back, and leaves a verdict.          *)
LEMMA OverKeepsEngineInv ==
    ASSUME EngineInv, NEW r \in Requests, NEW decision, Running(r), Over(r, decision),
           call' = call, count' = count,
           \/ decision = Unavailable
           \/ \E businessHours \in BOOLEAN :
                  decision = Evaluate(call[r], count[r], businessHours),
           locked' \in BOOLEAN
    PROVE  EngineInv'
<1>1. /\ task' = [task EXCEPT ![r] = "over"]
      /\ verdict' = [verdict EXCEPT ![r] = decision]
      /\ permits' = 1
      /\ pc' = [pc EXCEPT ![r] = IF pc[r] = "await" THEN "assessed" ELSE pc[r]]
  BY DEF Over
<1>2. Shape'
  BY <1>1 DEF EngineInv, Shape
<1>3. \A s \in Requests : ~Running(s)'
  <2>1. \A s \in Requests : Running(s) => s = r
    BY DEF EngineInv, PermitFollowsTask, Running
  <2> QED BY <1>1, <2>1 DEF EngineInv, Shape, Running
<1>4. PermitFollowsTask'
  BY <1>1, <1>3 DEF PermitFollowsTask, Running
<1>5. TaskFollowsHandler'
  <2> SUFFICES ASSUME NEW s \in Requests
               PROVE  /\ pc'[s] \in {"idle", "queue"} => task'[s] = "none"
                      /\ pc'[s] # "await"
                      /\ pc'[s] = "assessed" => task'[s] = "over"
    BY DEF TaskFollowsHandler
  <2>1. CASE s = r
    BY <1>1, <2>1 DEF EngineInv, Shape, TaskFollowsHandler, Running
  <2>2. CASE s # r
    <3>1. pc'[s] = pc[s] /\ task'[s] = task[s]
      BY <1>1, <2>2 DEF EngineInv, Shape
    <3> QED BY <1>3, <3>1 DEF EngineInv, TaskFollowsHandler, Running
  <2> QED BY <2>1, <2>2
<1>6. EngineIsTheTasks'
  BY <1>3 DEF EngineIsTheTasks, Running
<1>7. VerdictsAreJudged'
  <2> SUFFICES ASSUME NEW s \in Requests, task'[s] = "over" PROVE Judged(s)'
    BY DEF VerdictsAreJudged
  <2>1. CASE s = r
    BY <1>1, <2>1 DEF EngineInv, Shape, Judged
  <2>2. CASE s # r
    <3>1. verdict'[s] = verdict[s] /\ task'[s] = task[s]
      BY <1>1, <2>2 DEF EngineInv, Shape
    <3> QED BY <3>1 DEF EngineInv, VerdictsAreJudged, Judged
  <2> QED BY <2>1, <2>2
<1> QED BY <1>2, <1>4, <1>5, <1>6, <1>7 DEF EngineInv

LEMMA NextKeepsEngineInv == EngineInv /\ [Next]_vars => EngineInv'
<1> SUFFICES ASSUME EngineInv, [Next]_vars PROVE EngineInv'
  OBVIOUS
<1>1. ASSUME NEW r \in Requests, RecordAndCount(r) PROVE EngineInv'
  <2>1. /\ pc[r] = "idle"
        /\ pc' = [pc EXCEPT ![r] = "queue"]
        /\ permits' = permits /\ task' = task /\ input' = input
        /\ locked' = locked /\ verdict' = verdict
    BY <1>1 DEF RecordAndCount, engineVars
  <2>2. \E c \in Calls : \E n : call' = [call EXCEPT ![r] = c] /\ count' = [count EXCEPT ![r] = n]
    BY <1>1 DEF RecordAndCount
  <2>3. Shape'
    BY <2>1, <2>2 DEF EngineInv, Shape
  <2>4. PermitFollowsTask' /\ EngineIsTheTasks'
    BY <2>1 DEF EngineInv, PermitFollowsTask, EngineIsTheTasks
  <2>5. TaskFollowsHandler'
    BY <2>1 DEF EngineInv, Shape, TaskFollowsHandler, Running
  <2>6. VerdictsAreJudged'
    <3> SUFFICES ASSUME NEW s \in Requests, task'[s] = "over" PROVE Judged(s)'
      BY DEF VerdictsAreJudged
    <3>1. s # r
      BY <2>1 DEF EngineInv, TaskFollowsHandler
    <3>2. call'[s] = call[s] /\ count'[s] = count[s]
      BY <2>2, <3>1 DEF EngineInv, Shape
    <3> QED BY <2>1, <3>2 DEF EngineInv, VerdictsAreJudged, Judged
  <2> QED BY <2>3, <2>4, <2>5, <2>6 DEF EngineInv
<1>2. ASSUME NEW r \in Requests, Spawn(r) PROVE EngineInv'
  <2>1. /\ pc[r] = "queue" /\ pc' = [pc EXCEPT ![r] = "await"]
        /\ permits = 1 /\ permits' = 0
        /\ task' = [task EXCEPT ![r] = "blocked"]
        /\ call' = call /\ count' = count /\ input' = input
        /\ locked' = locked /\ verdict' = verdict
    BY <1>2 DEF Spawn
  <2>2. \A s \in Requests : ~Running(s)
    BY <2>1 DEF EngineInv, PermitFollowsTask, Running
  <2>3. \A s \in Requests : Running(s)' <=> s = r
    BY <2>1, <2>2 DEF EngineInv, Shape, Running
  <2>4. Shape'
    BY <2>1 DEF EngineInv, Shape
  <2>5. PermitFollowsTask'
    <3>1. permits' # 1 /\ task'[r] \in {"blocked", "evaluating"}
      BY <2>1, <2>3 DEF Running
    <3>2. ASSUME NEW s \in Requests, NEW u \in Requests,
                 task'[s] \in {"blocked", "evaluating"}, task'[u] \in {"blocked", "evaluating"}
          PROVE  s = u
      BY <2>3, <3>2 DEF Running
    <3> QED BY <3>1, <3>2 DEF PermitFollowsTask
  <2>6. TaskFollowsHandler'
    BY <2>1, <2>3 DEF EngineInv, Shape, TaskFollowsHandler, Running
  <2>7. EngineIsTheTasks'
    BY <2>1 DEF EngineInv, Shape, EngineIsTheTasks
  <2>8. VerdictsAreJudged'
    BY <2>1 DEF EngineInv, Shape, VerdictsAreJudged, Judged
  <2> QED BY <2>4, <2>5, <2>6, <2>7, <2>8 DEF EngineInv
<1>3. ASSUME NEW r \in Requests, SetInput(r) PROVE EngineInv'
  <2>1. CASE ~poisoned
    <3>1. /\ task[r] = "blocked" /\ ~locked /\ locked'
          /\ input' = r /\ task' = [task EXCEPT ![r] = "evaluating"]
          /\ permits' = permits /\ verdict' = verdict /\ pc' = pc
          /\ call' = call /\ count' = count
      BY <1>3, <2>1 DEF SetInput
    <3>2. \A s \in Requests : Running(s)' <=> Running(s)
      BY <3>1 DEF EngineInv, Shape, Running
    <3>3. Shape'
      <4>1. locked' = TRUE
        BY <1>3, <2>1 DEF SetInput
      <4> QED BY <3>1, <4>1 DEF EngineInv, Shape
    <3>4. PermitFollowsTask'
      BY <3>1, <3>2 DEF EngineInv, PermitFollowsTask, Running
    <3>5. TaskFollowsHandler'
      BY <3>1, <3>2 DEF EngineInv, Shape, TaskFollowsHandler, Running
    <3>6. EngineIsTheTasks'
      BY <3>1 DEF EngineInv, Shape, EngineIsTheTasks
    <3>7. VerdictsAreJudged'
      BY <3>1 DEF EngineInv, Shape, VerdictsAreJudged, Judged
    <3> QED BY <3>3, <3>4, <3>5, <3>6, <3>7 DEF EngineInv
  <2>2. CASE poisoned
    <3>1. Over(r, Unavailable) /\ locked' = locked /\ call' = call /\ count' = count
      BY <1>3, <2>2 DEF SetInput
    <3>2. Running(r)
      BY <1>3 DEF SetInput, Running
    <3>3. locked' \in BOOLEAN
      BY <3>1 DEF EngineInv, Shape
    <3> QED BY <3>1, <3>2, <3>3, OverKeepsEngineInv
  <2> QED BY <2>1, <2>2
<1>4. ASSUME NEW r \in Requests, FinishTask(r) PROVE EngineInv'
  <2>1. Running(r) /\ input = r
    BY <1>4 DEF FinishTask, EngineInv, EngineIsTheTasks, Running
  <2>2. call' = call /\ count' = count /\ locked' \in BOOLEAN
    BY <1>4 DEF FinishTask
  <2>3. PICK decision :
           /\ Over(r, decision)
           /\ \/ decision = Unavailable
              \/ \E businessHours \in BOOLEAN :
                     decision = Evaluate(call[r], count[r], businessHours)
    BY <1>4, <2>1 DEF FinishTask
  <2> QED BY <2>1, <2>2, <2>3, OverKeepsEngineInv
<1>5. ASSUME NEW r \in Requests, Disconnect(r) PROVE EngineInv'
  <2>1. /\ pc' = [pc EXCEPT ![r] = "dead"]
        /\ permits' = permits /\ task' = task /\ input' = input
        /\ locked' = locked /\ verdict' = verdict /\ call' = call /\ count' = count
    BY <1>5 DEF Disconnect, engineVars
  <2>2. Shape'
    BY <2>1 DEF EngineInv, Shape
  <2>3. TaskFollowsHandler'
    BY <2>1 DEF EngineInv, Shape, TaskFollowsHandler, Running
  <2>4. PermitFollowsTask' /\ EngineIsTheTasks'
    BY <2>1 DEF EngineInv, PermitFollowsTask, EngineIsTheTasks
  <2>5. VerdictsAreJudged'
    BY <2>1 DEF EngineInv, VerdictsAreJudged, Judged
  <2> QED BY <2>2, <2>3, <2>4, <2>5 DEF EngineInv
<1>6. ASSUME UNCHANGED <<call, handlerVars, engineVars>> PROVE EngineInv'
  <2>1. /\ call' = call /\ pc' = pc /\ count' = count
        /\ permits' = permits /\ task' = task /\ input' = input
        /\ locked' = locked /\ verdict' = verdict
    BY <1>6 DEF handlerVars, engineVars
  <2> QED BY <2>1 DEF EngineInv, Shape, PermitFollowsTask, TaskFollowsHandler, Running,
                      EngineIsTheTasks, VerdictsAreJudged, Judged
<1>7. CASE Tick
  BY <1>6, <1>7 DEF Tick
<1>8. CASE UNCHANGED vars
  BY <1>6, <1>8 DEF vars
<1> QED BY <1>1, <1>2, <1>3, <1>4, <1>5, <1>7, <1>8 DEF Next, RequestStep

------------------------------------------------------------------------------
(* The permit, the lock and the engine's input are where the tasks are.    *)
THEOREM EngineInvariant == Spec => []EngineInv
BY InitEngineInv, NextKeepsEngineInv, PTL DEF Spec

(* policy.rs:161-163: never two blocking tasks, and never a lost permit,   *)
(* whoever disconnects at an await and whatever evaluation panics.         *)
THEOREM PermitIsConserved == Spec => []PermitFollowsTask
<1>1. EngineInv => PermitFollowsTask
  BY DEF EngineInv
<1> QED BY <1>1, EngineInvariant, PTL

(* policy.rs:219-227: whoever is let through was judged on its own call    *)
(* and its own count, although all share one engine and its one input.     *)
THEOREM VerdictsAreOwn == Spec => []VerdictIsOwn
<1>1. EngineInv => VerdictIsOwn
  <2> SUFFICES ASSUME EngineInv, NEW r \in Requests, pc[r] = "assessed", Tier(r) # "Red"
               PROVE  \E businessHours \in BOOLEAN :
                          /\ Violations(call[r], count[r], businessHours) = {}
                          /\ verdict[r] = Evaluate(call[r], count[r], businessHours)
    BY DEF VerdictIsOwn
  <2>1. Judged(r)
    BY DEF EngineInv, TaskFollowsHandler, VerdictsAreJudged
  <2>2. verdict[r].allow
    BY DEF Tier
  <2>3. verdict[r] # Unavailable
    BY <2>2 DEF Unavailable
  <2>4. PICK businessHours \in BOOLEAN : verdict[r] = Evaluate(call[r], count[r], businessHours)
    BY <2>1, <2>3 DEF Judged
  <2>5. Violations(call[r], count[r], businessHours) = {}
    <3>1. verdict[r].allow = (Violations(call[r], count[r], businessHours) = {})
      BY <2>4 DEF Evaluate
    <3> QED BY <2>2, <3>1
  <2> QED BY <2>4, <2>5
<1> QED BY <1>1, EngineInvariant, PTL

------------------------------------------------------------------------------
(* The naturals are well-ordered: a sweep stops at the least fresh hit.    *)

Below == {ss \in Nat \X Nat : ss[1] < ss[2]}

LEMMA LeastNatural ==
    ASSUME NEW T \in SUBSET Nat, T # {}
    PROVE  \E x \in T : \A y \in T : x <= y
<1>1. IsWellFoundedOn(Below, Nat)
  BY NatLessThanWellFounded DEF OpToRel, Below
<1>2. PICK x \in T : \A y \in T : <<y, x>> \notin Below
  BY <1>1, WFMin, Zenon
<1>3. \A y \in T : x <= y
  <2> TAKE y \in T
  <2>1. x \in Nat /\ y \in Nat
    OBVIOUS
  <2>2. <<y, x>> \notin Below
    BY <1>2
  <2>3. y < x => <<y, x>> \in Below
    BY <2>1 DEF Below
  <2> QED BY <2>1, <2>2, <2>3
<1> QED BY <1>3

(* Times in the order of the clock.                                        *)
Ordered(times) == \A i, j \in 1 .. Len(times) : i <= j => times[i] <= times[j]

(* Popping the front of a deque in order leaves what is young enough.      *)
LEMMA PopLeavesTheYoung ==
    ASSUME NEW times \in Seq(Nat), Ordered(times), now \in Nat, NEW age \in Nat
    PROVE  \E k \in 0 .. Len(times) :
               /\ PopOlder(times, age) \in Seq(Nat)
               /\ Len(PopOlder(times, age)) = Len(times) - k
               /\ \A i \in 1 .. Len(times) - k : PopOlder(times, age)[i] = times[i + k]
               /\ \A i \in 1 .. k : now - times[i] > age
               /\ \A i \in k + 1 .. Len(times) : now - times[i] <= age
<1>0. Len(times) \in Nat /\ \A i \in 1 .. Len(times) : times[i] \in Nat
  BY LenProperties, ElementOfSeq
<1> DEFINE Stop(k) == /\ \A i \in 1 .. k : now - times[i] > age
                      /\ k < Len(times) => now - times[k + 1] <= age
           young == {k \in 0 .. Len(times) : k < Len(times) => now - times[k + 1] <= age}
<1>1. \E k \in 0 .. Len(times) : Stop(k)
  <2>1. Len(times) \in young /\ young \in SUBSET Nat
    BY <1>0
  <2>2. PICK k \in young : \A j \in young : k <= j
    BY <2>1, LeastNatural, Zenon
  <2>3. \A i \in 1 .. k : now - times[i] > age
    <3> TAKE i \in 1 .. k
    <3>1. i - 1 \in 0 .. Len(times) /\ i - 1 < k /\ i - 1 < Len(times) /\ k \in Nat
      BY <1>0, <2>1
    <3>2. i - 1 \notin young
      BY <2>2, <3>1
    <3>3. ~(now - times[(i - 1) + 1] <= age)
      BY <3>1, <3>2
    <3>4. (i - 1) + 1 = i /\ times[i] \in Nat
      BY <1>0, <3>1
    <3> QED BY <3>3, <3>4
  <2> QED BY <2>3
<1> DEFINE k == CHOOSE n \in 0 .. Len(times) : Stop(n)
<1>2. k \in 0 .. Len(times) /\ Stop(k)
  BY <1>1
<1>3. PopOlder(times, age) = SubSeq(times, k + 1, Len(times))
  BY DEF PopOlder
<1> HIDE DEF k
<1>4. \A i \in k + 1 .. Len(times) : now - times[i] <= age
  <2> TAKE i \in k + 1 .. Len(times)
  <2>1. k < Len(times) /\ k + 1 \in 1 .. Len(times) /\ i \in 1 .. Len(times) /\ k + 1 <= i
    BY <1>0, <1>2
  <2>2. now - times[k + 1] <= age
    BY <1>2, <2>1
  <2>3. times[k + 1] <= times[i]
    BY <2>1 DEF Ordered
  <2> QED BY <1>0, <2>1, <2>2, <2>3
<1>5. /\ PopOlder(times, age) \in Seq(Nat)
      /\ Len(PopOlder(times, age)) = Len(times) - k
      /\ \A i \in 1 .. Len(times) - k : PopOlder(times, age)[i] = times[i + k]
  <2>1. k + 1 \in Int /\ Len(times) \in Int /\ \A i \in k + 1 .. Len(times) : times[i] \in Nat
    BY <1>0, <1>2
  <2>2. /\ SubSeq(times, k + 1, Len(times)) \in Seq(Nat)
        /\ Len(SubSeq(times, k + 1, Len(times)))
             = IF k + 1 <= Len(times) THEN Len(times) - (k + 1) + 1 ELSE 0
        /\ \A i \in 1 .. Len(times) - (k + 1) + 1 :
               SubSeq(times, k + 1, Len(times))[i] = times[(k + 1) + i - 1]
    BY <2>1, SubSeqProperties
  <2>3. \A i \in 1 .. Len(times) - k : (k + 1) + i - 1 = i + k
    BY <1>0, <1>2
  <2>4. Len(times) - (k + 1) + 1 = Len(times) - k
    BY <1>0, <1>2
  <2>5. Len(SubSeq(times, k + 1, Len(times))) = Len(times) - k
    <3>1. CASE k + 1 <= Len(times)
      BY <2>2, <2>4, <3>1
    <3>2. CASE ~(k + 1 <= Len(times))
      <4>1. Len(times) - k = 0
        BY <1>0, <1>2, <3>2
      <4> QED BY <2>2, <3>2, <4>1
    <3> QED BY <3>1, <3>2
  <2>6. ASSUME NEW i \in 1 .. Len(times) - k
        PROVE  SubSeq(times, k + 1, Len(times))[i] = times[i + k]
    <3>1. SubSeq(times, k + 1, Len(times))[i] = times[(k + 1) + i - 1]
      BY <2>2, <2>4
    <3> QED BY <2>3, <3>1
  <2> QED BY <1>3, <2>2, <2>5, <2>6
<1> QED BY <1>2, <1>4, <1>5

------------------------------------------------------------------------------
(* The tracker.  The invariant matches each deque with the requests it     *)
(* counts, one by one: as many hits, each at its request's time, in order. *)

Deque(a) == IF a \in DOMAIN hits THEN hits[a] ELSE <<>>

Recent(a) == {r \in Requests : /\ hit[r] # NoValue
                               /\ call[r].agent = a
                               /\ swept - hit[r] <= Window}

(* f names the request behind each hit.                                    *)
Matches(times, f, S, h) ==
    /\ f \in [1 .. Len(times) -> S]
    /\ \A i, j \in 1 .. Len(times) : f[i] = f[j] => i = j
    /\ \A s \in S : \E i \in 1 .. Len(times) : f[i] = s
    /\ \A i \in 1 .. Len(times) : h[f[i]] = times[i]

Counts(times, S, h) ==
    /\ times \in Seq(Nat)
    /\ Ordered(times)
    /\ \E f : Matches(times, f, S, h)

TrackerShape ==
    /\ now \in Nat /\ swept \in Nat /\ swept <= now
    /\ hit \in [Requests -> Nat \cup {NoValue}]
    /\ count \in [Requests -> Nat]
    /\ DOMAIN call = Requests /\ DOMAIN pc = Requests
    /\ \A r \in Requests :
           /\ pc[r] = "idle" => hit[r] = NoValue
           /\ hit[r] # NoValue => call[r] \in Calls /\ hit[r] <= swept

DequesCount ==
    /\ DOMAIN hits \subseteq Agents
    /\ \A a \in Agents : Counts(Deque(a), Recent(a), hit)
    /\ \A a \in DOMAIN hits : hits[a] # <<>>

TrackerInv == TrackerShape /\ DequesCount

LEMMA InitTrackerInv == Init => TrackerInv
<1> SUFFICES ASSUME Init PROVE TrackerInv
  OBVIOUS
<1>1. TrackerShape
  BY DEF Init, TrackerShape
<1>2. DequesCount
  <2>1. DOMAIN hits = {}
    BY DEF Init
  <2>2. ASSUME NEW a \in Agents PROVE Counts(Deque(a), Recent(a), hit)
    <3>1. Deque(a) = <<>> /\ Recent(a) = {}
      BY <2>1 DEF Deque, Recent, Init
    <3>2. <<>> \in Seq(Nat) /\ Len(<<>>) = 0
      BY EmptySeq
    <3>3. Ordered(<<>>)
      BY <3>2 DEF Ordered
    <3>4. Matches(<<>>, [i \in 1 .. 0 |-> i], {}, hit)
      BY <3>2 DEF Matches
    <3> QED BY <3>1, <3>2, <3>3, <3>4 DEF Counts
  <2> QED BY <2>1, <2>2 DEF DequesCount
<1> QED BY <1>1, <1>2 DEF TrackerInv

(* A sweep leaves the hits, and the requests, of the window up to now.     *)
LEMMA SweepCounts ==
    ASSUME NEW times, NEW S \in SUBSET Requests, Counts(times, S, hit), now \in Nat
    PROVE  /\ Counts(Fresh(times), {s \in S : now - hit[s] <= Window}, hit)
           /\ \A i \in 1 .. Len(Fresh(times)) : \E j \in 1 .. Len(times) : Fresh(times)[i] = times[j]
<1>0. times \in Seq(Nat) /\ Ordered(times) /\ Len(times) \in Nat
      /\ \A i \in 1 .. Len(times) : times[i] \in Nat
  BY LenProperties, ElementOfSeq DEF Counts
<1>1. PICK f : Matches(times, f, S, hit)
  BY DEF Counts
<1>2. PICK k \in 0 .. Len(times) :
          /\ Fresh(times) \in Seq(Nat)
          /\ Len(Fresh(times)) = Len(times) - k
          /\ \A i \in 1 .. Len(times) - k : Fresh(times)[i] = times[i + k]
          /\ \A i \in 1 .. k : now - times[i] > Window
          /\ \A i \in k + 1 .. Len(times) : now - times[i] <= Window
  BY <1>0, PopLeavesTheYoung, AssessmentAssumption DEF Fresh
<1> DEFINE young == {s \in S : now - hit[s] <= Window}
           n == Len(Fresh(times))
           g == [i \in 1 .. n |-> f[i + k]]
<1>3. n \in Nat /\ \A i \in 1 .. n : i + k \in k + 1 .. Len(times) /\ i + k \in 1 .. Len(times)
  BY <1>0, <1>2
<1>4. \A i \in 1 .. n : Fresh(times)[i] = times[i + k]
  BY <1>2
<1>5. Ordered(Fresh(times))
  <2> SUFFICES ASSUME NEW i \in 1 .. n, NEW j \in 1 .. n, i <= j
               PROVE  Fresh(times)[i] <= Fresh(times)[j]
    BY DEF Ordered
  <2>1. times[i + k] <= times[j + k]
    BY <1>0, <1>3 DEF Ordered
  <2> QED BY <1>4, <2>1
<1>6. \A i \in 1 .. n : g[i] = f[i + k] /\ g[i] \in young
  <2> TAKE i \in 1 .. n
  <2>1. f[i + k] \in S /\ hit[f[i + k]] = times[i + k]
    BY <1>1, <1>3 DEF Matches
  <2>2. now - times[i + k] <= Window
    BY <1>2, <1>3
  <2> QED BY <2>1, <2>2
<1>7. Matches(Fresh(times), g, young, hit)
  <2>1. g \in [1 .. n -> young]
    BY <1>6
  <2>2. ASSUME NEW i \in 1 .. n, NEW j \in 1 .. n, g[i] = g[j] PROVE i = j
    <3>1. i + k = j + k
      BY <1>1, <1>3, <2>2 DEF Matches
    <3> QED BY <1>3, <3>1
  <2>3. ASSUME NEW s \in young PROVE \E i \in 1 .. n : g[i] = s
    <3>1. PICK j \in 1 .. Len(times) : f[j] = s
      BY <1>1 DEF Matches
    <3>2. now - times[j] <= Window
      BY <1>1, <3>1 DEF Matches
    <3>3. j \notin 1 .. k
      <4> SUFFICES ASSUME j \in 1 .. k PROVE FALSE
        OBVIOUS
      <4>1. now - times[j] > Window /\ times[j] \in Nat
        BY <1>0, <1>2
      <4> QED BY <3>2, <4>1, AssessmentAssumption
    <3>4. j - k \in 1 .. n /\ (j - k) + k = j
      BY <1>0, <1>2, <3>3
    <3> QED BY <1>6, <3>1, <3>4
  <2>4. \A i \in 1 .. n : hit[g[i]] = Fresh(times)[i]
    BY <1>1, <1>3, <1>4, <1>6 DEF Matches
  <2> HIDE DEF g, young
  <2> QED BY <2>1, <2>2, <2>3, <2>4 DEF Matches
<1> QED BY <1>2, <1>3, <1>4, <1>5, <1>7 DEF Counts

(* A hit at now, the latest of all, by a request that had none.            *)
LEMMA PushCounts ==
    ASSUME NEW times, NEW S \in SUBSET Requests, NEW r \in Requests, NEW h,
           Counts(times, S, hit), r \notin S, now \in Nat,
           \A i \in 1 .. Len(times) : times[i] <= now,
           h[r] = now, \A s \in S : h[s] = hit[s]
    PROVE  /\ Counts(Append(times, now), S \cup {r}, h)
           /\ Len(Append(times, now)) = Len(times) + 1
<1>0. times \in Seq(Nat) /\ Ordered(times) /\ Len(times) \in Nat
      /\ \A i \in 1 .. Len(times) : times[i] \in Nat
  BY LenProperties, ElementOfSeq DEF Counts
<1>1. PICK f : Matches(times, f, S, hit)
  BY DEF Counts
<1> DEFINE n == Len(times)
           new == Append(times, now)
           g == [i \in 1 .. n + 1 |-> IF i = n + 1 THEN r ELSE f[i]]
<1>2. new \in Seq(Nat) /\ Len(new) = n + 1
      /\ \A i \in 1 .. n : new[i] = times[i]
      /\ new[n + 1] = now
  BY <1>0
<1>3. Ordered(new)
  <2> SUFFICES ASSUME NEW i \in 1 .. n + 1, NEW j \in 1 .. n + 1, i <= j
               PROVE  new[i] <= new[j]
    BY <1>2 DEF Ordered
  <2>1. CASE j \in 1 .. n
    <3>1. i \in 1 .. n
      BY <1>0, <2>1
    <3> QED BY <1>0, <1>2, <2>1, <3>1 DEF Ordered
  <2>2. CASE j = n + 1 /\ i \in 1 .. n
    BY <1>2, <2>2
  <2>3. CASE j = n + 1 /\ i = n + 1
    BY <1>2, <2>3
  <2> QED BY <1>0, <2>1, <2>2, <2>3
<1>4. /\ \A i \in 1 .. n : i \in 1 .. n + 1 /\ i # n + 1 /\ g[i] = f[i] /\ f[i] \in S
      /\ n + 1 \in 1 .. n + 1 /\ g[n + 1] = r
      /\ \A i \in 1 .. n + 1 : i = n + 1 \/ i \in 1 .. n
  <2>1. n \in Nat /\ f \in [1 .. n -> S]
    BY <1>0, <1>1 DEF Matches
  <2> HIDE DEF n
  <2>2. /\ \A i \in 1 .. n : i \in 1 .. n + 1 /\ i # n + 1
        /\ n + 1 \in 1 .. n + 1
        /\ \A i \in 1 .. n + 1 : i = n + 1 \/ i \in 1 .. n
    BY <2>1
  <2>3. \A i \in 1 .. n : f[i] \in S
    BY <2>1
  <2>4. \A i \in 1 .. n + 1 : g[i] = IF i = n + 1 THEN r ELSE f[i]
    OBVIOUS
  <2> HIDE DEF g
  <2> QED BY <2>2, <2>3, <2>4
<1>5. Matches(new, g, S \cup {r}, h)
  <2>1. g \in [1 .. n + 1 -> S \cup {r}]
    BY <1>4
  <2> HIDE DEF g
  <2>2. ASSUME NEW i \in 1 .. n + 1, NEW j \in 1 .. n + 1, g[i] = g[j] PROVE i = j
    BY <1>1, <1>4, <2>2 DEF Matches
  <2>3. ASSUME NEW s \in S \cup {r} PROVE \E i \in 1 .. n + 1 : g[i] = s
    BY <1>1, <1>4 DEF Matches
  <2>4. \A i \in 1 .. n + 1 : h[g[i]] = new[i]
    BY <1>1, <1>2, <1>4 DEF Matches
  <2> QED BY <1>2, <2>1, <2>2, <2>3, <2>4 DEF Matches
<1> QED BY <1>2, <1>3, <1>5 DEF Counts

(* Counting the same requests at the same times is the same count.         *)
LEMMA SameCounts ==
    ASSUME NEW times, NEW S, NEW h, Counts(times, S, hit), \A s \in S : h[s] = hit[s]
    PROVE  Counts(times, S, h)
<1>1. PICK f : Matches(times, f, S, hit)
  BY DEF Counts
<1>2. Matches(times, f, S, h)
  BY <1>1 DEF Matches
<1> QED BY <1>2 DEF Counts

LEMMA CountIsCardinality ==
    ASSUME NEW times, NEW S, NEW h, Counts(times, S, h)
    PROVE  IsFiniteSet(S) /\ Cardinality(S) = Len(times) /\ Len(times) \in Nat
<1>1. PICK f : Matches(times, f, S, h)
  BY DEF Counts
<1>2. Len(times) \in Nat
  BY LenProperties DEF Counts
<1>3. f \in Bijection(1 .. Len(times), S)
  BY <1>1 DEF Matches, Bijection, Injection, Surjection, IsInjective
<1>4. ExistsBijection(1 .. Len(times), S)
  BY <1>3 DEF ExistsBijection
<1> QED BY <1>2, <1>4, FS_CountingElements, FS_NatBijection

(* record_and_count of r: its agent's deque is what a sweep leaves and the *)
(* new hit, any other deque what a sweep leaves, and count the length.     *)
LEMMA RecordKeepsTracker ==
    ASSUME TrackerInv, NEW r \in Requests, RecordAndCount(r)
    PROVE  /\ TrackerInv'
           /\ \E a \in Agents : /\ call'[r].agent = a
                                /\ count'[r] = Len(Deque(a)')
           /\ \A s \in Requests : s # r => call'[s] = call[s] /\ hit'[s] = hit[s] /\ count'[s] = count[s]
           /\ hit[r] = NoValue /\ hit'[r] = now /\ swept' = now
<1> USE DEF TrackerInv
<1>1. PICK c \in Calls :
          /\ call' = [call EXCEPT ![r] = c]
          /\ hits' = [b \in Kept(c.agent) \cup {c.agent} |->
                 IF b = c.agent THEN Append(IF c.agent \in Kept(c.agent)
                                            THEN Fresh(hits[c.agent]) ELSE <<>>, now)
                 ELSE Fresh(hits[b])]
          /\ count' = [count EXCEPT ![r] = Len(IF c.agent \in Kept(c.agent)
                                               THEN Fresh(hits[c.agent]) ELSE <<>>) + 1]
  BY DEF RecordAndCount
<1> DEFINE a == c.agent
           Swept(b) == {s \in Recent(b) : now - hit[s] <= Window}
<1>2. /\ pc[r] = "idle" /\ pc' = [pc EXCEPT ![r] = "queue"]
      /\ swept' = now /\ now' = now /\ hit' = [hit EXCEPT ![r] = now]
  BY DEF RecordAndCount
<1>3. a \in Agents /\ c \in Calls
  BY AssessmentAssumption DEF Call
<1>4. hit[r] = NoValue
  BY <1>2 DEF TrackerShape
<1>5. /\ hit'[r] = now /\ call'[r] = c
      /\ \A s \in Requests : s # r => call'[s] = call[s] /\ hit'[s] = hit[s] /\ count'[s] = count[s]
  BY <1>1, <1>2 DEF TrackerShape
<1>6. now # NoValue
  BY AssessmentAssumption DEF TrackerShape
<1>7. TrackerShape'
  <2>1. Len(IF a \in Kept(a) THEN Fresh(hits[a]) ELSE <<>>) + 1 \in Nat
    <3>1. CASE a \in Kept(a)
      <4>1. a \in DOMAIN hits /\ Counts(hits[a], Recent(a), hit)
        BY <1>3, <3>1 DEF Kept, DequesCount, Deque
      <4>2. Counts(Fresh(hits[a]), Swept(a), hit)
        BY <4>1, SweepCounts DEF Recent, TrackerShape
      <4> QED BY <3>1, <4>2, CountIsCardinality
    <3>2. CASE a \notin Kept(a)
      BY <3>2
    <3> QED BY <3>1, <3>2
  <2>2. count' \in [Requests -> Nat]
    BY <1>1, <2>1 DEF TrackerShape
  <2>3. ASSUME NEW s \in Requests
        PROVE  /\ pc'[s] = "idle" => hit'[s] = NoValue
               /\ hit'[s] # NoValue => call'[s] \in Calls /\ hit'[s] <= swept'
    <3>1. CASE s = r
      BY <1>2, <1>5, <3>1 DEF TrackerShape
    <3>2. CASE s # r
      <4>1. pc'[s] = pc[s]
        BY <1>2, <3>2 DEF TrackerShape
      <4>2. hit[s] # NoValue => hit[s] <= now
        BY DEF TrackerShape
      <4> QED BY <1>2, <1>5, <3>2, <4>1, <4>2 DEF TrackerShape
    <3> QED BY <3>1, <3>2
  <2> QED BY <1>1, <1>2, <2>2, <2>3 DEF TrackerShape
<1>8. /\ Recent(a)' = Swept(a) \cup {r} /\ r \notin Recent(a)
      /\ \A b \in Agents : b # a => Recent(b)' = Swept(b) /\ r \notin Recent(b)
  <2>1. now - now <= Window /\ now \in Nat /\ swept \in Nat /\ swept <= now /\ Window \in Nat
    BY AssessmentAssumption DEF TrackerShape
  <2>2. ASSUME NEW b \in Agents, NEW s \in Requests, s # r
        PROVE  s \in Recent(b)' <=> s \in Swept(b)
    <3>1. hit[s] # NoValue => hit[s] \in Nat
      BY DEF TrackerShape
    <3>2. hit[s] # NoValue /\ now - hit[s] <= Window => swept - hit[s] <= Window
      BY <2>1, <3>1
    <3> QED BY <1>2, <1>5, <2>2, <3>2 DEF Recent
  <2>3. \A b \in Agents : r \notin Recent(b) /\ (r \in Recent(b)' <=> b = a)
    BY <1>2, <1>4, <1>5, <1>6, <2>1 DEF Recent
  <2> QED BY <1>3, <2>2, <2>3 DEF Recent
<1>9. \A b \in Agents :
          /\ Counts(Fresh(Deque(b)), Swept(b), hit)
          /\ \A i \in 1 .. Len(Fresh(Deque(b))) : Fresh(Deque(b))[i] <= now
  <2> TAKE b \in Agents
  <2>1. Counts(Deque(b), Recent(b), hit) /\ Recent(b) \in SUBSET Requests /\ now \in Nat
    BY DEF DequesCount, Recent, TrackerShape
  <2>2. /\ Counts(Fresh(Deque(b)), Swept(b), hit)
        /\ \A i \in 1 .. Len(Fresh(Deque(b))) :
               \E j \in 1 .. Len(Deque(b)) : Fresh(Deque(b))[i] = Deque(b)[j]
    BY <2>1, SweepCounts
  <2>3. \A j \in 1 .. Len(Deque(b)) : Deque(b)[j] <= now
    <3>1. PICK f : Matches(Deque(b), f, Recent(b), hit)
      BY <2>1 DEF Counts
    <3> TAKE j \in 1 .. Len(Deque(b))
    <3>2. f[j] \in Recent(b) /\ hit[f[j]] = Deque(b)[j]
      BY <3>1 DEF Matches
    <3>3. hit[f[j]] \in Nat /\ hit[f[j]] <= swept /\ swept <= now /\ swept \in Nat
      BY <3>2 DEF Recent, TrackerShape
    <3> QED BY <2>1, <3>2, <3>3
  <2> QED BY <2>2, <2>3
<1>10. Fresh(<<>>) = <<>>
  <2>1. <<>> \in Seq(Nat) /\ Len(<<>>) = 0 /\ now \in Nat
    BY EmptySeq DEF TrackerShape
  <2>2. Ordered(<<>>)
    BY <2>1 DEF Ordered
  <2>3. \E k \in 0 .. Len(<<>>) : /\ PopOlder(<<>>, Window) \in Seq(Nat)
                                   /\ Len(PopOlder(<<>>, Window)) = Len(<<>>) - k
    <3>1. Window \in Nat
      BY AssessmentAssumption
    <3> QED BY <2>1, <2>2, <3>1, PopLeavesTheYoung
  <2>4. PopOlder(<<>>, Window) \in Seq(Nat) /\ Len(PopOlder(<<>>, Window)) = 0
    BY <2>1, <2>3
  <2> QED BY <2>4, EmptySeq DEF Fresh
<1>11. Deque(a)' = Append(Fresh(Deque(a)), now)
  BY <1>1, <1>10 DEF Deque, Kept
<1>12. \A b \in Agents : b # a => Deque(b)' = Fresh(Deque(b))
  BY <1>1, <1>10 DEF Deque, Kept
<1>13. /\ Counts(Deque(a)', Recent(a)', hit')
       /\ Len(Deque(a)') = Len(Fresh(Deque(a))) + 1
  <2>1. Swept(a) \in SUBSET Requests /\ r \notin Swept(a) /\ now \in Nat
    BY <1>3, <1>8 DEF Recent, TrackerShape
  <2>2. \A s \in Swept(a) : hit'[s] = hit[s]
    BY <1>5, <2>1
  <2>3. /\ Counts(Fresh(Deque(a)), Swept(a), hit)
        /\ \A i \in 1 .. Len(Fresh(Deque(a))) : Fresh(Deque(a))[i] <= now
    BY <1>3, <1>9
  <2>4. hit'[r] = now
    BY <1>5
  <2> HIDE DEF Swept
  <2>5. /\ Counts(Append(Fresh(Deque(a)), now), Swept(a) \cup {r}, hit')
        /\ Len(Append(Fresh(Deque(a)), now)) = Len(Fresh(Deque(a))) + 1
    BY <2>1, <2>2, <2>3, <2>4, PushCounts
  <2> QED BY <1>8, <1>11, <2>5
<1>14. \A b \in Agents : b # a => Counts(Deque(b)', Recent(b)', hit')
  <2> SUFFICES ASSUME NEW b \in Agents, b # a PROVE Counts(Deque(b)', Recent(b)', hit')
    OBVIOUS
  <2>1. \A s \in Swept(b) : hit'[s] = hit[s]
    BY <1>5, <1>8 DEF Recent
  <2> QED BY <1>8, <1>9, <1>12, <2>1, SameCounts
<1>15. DequesCount'
  <2>1. DOMAIN hits' \subseteq Agents
    BY <1>1, <1>3 DEF Kept, DequesCount
  <2>2. \A b \in DOMAIN hits' : hits'[b] # <<>>
    <3>1. hits'[a] # <<>>
      <4>1. hits'[a] = Deque(a)'
        BY <1>1 DEF Deque
      <4>2. Len(Deque(a)') # 0
        BY <1>3, <1>9, <1>13, CountIsCardinality
      <4> QED BY <4>1, <4>2, EmptySeq
    <3> QED BY <1>1, <3>1 DEF Kept
  <2>3. \A b \in Agents : Counts(Deque(b), Recent(b), hit)'
    BY <1>13, <1>14
  <2> QED BY <2>1, <2>2, <2>3 DEF DequesCount
<1>16. count'[r] = Len(Deque(a)')
  <2>1. count'[r] = Len(Fresh(Deque(a))) + 1
    BY <1>1, <1>10 DEF Deque, Kept, TrackerShape
  <2> QED BY <1>13, <2>1
<1> QED BY <1>2, <1>3, <1>4, <1>5, <1>7, <1>15, <1>16

(* Every other step leaves the tracker, and what the requests carry.       *)
TrackerRests ==
    /\ hits' = hits /\ swept' = swept /\ call' = call /\ hit' = hit /\ count' = count
    /\ now' \in {now, now + 1}
    /\ DOMAIN pc' = DOMAIN pc
    /\ \A r \in Requests : pc'[r] = "idle" => pc[r] = "idle"

LEMMA OthersRest ==
    ASSUME TrackerInv, [Next]_vars
    PROVE  (\E r \in Requests : RecordAndCount(r)) \/ TrackerRests
<1>1. DOMAIN pc = Requests
  BY DEF TrackerInv, TrackerShape
<1>2. ASSUME NEW r \in Requests, Spawn(r) PROVE TrackerRests
  BY <1>1, <1>2 DEF Spawn, TrackerRests
<1>3. ASSUME NEW r \in Requests, SetInput(r) PROVE TrackerRests
  BY <1>1, <1>3 DEF SetInput, Over, TrackerRests
<1>4. ASSUME NEW r \in Requests, FinishTask(r) PROVE TrackerRests
  BY <1>1, <1>4 DEF FinishTask, Over, TrackerRests
<1>5. ASSUME NEW r \in Requests, Disconnect(r) PROVE TrackerRests
  BY <1>1, <1>5 DEF Disconnect, TrackerRests
<1>6. CASE Tick
  BY <1>1, <1>6 DEF Tick, handlerVars, TrackerRests
<1>7. CASE UNCHANGED vars
  BY <1>1, <1>7 DEF vars, handlerVars, TrackerRests
<1> QED BY <1>2, <1>3, <1>4, <1>5, <1>6, <1>7 DEF Next, RequestStep

LEMMA NextKeepsTrackerInv == TrackerInv /\ [Next]_vars => TrackerInv'
<1> SUFFICES ASSUME TrackerInv, [Next]_vars PROVE TrackerInv'
  OBVIOUS
<1>1. CASE \E r \in Requests : RecordAndCount(r)
  BY <1>1, RecordKeepsTracker
<1>2. CASE TrackerRests
  <2>1. TrackerShape'
    BY <1>2 DEF TrackerInv, TrackerShape, TrackerRests
  <2>2. DequesCount'
    BY <1>2 DEF TrackerInv, DequesCount, TrackerRests, Deque, Recent
  <2> QED BY <2>1, <2>2 DEF TrackerInv
<1> QED BY <1>1, <1>2, OthersRest

(* policy.rs:88-92: the map holds the agents of the window up to the last  *)
(* sweep and no other, each with exactly its hits of that window.          *)
THEOREM MapFollowsTheWindow == Spec => []TrackerIsTheWindow
<1>1. TrackerInv => TrackerIsTheWindow
  <2> SUFFICES ASSUME TrackerInv, NEW a \in Agents
               PROVE  /\ a \in DOMAIN hits <=> Recent(a) # {}
                      /\ a \in DOMAIN hits => Len(hits[a]) = Cardinality(Recent(a))
    BY DEF TrackerIsTheWindow, Recent
  <2>1. IsFiniteSet(Recent(a)) /\ Cardinality(Recent(a)) = Len(Deque(a))
    BY CountIsCardinality DEF TrackerInv, DequesCount
  <2>2. CASE a \in DOMAIN hits
    <3>1. Deque(a) = hits[a] /\ hits[a] # <<>> /\ Deque(a) \in Seq(Nat)
      BY <2>2 DEF Deque, TrackerInv, DequesCount, Counts
    <3>2. Len(Deque(a)) # 0
      BY <3>1, EmptySeq
    <3> QED BY <2>1, <2>2, <3>1, <3>2, FS_EmptySet
  <2>3. CASE a \notin DOMAIN hits
    <3>1. Len(Deque(a)) = 0
      BY <2>3, EmptySeq DEF Deque
    <3> QED BY <2>1, <2>3, <3>1, FS_EmptySet
  <2> QED BY <2>2, <2>3
<1> QED BY <1>1, InitTrackerInv, NextKeepsTrackerInv, PTL DEF Spec

------------------------------------------------------------------------------
(* The breaker.  Of any calls of one agent within one window, the one that *)
(* was counted last counted all the others.                                *)

Heard == {r \in Requests : hit[r] # NoValue}

Within(S, a, t) ==
    \A r \in S : hit[r] # NoValue /\ call[r].agent = a /\ hit[r] \in t .. t + Window

LastCountsAll ==
    /\ IsFiniteSet(Heard)
    /\ \A S \in SUBSET Requests, a \in Agents, t \in Nat :
           S # {} /\ Within(S, a, t) => \E r \in S : count[r] >= Cardinality(S)

LEMMA InitLastCountsAll == Init => LastCountsAll
<1> SUFFICES ASSUME Init PROVE LastCountsAll
  OBVIOUS
<1>1. \A r \in Requests : hit[r] = NoValue
  BY DEF Init
<1>2. Heard = {}
  BY <1>1 DEF Heard
<1> QED BY <1>1, <1>2, FS_EmptySet DEF LastCountsAll, Within

LEMMA NextKeepsLastCountsAll ==
    TrackerInv /\ LastCountsAll /\ [Next]_vars => LastCountsAll'
<1> SUFFICES ASSUME TrackerInv, LastCountsAll, [Next]_vars PROVE LastCountsAll'
  OBVIOUS
<1>1. CASE TrackerRests
  BY <1>1 DEF TrackerRests, LastCountsAll, Heard, Within
<1>2. ASSUME NEW r \in Requests, RecordAndCount(r) PROVE LastCountsAll'
  <2>1. /\ TrackerInv'
        /\ \A s \in Requests : s # r => call'[s] = call[s] /\ hit'[s] = hit[s] /\ count'[s] = count[s]
        /\ hit[r] = NoValue /\ hit'[r] = now /\ swept' = now
    BY <1>2, RecordKeepsTracker
  <2>2. PICK b \in Agents : call'[r].agent = b /\ count'[r] = Len(Deque(b)')
    BY <1>2, RecordKeepsTracker
  <2>3. now # NoValue /\ now \in Nat /\ Window \in Nat
    BY AssessmentAssumption DEF TrackerInv, TrackerShape
  <2>4. IsFiniteSet(Heard')
    <3>1. Heard' = Heard \cup {r}
      BY <2>1, <2>3 DEF Heard
    <3> QED BY <3>1, FS_AddElement DEF LastCountsAll
  <2>5. ASSUME NEW S \in SUBSET Requests, NEW a \in Agents, NEW t \in Nat, S # {}, Within(S, a, t)'
        PROVE  \E s \in S : count'[s] >= Cardinality(S)
    <3>1. CASE r \notin S
      <4>1. Within(S, a, t)
        BY <2>1, <2>5, <3>1 DEF Within
      <4>2. PICK s \in S : count[s] >= Cardinality(S)
        BY <2>5, <4>1 DEF LastCountsAll
      <4> QED BY <2>1, <3>1, <4>2
    <3>2. CASE r \in S
      <4>1. a = b
        BY <2>2, <2>5, <3>2 DEF Within
      <4>2. S \subseteq Recent(b)'
        <5> SUFFICES ASSUME NEW s \in S PROVE s \in Recent(b)'
          OBVIOUS
        <5>1. hit'[s] # NoValue /\ call'[s].agent = b /\ hit'[s] \in t .. t + Window
          BY <2>5, <4>1 DEF Within
        <5>2. now \in t .. t + Window
          BY <2>1, <2>5, <3>2 DEF Within
        <5>3. now - hit'[s] <= Window
          BY <2>3, <5>1, <5>2
        <5> QED BY <2>1, <5>1, <5>3 DEF Recent
      <4>3. Counts(Deque(b)', Recent(b)', hit')
        BY <2>1, <2>2 DEF TrackerInv, DequesCount
      <4>4. /\ IsFiniteSet(Recent(b)') /\ Cardinality(Recent(b)') = Len(Deque(b)')
            /\ Len(Deque(b)') \in Nat
        BY <4>3, CountIsCardinality
      <4>5. IsFiniteSet(S) /\ Cardinality(S) <= Cardinality(Recent(b)')
        BY <4>2, <4>4, FS_Subset
      <4>6. Cardinality(S) \in Nat
        BY <4>5, FS_CardinalityType
      <4> QED BY <2>2, <3>2, <4>4, <4>5, <4>6
    <3> QED BY <3>1, <3>2
  <2> QED BY <2>4, <2>5 DEF LastCountsAll, Within
<1> QED BY <1>1, <1>2, OthersRest

(* governance.rego:62-69: in no window do more than Limit calls of an      *)
(* agent pass the breaker.                                                 *)
THEOREM BreakerIsSound == Spec => []BreakerHolds
<1>1. TrackerInv /\ LastCountsAll /\ EngineInv => BreakerHolds
  <2> SUFFICES ASSUME TrackerInv, LastCountsAll, EngineInv, NEW a \in Agents, NEW t \in 0 .. now
               PROVE  Cardinality({r \in Requests :
                          /\ hit[r] # NoValue /\ call[r].agent = a
                          /\ hit[r] \in t .. t + Window
                          /\ task[r] = "over" /\ verdict[r].allow}) <= Limit
    BY DEF BreakerHolds
  <2> DEFINE passed == {r \in Requests : /\ hit[r] # NoValue /\ call[r].agent = a
                                         /\ hit[r] \in t .. t + Window
                                         /\ task[r] = "over" /\ verdict[r].allow}
  <2>1. passed \in SUBSET Heard /\ IsFiniteSet(Heard)
    BY DEF Heard, LastCountsAll
  <2>2. IsFiniteSet(passed)
    BY <2>1, FS_Subset
  <2>3. Cardinality(passed) \in Nat
    BY <2>2, FS_CardinalityType
  <2>4. ASSUME NEW r \in passed PROVE count[r] \in Nat /\ count[r] <= Limit
    <3>1. Judged(r) /\ verdict[r].allow
      BY DEF EngineInv, VerdictsAreJudged
    <3>2. verdict[r] # Unavailable
      BY <3>1 DEF Unavailable
    <3>3. PICK businessHours \in BOOLEAN : verdict[r] = Evaluate(call[r], count[r], businessHours)
      BY <3>1, <3>2 DEF Judged
    <3>4. Violations(call[r], count[r], businessHours) = {}
      <4>1. verdict[r].allow = (Violations(call[r], count[r], businessHours) = {})
        BY <3>3 DEF Evaluate
      <4> QED BY <3>1, <4>1
    <3>5. ~(count[r] > Limit)
      BY <3>4 DEF Violations
    <3>6. count[r] \in Nat
      BY DEF TrackerInv, TrackerShape
    <3> QED BY <3>5, <3>6, AssessmentAssumption
  <2>5. passed # {} => \E r \in passed : count[r] >= Cardinality(passed)
    <3>1. passed \in SUBSET Requests /\ t \in Nat /\ Within(passed, a, t)
      BY DEF Within, TrackerInv, TrackerShape
    <3> HIDE DEF passed
    <3> QED BY <3>1 DEF LastCountsAll
  <2>6. Limit \in Nat
    BY AssessmentAssumption
  <2> HIDE DEF passed
  <2>7. Cardinality(passed) <= Limit
    <3>1. CASE passed = {}
      BY <2>6, <3>1, FS_EmptySet
    <3>2. CASE passed # {}
      BY <2>3, <2>4, <2>5, <2>6, <3>2
    <3> QED BY <3>1, <3>2
  <2> QED BY <2>7 DEF passed
<1>2. Spec => [](TrackerInv /\ LastCountsAll)
  BY InitTrackerInv, NextKeepsTrackerInv, InitLastCountsAll, NextKeepsLastCountsAll, PTL DEF Spec
<1> QED BY <1>1, <1>2, EngineInvariant, PTL

===============================================================================
