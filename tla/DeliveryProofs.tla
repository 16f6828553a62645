----------------------------- MODULE DeliveryProofs ----------------------------
(***************************************************************************)
(* Proofs about the outbound events, for any number of reviews, processes  *)
(* and permits, every allowlist and whatever names resolve to.             *)
(*                                                                         *)
(* The permits: an event is started at most once, because what a handler   *)
(* has still to do has not been started by anyone, and only processes that *)
(* are up have events under way.                                           *)
(*                                                                         *)
(* The walks: the target of a walk is in normal form, on the allowlist and *)
(* among the targets seen before it is asked, so that the tests of one hop *)
(* bound the whole walk.  The addresses: a public address is in no inward  *)
(* block, and a set of answers has a first one.                            *)
(***************************************************************************)
EXTENDS Delivery, SequenceTheorems, FiniteSetTheorems, WellFoundedInduction, TLAPS

Items == Kinds \cup {"audit"}

Plan(h) == IF h[2] = "parker" THEN {"slack", "park"} ELSE {"audit", "decide", "callback"}

(* A list without repetition, of members of S.                             *)
Agenda(list, S) ==
    /\ list \in Seq(Items)
    /\ \A n \in 1 .. Len(list) : list[n] \in S
    /\ \A m, n \in 1 .. Len(list) : list[m] = list[n] => m = n

PermitShape ==
    /\ proc \in [Instances -> {"new", "up", "down"}]
    /\ decision \in [Reviews -> {"absent", "undecided", "allow", "deny"}]
    /\ todo \in [Handlers -> Seq(Items)]
    /\ handlerAt \in [Handlers -> Instances \cup {NoValue}]
    /\ job \in [Jobs -> [state : {"none", "dropped", "running", "ended", "killed"},
                         at : Instances \cup {NoValue}]]
    /\ free \in [Instances -> 0 .. Permits]

PlansAreAhead ==
    \A h \in Handlers :
        /\ Agenda(todo[h], Plan(h))
        /\ todo[h] # <<>> => handlerAt[h] \in Instances /\ proc[handlerAt[h]] = "up"
        /\ \A n \in 1 .. Len(todo[h]) :
               todo[h][n] # "audit" => job[<<h[1], todo[h][n]>>].state = "none"

(* Who parks a review, and who decides it, has done nothing before.        *)
StagesInOrder ==
    \A r \in Reviews :
        /\ decision[r] = "absent" =>
               /\ todo[<<r, "parker">>] = <<>>
               /\ \A k \in Kinds : job[<<r, k>>].state = "none"
        /\ decision[r] \in {"absent", "undecided"} =>
               /\ todo[<<r, "decider">>] = <<>>
               /\ \A k \in {"decide", "callback"} : job[<<r, k>>].state = "none"

RunningAreUp ==
    \A j \in Jobs : job[j].state = "running" => job[j].at \in Instances /\ proc[job[j].at] = "up"

PermitsAreOut ==
    \A i \in Instances :
        /\ IsFiniteSet(Running(i))
        /\ proc[i] # "down" => free[i] + Cardinality(Running(i)) = Permits

PermitInv ==
    PermitShape /\ PlansAreAhead /\ StagesInOrder /\ RunningAreUp /\ PermitsAreOut

------------------------------------------------------------------------------
LEMMA KindsOfJobs ==
    /\ \A h \in Handlers : h[1] \in Reviews /\ h = <<h[1], h[2]>> /\ h[2] \in {"parker", "decider"}
    /\ \A r \in Reviews : <<r, "parker">> \in Handlers /\ <<r, "decider">> \in Handlers
    /\ \A r \in Reviews, k \in Kinds : <<r, k>> \in Jobs
    /\ \A j \in Jobs : j[1] \in Reviews /\ j[2] \in Kinds /\ j = <<j[1], j[2]>>
    /\ \A h \in Handlers : Plan(h) \subseteq Items
BY DEF Handlers, Jobs, Kinds, Plan, Items

LEMMA IfIsAgenda ==
    ASSUME NEW c, NEW item \in Items
    PROVE  /\ If(c, item) \in Seq(Items)
           /\ Len(If(c, item)) \in 0 .. 1
           /\ \A n \in 1 .. Len(If(c, item)) : If(c, item)[n] = item
BY DEF If

LEMMA ConcatIsAgenda ==
    ASSUME NEW s, NEW S, Agenda(s, S), NEW c, NEW item \in Items \ S
    PROVE  Agenda(s \o If(c, item), S \cup {item})
<1> DEFINE t == If(c, item)
<1>1. s \in Seq(Items) /\ t \in Seq(Items) /\ Len(s) \in Nat /\ Len(t) \in 0 .. 1
  BY IfIsAgenda, LenProperties DEF Agenda
<1>2. \A n \in 1 .. Len(t) : t[n] = item
  BY IfIsAgenda
<1> HIDE DEF t
<1>3. /\ s \o t \in Seq(Items)
      /\ Len(s \o t) = Len(s) + Len(t)
      /\ \A n \in 1 .. Len(s) + Len(t) : (s \o t)[n] = IF n <= Len(s) THEN s[n] ELSE t[n - Len(s)]
  BY <1>1, ConcatProperties
<1>4. \A n \in 1 .. Len(s \o t) : \/ n \in 1 .. Len(s) /\ (s \o t)[n] = s[n]
                                  \/ n = Len(s) + 1 /\ (s \o t)[n] = item
  <2> TAKE n \in 1 .. Len(s \o t)
  <2>1. CASE n <= Len(s)
    BY <1>1, <1>3, <2>1
  <2>2. CASE ~(n <= Len(s))
    <3>1. n = Len(s) + 1 /\ n - Len(s) \in 1 .. Len(t)
      BY <1>1, <1>3, <2>2
    <3> QED BY <1>2, <1>3, <2>2, <3>1
  <2> QED BY <2>1, <2>2
<1>5. \A n \in 1 .. Len(s \o t) : (s \o t)[n] \in S \cup {item}
  BY <1>4 DEF Agenda
<1>6. \A m, n \in 1 .. Len(s \o t) : (s \o t)[m] = (s \o t)[n] => m = n
  BY <1>4 DEF Agenda
<1>7. Agenda(s \o t, S \cup {item})
  BY <1>3, <1>5, <1>6 DEF Agenda
<1> QED BY <1>7 DEF t

LEMMA TailIsAgenda ==
    ASSUME NEW s, NEW S, Agenda(s, S), s # <<>>
    PROVE  /\ Head(s) \in S /\ Head(s) \in Items /\ Head(s) = s[1] /\ 1 \in 1 .. Len(s)
           /\ Agenda(Tail(s), S)
           /\ \A n \in 1 .. Len(Tail(s)) : /\ Tail(s)[n] # Head(s)
                                           /\ n + 1 \in 1 .. Len(s) /\ Tail(s)[n] = s[n + 1]
<1>1. s \in Seq(Items) /\ Len(s) \in Nat \ {0}
  BY EmptySeq DEF Agenda
<1>2. /\ Head(s) \in Items /\ Tail(s) \in Seq(Items)
      /\ Len(Tail(s)) = Len(s) - 1
      /\ \A n \in 1 .. Len(Tail(s)) : Tail(s)[n] = s[n + 1]
      /\ Head(s) = s[1]
  BY <1>1, HeadTailProperties
<1>3. 1 \in 1 .. Len(s) /\ \A n \in 1 .. Len(Tail(s)) : n + 1 \in 1 .. Len(s) /\ n + 1 # 1
  BY <1>1, <1>2
<1>4. \A n \in 1 .. Len(Tail(s)) : Tail(s)[n] # Head(s) /\ Tail(s)[n] \in S
  BY <1>2, <1>3 DEF Agenda
<1>5. \A m, n \in 1 .. Len(Tail(s)) : Tail(s)[m] = Tail(s)[n] => m = n
  <2> TAKE m \in 1 .. Len(Tail(s)), n \in 1 .. Len(Tail(s))
  <2>1. s[m + 1] = s[n + 1] => m + 1 = n + 1
    BY <1>3 DEF Agenda
  <2> QED BY <1>2, <2>1
<1>6. Agenda(Tail(s), S)
  BY <1>2, <1>4, <1>5 DEF Agenda
<1> QED BY <1>2, <1>3, <1>4, <1>6 DEF Agenda

LEMMA EmptyIsAgenda == ASSUME NEW S PROVE Agenda(<<>>, S) /\ Len(<<>>) = 0
BY EmptySeq DEF Agenda

------------------------------------------------------------------------------
(* What may happen to the events and their permits.                        *)

(* An event is started: one permit less, one event more under way.         *)
LEMMA LaunchKeepsPermits ==
    ASSUME PermitInv, NEW j \in Jobs, NEW i \in Instances, job[j].state = "none",
           proc[i] = "up", proc' = proc, free[i] > 0,
           free' = [free EXCEPT ![i] = free[i] - 1],
           job' = [job EXCEPT ![j] = [state |-> "running", at |-> i]]
    PROVE  PermitsAreOut' /\ RunningAreUp' /\ free' \in [Instances -> 0 .. Permits]
<1> USE DEF PermitInv
<1>1. \A k \in Jobs : k # j => job'[k] = job[k]
  BY DEF PermitShape
<1>2. job'[j].state = "running" /\ job'[j].at = i
  BY DEF PermitShape
<1>3. free' \in [Instances -> 0 .. Permits]
  BY DeliveryAssumption DEF PermitShape
<1>4. RunningAreUp'
  BY <1>1, <1>2 DEF RunningAreUp
<1>5. PermitsAreOut'
  <2> SUFFICES ASSUME NEW k \in Instances
               PROVE  /\ IsFiniteSet(Running(k)')
                      /\ proc'[k] # "down" => free'[k] + Cardinality(Running(k)') = Permits
    BY DEF PermitsAreOut
  <2>1. IsFiniteSet(Running(k)) /\ Cardinality(Running(k)) \in Nat
    BY FS_CardinalityType DEF PermitsAreOut
  <2>2. CASE k = i
    <3>1. Running(k)' = Running(k) \cup {j} /\ j \notin Running(k)
      BY <1>1, <1>2, <2>2 DEF Running
    <3>2. IsFiniteSet(Running(k)') /\ Cardinality(Running(k)') = Cardinality(Running(k)) + 1
      BY <2>1, <3>1, FS_AddElement
    <3>3. free'[k] = free[k] - 1 /\ free[k] \in Nat
      BY <2>2 DEF PermitShape
    <3> QED BY <2>1, <2>2, <3>2, <3>3, DeliveryAssumption DEF PermitsAreOut
  <2>3. CASE k # i
    <3>1. Running(k)' = Running(k)
      BY <1>1, <1>2, <2>3 DEF Running
    <3>2. free'[k] = free[k]
      BY <2>3 DEF PermitShape
    <3> QED BY <2>1, <3>1, <3>2 DEF PermitsAreOut
  <2> QED BY <2>2, <2>3
<1> QED BY <1>3, <1>4, <1>5

(* An event ends: its permit is back, and it never runs again.             *)
LEMMA OverKeepsPermits ==
    ASSUME PermitInv, NEW j \in Jobs, job[j].state = "running", Over(j),
           UNCHANGED <<proc, decision, todo, handlerAt>>
    PROVE  PermitInv'
<1> USE DEF PermitInv
<1> DEFINE i == job[j].at
<1>1. /\ job' = [job EXCEPT ![j].state = "ended"]
      /\ free' = [free EXCEPT ![i] = free[i] + 1]
  BY DEF Over
<1>2. /\ \A k \in Jobs : k # j => job'[k] = job[k]
      /\ job'[j].state = "ended"
      /\ job' \in [Jobs -> [state : {"none", "dropped", "running", "ended", "killed"},
                            at : Instances \cup {NoValue}]]
  BY <1>1 DEF PermitShape
<1>3. i \in Instances /\ proc[i] = "up"
  BY DEF RunningAreUp
<1>4. ASSUME NEW k \in Instances
      PROVE  /\ IsFiniteSet(Running(k)')
             /\ proc[k] # "down" => free'[k] + Cardinality(Running(k)') = Permits
             /\ free'[k] \in 0 .. Permits
  <2>1. IsFiniteSet(Running(k)) /\ Cardinality(Running(k)) \in Nat
    BY FS_CardinalityType DEF PermitsAreOut
  <2>2. CASE k = i
    <3>1. Running(k)' = Running(k) \ {j} /\ j \in Running(k)
      BY <1>2, <2>2 DEF Running
    <3>2. IsFiniteSet(Running(k)') /\ Cardinality(Running(k)') = Cardinality(Running(k)) - 1
      BY <2>1, <3>1, FS_RemoveElement
    <3>3. free'[k] = free[k] + 1 /\ free[k] \in Nat /\ Cardinality(Running(k)') \in Nat
      BY <1>1, <2>2, <3>2, FS_CardinalityType DEF PermitShape
    <3>4. free[k] + Cardinality(Running(k)) = Permits
      BY <1>3, <2>2 DEF PermitsAreOut
    <3> QED BY <2>1, <3>2, <3>3, <3>4, DeliveryAssumption
  <2>3. CASE k # i
    <3>1. Running(k)' = Running(k)
      BY <1>2, <2>3 DEF Running
    <3>2. free'[k] = free[k]
      BY <1>1, <2>3 DEF PermitShape
    <3> QED BY <2>1, <3>1, <3>2 DEF PermitsAreOut, PermitShape
  <2> QED BY <2>2, <2>3
<1>5. PermitsAreOut'
  BY <1>4 DEF PermitsAreOut
<1>6. PermitShape'
  BY <1>1, <1>2, <1>4 DEF PermitShape
<1>7. RunningAreUp'
  BY <1>2 DEF RunningAreUp
<1>8. \A k \in Jobs : job[k].state = "none" => job'[k].state = "none"
  BY <1>2
<1>9. PlansAreAhead'
  <2> SUFFICES ASSUME NEW h \in Handlers, NEW n \in 1 .. Len(todo[h]), todo[h][n] # "audit"
               PROVE  job'[<<h[1], todo[h][n]>>].state = "none"
    BY DEF PlansAreAhead
  <2>1. <<h[1], todo[h][n]>> \in Jobs
    <3>1. todo[h][n] \in Plan(h) /\ Plan(h) \subseteq Items
      BY KindsOfJobs DEF PlansAreAhead, Agenda
    <3>2. todo[h][n] \in Kinds
      BY <3>1 DEF Items
    <3> QED BY <3>2, KindsOfJobs
  <2> QED BY <1>8, <2>1 DEF PlansAreAhead
<1>10. StagesInOrder'
  BY <1>8, KindsOfJobs DEF StagesInOrder, Kinds
<1> QED BY <1>5, <1>6, <1>7, <1>9, <1>10

(* A handler plans its events, or finds out that it has none left.         *)
LEMMA PlanKeepsPermits ==
    ASSUME PermitInv, NEW h \in Handlers, NEW list,
           Agenda(list, Plan(h)),
           todo' = [todo EXCEPT ![h] = list],
           handlerAt' \in [Handlers -> Instances \cup {NoValue}],
           \A g \in Handlers : g # h => handlerAt'[g] = handlerAt[g],
           list # <<>> => handlerAt'[h] \in Instances /\ proc[handlerAt'[h]] = "up",
           \A n \in 1 .. Len(list) : list[n] # "audit" => job[<<h[1], list[n]>>].state = "none",
           UNCHANGED <<proc, free, job>>,
           decision' \in [Reviews -> {"absent", "undecided", "allow", "deny"}],
           StagesInOrder'
    PROVE  PermitInv'
<1> USE DEF PermitInv
<1>1. todo'[h] = list /\ \A g \in Handlers : g # h => todo'[g] = todo[g]
  BY DEF PermitShape
<1>2. PermitShape'
  BY DEF PermitShape, Agenda
<1>3. PlansAreAhead'
  <2> SUFFICES ASSUME NEW g \in Handlers
               PROVE  /\ Agenda(todo'[g], Plan(g))
                      /\ todo'[g] # <<>> => handlerAt'[g] \in Instances /\ proc[handlerAt'[g]] = "up"
                      /\ \A n \in 1 .. Len(todo'[g]) :
                             todo'[g][n] # "audit" => job[<<g[1], todo'[g][n]>>].state = "none"
    BY DEF PlansAreAhead
  <2>1. CASE g = h
    BY <1>1, <2>1
  <2>2. CASE g # h
    BY <1>1, <2>2 DEF PlansAreAhead
  <2> QED BY <2>1, <2>2
<1>4. RunningAreUp' /\ PermitsAreOut'
  BY DEF RunningAreUp, PermitsAreOut, Running
<1> QED BY <1>2, <1>3, <1>4

LEMMA InitPermitInv == Init => PermitInv
<1> SUFFICES ASSUME Init PROVE PermitInv
  OBVIOUS
<1>1. PermitShape
  BY EmptySeq, DeliveryAssumption DEF Init, PermitShape
<1>2. \A h \in Handlers : todo[h] = <<>>
  BY DEF Init
<1>3. \A j \in Jobs : job[j].state = "none"
  BY DEF Init
<1>4. PlansAreAhead
  BY <1>2, EmptyIsAgenda DEF PlansAreAhead
<1>5. StagesInOrder
  BY <1>2, <1>3, KindsOfJobs DEF StagesInOrder, Kinds
<1>6. RunningAreUp
  BY <1>3 DEF RunningAreUp
<1>7. \A i \in Instances : Running(i) = {} /\ free[i] = Permits
  BY <1>3 DEF Running, Init
<1>8. PermitsAreOut
  <2>1. ASSUME NEW i \in Instances
        PROVE  IsFiniteSet(Running(i)) /\ free[i] + Cardinality(Running(i)) = Permits
    <3>1. IsFiniteSet(Running(i)) /\ Cardinality(Running(i)) = 0
      BY <1>7, FS_EmptySet
    <3> QED BY <1>7, <3>1, DeliveryAssumption
  <2> QED BY <2>1 DEF PermitsAreOut
<1> QED BY <1>1, <1>4, <1>5, <1>6, <1>8 DEF PermitInv

LEMMA ParkKeepsPermits ==
    ASSUME PermitInv, NEW r \in Reviews, NEW i \in Instances, ParkAt(r, i)
    PROVE  PermitInv'
<1> USE DEF PermitInv
<1> DEFINE h == <<r, "parker">>
           all == If(Slack, "slack") \o If(Webhook, "park")
<1>1. /\ proc[i] = "up" /\ decision[r] = "absent"
      /\ decision' = [decision EXCEPT ![r] = "undecided"]
      /\ handlerAt' = [handlerAt EXCEPT ![h] = i]
      /\ UNCHANGED <<proc, free, job>>
  BY DEF ParkAt
<1>2. PICK alive \in BOOLEAN : todo' = [todo EXCEPT ![h] = IF alive THEN all ELSE <<>>]
  BY DEF ParkAt
<1> DEFINE list == IF alive THEN all ELSE <<>>
<1>3. h \in Handlers /\ Plan(h) = {"slack", "park"} /\ h[1] = r
  BY KindsOfJobs DEF Plan
<1>4. Agenda(list, Plan(h))
  <2>1. Agenda(<<>> \o If(Slack, "slack"), {} \cup {"slack"})
    BY EmptyIsAgenda, ConcatIsAgenda DEF Items, Kinds
  <2>2. <<>> \o If(Slack, "slack") = If(Slack, "slack")
    BY IfIsAgenda, ConcatEmptySeq DEF Items, Kinds
  <2>3. Agenda(If(Slack, "slack"), {"slack"})
    BY <2>1, <2>2
  <2>4. Agenda(all, {"slack"} \cup {"park"})
    BY <2>3, ConcatIsAgenda DEF Items, Kinds
  <2> HIDE DEF all
  <2>5. Agenda(all, Plan(h))
    BY <1>3, <2>4 DEF Agenda
  <2> QED BY <2>5, EmptyIsAgenda
<1> HIDE DEF all
<1>5. \A n \in 1 .. Len(list) : list[n] # "audit" => job[<<h[1], list[n]>>].state = "none"
  <2> TAKE n \in 1 .. Len(list)
  <2>1. list[n] \in Kinds
    BY <1>3, <1>4 DEF Agenda, Kinds
  <2> QED BY <1>1, <1>3, <2>1 DEF StagesInOrder
<1>6. /\ handlerAt' \in [Handlers -> Instances \cup {NoValue}]
      /\ \A g \in Handlers : g # h => handlerAt'[g] = handlerAt[g]
      /\ handlerAt'[h] = i
  BY <1>1, <1>3 DEF PermitShape
<1>7. decision' \in [Reviews -> {"absent", "undecided", "allow", "deny"}]
  BY <1>1 DEF PermitShape
<1>8. StagesInOrder'
  <2> SUFFICES ASSUME NEW s \in Reviews
               PROVE  /\ decision'[s] = "absent" =>
                             /\ todo'[<<s, "parker">>] = <<>>
                             /\ \A k \in Kinds : job[<<s, k>>].state = "none"
                      /\ decision'[s] \in {"absent", "undecided"} =>
                             /\ todo'[<<s, "decider">>] = <<>>
                             /\ \A k \in {"decide", "callback"} : job[<<s, k>>].state = "none"
    BY <1>1 DEF StagesInOrder
  <2>1. todo'[<<s, "decider">>] = todo[<<s, "decider">>]
    BY <1>2, KindsOfJobs DEF PermitShape
  <2>2. CASE s = r
    BY <1>1, <2>1, <2>2 DEF StagesInOrder, PermitShape, Kinds
  <2>3. CASE s # r
    <3>1. todo'[<<s, "parker">>] = todo[<<s, "parker">>] /\ decision'[s] = decision[s]
      BY <1>1, <1>2, <2>3, KindsOfJobs DEF PermitShape
    <3> QED BY <2>1, <3>1 DEF StagesInOrder
  <2> QED BY <2>2, <2>3
<1> HIDE DEF h, list
<1>9. todo' = [todo EXCEPT ![h] = list]
  BY <1>2 DEF h, list
<1> QED BY <1>1, <1>3, <1>4, <1>5, <1>6, <1>7, <1>8, <1>9, PlanKeepsPermits

LEMMA DecideKeepsPermits ==
    ASSUME PermitInv, NEW r \in Reviews, NEW i \in Instances, DecideAt(r, i)
    PROVE  PermitInv'
<1> USE DEF PermitInv
<1> DEFINE h == <<r, "decider">>
           some == <<"audit">> \o If(Webhook, "decide")
           list == some \o If(callback_url[r] # NoValue, "callback")
<1>1. /\ proc[i] = "up" /\ decision[r] = "undecided"
      /\ \E d \in {"allow", "deny"} : decision' = [decision EXCEPT ![r] = d]
      /\ handlerAt' = [handlerAt EXCEPT ![h] = i]
      /\ todo' = [todo EXCEPT ![h] = list]
      /\ UNCHANGED <<proc, free, job>>
  BY DEF DecideAt
<1>3. h \in Handlers /\ Plan(h) = {"audit", "decide", "callback"} /\ h[1] = r
  BY KindsOfJobs DEF Plan
<1>4. Agenda(list, Plan(h))
  <2>1. Agenda(<<"audit">>, {"audit"})
    BY DEF Agenda, Items
  <2>2. Agenda(some, {"audit"} \cup {"decide"})
    BY <2>1, ConcatIsAgenda DEF Items, Kinds
  <2> HIDE DEF some
  <2>3. Agenda(list, ({"audit"} \cup {"decide"}) \cup {"callback"})
    BY <2>2, ConcatIsAgenda DEF Items, Kinds
  <2> HIDE DEF list
  <2> QED BY <1>3, <2>3 DEF Agenda
<1> HIDE DEF list
<1>5. \A n \in 1 .. Len(list) : list[n] # "audit" => job[<<h[1], list[n]>>].state = "none"
  <2> TAKE n \in 1 .. Len(list)
  <2>1. list[n] \in {"audit", "decide", "callback"}
    BY <1>3, <1>4 DEF Agenda
  <2> QED BY <1>1, <1>3, <2>1 DEF StagesInOrder
<1>6. /\ handlerAt' \in [Handlers -> Instances \cup {NoValue}]
      /\ \A g \in Handlers : g # h => handlerAt'[g] = handlerAt[g]
      /\ handlerAt'[h] = i
  BY <1>1, <1>3 DEF PermitShape
<1>7. decision' \in [Reviews -> {"absent", "undecided", "allow", "deny"}]
  BY <1>1 DEF PermitShape
<1>8. StagesInOrder'
  <2> SUFFICES ASSUME NEW s \in Reviews
               PROVE  /\ decision'[s] = "absent" =>
                             /\ todo'[<<s, "parker">>] = <<>>
                             /\ \A k \in Kinds : job[<<s, k>>].state = "none"
                      /\ decision'[s] \in {"absent", "undecided"} =>
                             /\ todo'[<<s, "decider">>] = <<>>
                             /\ \A k \in {"decide", "callback"} : job[<<s, k>>].state = "none"
    BY <1>1 DEF StagesInOrder
  <2>1. CASE s = r
    BY <1>1, <2>1 DEF PermitShape
  <2>2. CASE s # r
    <3>1. /\ decision'[s] = decision[s]
          /\ todo'[<<s, "parker">>] = todo[<<s, "parker">>]
          /\ todo'[<<s, "decider">>] = todo[<<s, "decider">>]
      BY <1>1, <2>2, KindsOfJobs DEF PermitShape
    <3> QED BY <3>1 DEF StagesInOrder
  <2> QED BY <2>1, <2>2
<1> HIDE DEF h
<1> QED BY <1>1, <1>3, <1>4, <1>5, <1>6, <1>7, <1>8, PlanKeepsPermits

LEMMA AuditKeepsPermits ==
    ASSUME PermitInv, NEW h \in Handlers, AuditReturns(h)
    PROVE  PermitInv'
<1> USE DEF PermitInv
<1>1. /\ todo[h] # <<>>
      /\ UNCHANGED <<proc, decision, handlerAt, free, job>>
  BY DEF AuditReturns
<1>2. PICK gone \in BOOLEAN : todo' = [todo EXCEPT ![h] = IF gone THEN <<>> ELSE Tail(todo[h])]
  BY DEF AuditReturns
<1> DEFINE list == IF gone THEN <<>> ELSE Tail(todo[h])
<1>3. Agenda(todo[h], Plan(h))
  BY DEF PlansAreAhead
<1>4. Agenda(list, Plan(h))
  BY <1>1, <1>3, TailIsAgenda, EmptyIsAgenda
<1>5. \A n \in 1 .. Len(list) : list[n] # "audit" => job[<<h[1], list[n]>>].state = "none"
  BY <1>1, <1>3, TailIsAgenda, EmptyIsAgenda DEF PlansAreAhead
<1>6. StagesInOrder'
  <2>1. todo[h] # <<>> => \A s \in Reviews :
            /\ h = <<s, "parker">> => decision[s] # "absent"
            /\ h = <<s, "decider">> => decision[s] \notin {"absent", "undecided"}
    BY DEF StagesInOrder
  <2>2. \A g \in Handlers : g # h => todo'[g] = todo[g]
    BY <1>2 DEF PermitShape
  <2> QED BY <1>1, <2>1, <2>2, KindsOfJobs DEF StagesInOrder
<1> HIDE DEF list
<1>7. todo' = [todo EXCEPT ![h] = list]
  BY <1>2 DEF list
<1>8. handlerAt[h] \in Instances /\ proc[handlerAt[h]] = "up"
  BY <1>1 DEF PlansAreAhead
<1> QED BY <1>1, <1>4, <1>5, <1>6, <1>7, <1>8, PlanKeepsPermits DEF PermitShape

(* The event at the head of a handler's list has not been started.         *)
LEMMA NotifyKeepsPermits ==
    ASSUME PermitInv, NEW h \in Handlers, Notify(h)
    PROVE  PermitInv'
<1> USE DEF PermitInv
<1> DEFINE j == <<h[1], Head(todo[h])>>
           i == handlerAt[h]
<1>1. /\ todo[h] # <<>> /\ Head(todo[h]) # "audit"
      /\ todo' = [todo EXCEPT ![h] = Tail(todo[h])]
      /\ UNCHANGED <<proc, decision, handlerAt>>
  BY DEF Notify
<1>2. Agenda(todo[h], Plan(h)) /\ i \in Instances /\ proc[i] = "up"
  BY <1>1 DEF PlansAreAhead
<1>3. /\ Agenda(Tail(todo[h]), Plan(h))
      /\ \A n \in 1 .. Len(Tail(todo[h])) :
             /\ Tail(todo[h])[n] # Head(todo[h])
             /\ n + 1 \in 1 .. Len(todo[h]) /\ Tail(todo[h])[n] = todo[h][n + 1]
      /\ Head(todo[h]) \in Plan(h) /\ Head(todo[h]) \in Items
      /\ Head(todo[h]) = todo[h][1] /\ 1 \in 1 .. Len(todo[h])
  BY <1>1, <1>2, TailIsAgenda
<1>4. j \in Jobs /\ job[j].state = "none" /\ Head(todo[h]) \in Kinds
  <2>1. Head(todo[h]) \in Kinds
    BY <1>1, <1>3 DEF Items
  <2>2. todo[h][1] # "audit" => job[<<h[1], todo[h][1]>>].state = "none"
    BY <1>3 DEF PlansAreAhead
  <2> QED BY <1>1, <1>3, <2>1, <2>2, KindsOfJobs
<1>5. \/ /\ free[i] > 0
         /\ free' = [free EXCEPT ![i] = free[i] - 1]
         /\ job' = [job EXCEPT ![j] = [state |-> "running", at |-> i]]
      \/ /\ free' = free
         /\ job' = [job EXCEPT ![j] = [state |-> "dropped", at |-> i]]
  BY DEF Notify
<1>6. /\ job' \in [Jobs -> [state : {"none", "dropped", "running", "ended", "killed"},
                            at : Instances \cup {NoValue}]]
      /\ \A k \in Jobs : k # j => job'[k] = job[k]
  <2>1. PICK s \in {"running", "dropped"} : job' = [job EXCEPT ![j] = [state |-> s, at |-> i]]
    BY <1>5
  <2>2. [state |-> s, at |-> i] \in [state : {"none", "dropped", "running", "ended", "killed"},
                                     at : Instances \cup {NoValue}]
    BY <1>2
  <2> HIDE DEF j, i
  <2> QED BY <1>4, <2>1, <2>2 DEF PermitShape
<1>7. free' \in [Instances -> 0 .. Permits] /\ RunningAreUp' /\ PermitsAreOut'
  <2>1. CASE free[i] > 0 /\ free' = [free EXCEPT ![i] = free[i] - 1]
             /\ job' = [job EXCEPT ![j] = [state |-> "running", at |-> i]]
    BY <1>1, <1>2, <1>4, <2>1, LaunchKeepsPermits
  <2>2. CASE free' = free /\ job' = [job EXCEPT ![j] = [state |-> "dropped", at |-> i]]
    <3>1. job'[j].state = "dropped"
      BY <1>4, <2>2 DEF PermitShape
    <3>2. \A k \in Instances : Running(k)' = Running(k)
      BY <1>4, <1>6, <3>1 DEF Running
    <3>3. PermitsAreOut'
      BY <1>1, <2>2, <3>2 DEF PermitsAreOut
    <3> QED BY <1>1, <1>6, <2>2, <3>1, <3>3 DEF PermitShape, RunningAreUp
  <2> QED BY <1>5, <2>1, <2>2
<1>8. PermitShape'
  BY <1>1, <1>3, <1>6, <1>7 DEF PermitShape, Agenda
<1>9. \A g \in Handlers : g # h => todo'[g] = todo[g]
  BY <1>1 DEF PermitShape
<1>10. PlansAreAhead'
  <2> SUFFICES ASSUME NEW g \in Handlers
               PROVE  /\ Agenda(todo'[g], Plan(g))
                      /\ todo'[g] # <<>> => handlerAt[g] \in Instances /\ proc[handlerAt[g]] = "up"
                      /\ \A n \in 1 .. Len(todo'[g]) :
                             todo'[g][n] # "audit" => job'[<<g[1], todo'[g][n]>>].state = "none"
    BY <1>1 DEF PlansAreAhead
  <2>1. CASE g = h
    <3>1. todo'[g] = Tail(todo[h])
      BY <1>1, <2>1 DEF PermitShape
    <3>2. ASSUME NEW n \in 1 .. Len(Tail(todo[h])), Tail(todo[h])[n] # "audit"
          PROVE  job'[<<h[1], Tail(todo[h])[n]>>].state = "none"
      <4>1. <<h[1], Tail(todo[h])[n]>> # j
        BY <1>3
      <4>2. Tail(todo[h])[n] \in Kinds
        BY <1>3, <3>2 DEF Agenda, Items
      <4>3. <<h[1], Tail(todo[h])[n]>> \in Jobs
        BY <4>2, KindsOfJobs
      <4>4. job[<<h[1], Tail(todo[h])[n]>>].state = "none"
        <5> DEFINE m == n + 1
        <5>1. m \in 1 .. Len(todo[h]) /\ todo[h][m] = Tail(todo[h])[n]
          BY <1>3
        <5> HIDE DEF m
        <5>2. todo[h][m] # "audit" => job[<<h[1], todo[h][m]>>].state = "none"
          BY <5>1 DEF PlansAreAhead
        <5> QED BY <3>2, <5>1, <5>2
      <4> QED BY <1>6, <4>1, <4>3, <4>4
    <3> QED BY <1>2, <1>3, <2>1, <3>1, <3>2
  <2>2. CASE g # h
    <3>1. ASSUME NEW n \in 1 .. Len(todo[g]), todo[g][n] # "audit"
          PROVE  job'[<<g[1], todo[g][n]>>].state = "none"
      <4>1. todo[g][n] \in Plan(g) /\ todo[g][n] \in Kinds
        BY <3>1, KindsOfJobs DEF PlansAreAhead, Agenda, Items
      <4>2. <<g[1], todo[g][n]>> # j
        BY <1>3, <2>2, <4>1, KindsOfJobs DEF Plan
      <4>3. <<g[1], todo[g][n]>> \in Jobs /\ job[<<g[1], todo[g][n]>>].state = "none"
        BY <3>1, <4>1, KindsOfJobs DEF PlansAreAhead
      <4> QED BY <1>6, <4>2, <4>3
    <3> QED BY <1>9, <2>2, <3>1 DEF PlansAreAhead
  <2> QED BY <2>1, <2>2
<1>11. StagesInOrder'
  <2>1. \A s \in Reviews : /\ h = <<s, "parker">> => decision[s] # "absent"
                           /\ h = <<s, "decider">> => decision[s] \notin {"absent", "undecided"}
    BY <1>1 DEF StagesInOrder
  <2>2. ASSUME NEW s \in Reviews, NEW k \in Kinds,
               decision[s] = "absent" \/ (decision[s] = "undecided" /\ k \in {"decide", "callback"})
        PROVE  job'[<<s, k>>].state = "none"
    <3>1. <<s, k>> # j
      BY <1>3, <2>1, <2>2, KindsOfJobs DEF Plan
    <3>2. <<s, k>> \in Jobs /\ job[<<s, k>>].state = "none"
      BY <2>2, KindsOfJobs DEF StagesInOrder
    <3> QED BY <1>6, <3>1, <3>2
  <2>3. \A s \in Reviews :
            /\ decision[s] = "absent" => todo'[<<s, "parker">>] = todo[<<s, "parker">>]
            /\ decision[s] \in {"absent", "undecided"} =>
                   todo'[<<s, "decider">>] = todo[<<s, "decider">>]
    BY <1>9, <2>1, KindsOfJobs
  <2>4. "decide" \in Kinds /\ "callback" \in Kinds
    BY DEF Kinds
  <2> QED BY <1>1, <2>2, <2>3, <2>4 DEF StagesInOrder
<1> QED BY <1>7, <1>8, <1>10, <1>11

LEMMA CrashKeepsPermits ==
    ASSUME PermitInv, NEW i \in Instances, Crash(i)
    PROVE  PermitInv'
<1> USE DEF PermitInv
<1>1. /\ proc' = [proc EXCEPT ![i] = "down"]
      /\ todo' = [h \in Handlers |-> IF handlerAt[h] = i THEN <<>> ELSE todo[h]]
      /\ UNCHANGED <<decision, handlerAt, free>>
  BY DEF Crash
<1>2. \A j \in Jobs : IF job[j].state = "running" /\ job[j].at = i
                      THEN job'[j] = [job[j] EXCEPT !.state = "killed"]
                      ELSE job'[j] = job[j]
  BY DEF Crash
<1>3. /\ DOMAIN job' = Jobs
      /\ \A j \in Jobs :
             /\ job'[j] \in [state : {"none", "dropped", "running", "ended", "killed"},
                             at : Instances \cup {NoValue}]
             /\ job'[j].state = "running" => job'[j] = job[j] /\ job[j].at # i
             /\ job[j].state = "none" => job'[j].state = "none"
             /\ job[j].state = "running" /\ job[j].at # i => job'[j] = job[j]
  BY <1>2 DEF PermitShape, Crash
<1>4. PermitShape'
  <2>1. job' \in [Jobs -> [state : {"none", "dropped", "running", "ended", "killed"},
                           at : Instances \cup {NoValue}]]
    <3>1. job' = [j \in Jobs |-> job'[j]]
      BY DEF Crash
    <3> QED BY <1>3, <3>1
  <2>2. todo' \in [Handlers -> Seq(Items)]
    BY <1>1, EmptySeq DEF PermitShape
  <2> QED BY <1>1, <2>1, <2>2 DEF PermitShape
<1>5. PlansAreAhead'
  <2> SUFFICES ASSUME NEW h \in Handlers
               PROVE  /\ Agenda(todo'[h], Plan(h))
                      /\ todo'[h] # <<>> => handlerAt[h] \in Instances /\ proc'[handlerAt[h]] = "up"
                      /\ \A n \in 1 .. Len(todo'[h]) :
                             todo'[h][n] # "audit" => job'[<<h[1], todo'[h][n]>>].state = "none"
    BY <1>1 DEF PlansAreAhead
  <2>1. CASE handlerAt[h] = i
    BY <1>1, <2>1, EmptyIsAgenda
  <2>2. CASE handlerAt[h] # i
    <3>1. todo'[h] = todo[h]
      BY <1>1, <2>2
    <3>2. ASSUME NEW n \in 1 .. Len(todo[h]), todo[h][n] # "audit"
          PROVE  job'[<<h[1], todo[h][n]>>].state = "none"
      <4>1. <<h[1], todo[h][n]>> \in Jobs
        BY <3>2, KindsOfJobs DEF PlansAreAhead, Agenda, Items
      <4> QED BY <1>3, <3>2, <4>1 DEF PlansAreAhead
    <3>3. todo[h] # <<>> => handlerAt[h] \in Instances /\ proc'[handlerAt[h]] = "up"
      BY <1>1, <2>2 DEF PlansAreAhead, PermitShape
    <3> QED BY <3>1, <3>2, <3>3 DEF PlansAreAhead
  <2> QED BY <2>1, <2>2
<1>6. StagesInOrder'
  <2>1. \A h \in Handlers : todo[h] = <<>> => todo'[h] = <<>>
    BY <1>1
  <2>2. \A s \in Reviews, k \in Kinds :
            job[<<s, k>>].state = "none" => job'[<<s, k>>].state = "none"
    BY <1>3, KindsOfJobs
  <2>3. "decide" \in Kinds /\ "callback" \in Kinds
    BY DEF Kinds
  <2> QED BY <1>1, <2>1, <2>2, <2>3, KindsOfJobs DEF StagesInOrder
<1>7. RunningAreUp'
  BY <1>1, <1>3 DEF RunningAreUp, PermitShape
<1>8. PermitsAreOut'
  <2> SUFFICES ASSUME NEW k \in Instances
               PROVE  /\ IsFiniteSet(Running(k)')
                      /\ proc'[k] # "down" => free[k] + Cardinality(Running(k)') = Permits
    BY <1>1 DEF PermitsAreOut
  <2>1. CASE k = i
    <3>1. Running(k)' = {}
      BY <1>3, <2>1 DEF Running
    <3>2. proc'[k] = "down"
      BY <1>1, <2>1 DEF PermitShape
    <3> QED BY <3>1, <3>2, FS_EmptySet
  <2>2. CASE k # i
    <3>1. Running(k)' = Running(k)
      BY <1>3, <2>2 DEF Running
    <3>2. proc'[k] = proc[k]
      BY <1>1, <2>2 DEF PermitShape
    <3> QED BY <3>1, <3>2 DEF PermitsAreOut
  <2> QED BY <2>1, <2>2
<1> QED BY <1>4, <1>5, <1>6, <1>7, <1>8

(* A step of a walk leaves the permits alone or ends the event.            *)
LEMMA WalkKeepsPermits ==
    ASSUME PermitInv, NEW r \in Reviews, Validate(r) \/ Connect(r) \/ Redirect(r)
    PROVE  PermitInv'
<1> DEFINE j == <<r, "callback">>
<1>1. job[j].state = "running" /\ UNCHANGED <<proc, decision, todo, handlerAt>>
  BY DEF Validate, Connect, Redirect, Walking
<1>2. UNCHANGED <<job, free>> \/ Over(j)
  BY DEF Validate, Connect, Redirect
<1>3. j \in Jobs
  BY KindsOfJobs DEF Kinds
<1>4. CASE Over(j)
  <2> HIDE DEF j
  <2> QED BY <1>1, <1>3, <1>4, OverKeepsPermits
<1>5. CASE UNCHANGED <<job, free>>
  BY <1>1, <1>5 DEF PermitInv, PermitShape, PlansAreAhead, StagesInOrder, RunningAreUp,
                    PermitsAreOut, Running
<1> QED BY <1>2, <1>4, <1>5

LEMMA NextKeepsPermitInv == PermitInv /\ [Next]_vars => PermitInv'
<1> SUFFICES ASSUME PermitInv, [Next]_vars PROVE PermitInv'
  OBVIOUS
<1>1. ASSUME NEW r \in Reviews, NEW i \in Instances, ParkAt(r, i) \/ DecideAt(r, i)
      PROVE  PermitInv'
  BY <1>1, ParkKeepsPermits, DecideKeepsPermits
<1>2. ASSUME NEW h \in Handlers, AuditReturns(h) \/ Notify(h) PROVE PermitInv'
  BY <1>2, AuditKeepsPermits, NotifyKeepsPermits
<1>3. ASSUME NEW j \in Jobs, Ends(j) PROVE PermitInv'
  BY <1>3, OverKeepsPermits DEF Ends
<1>4. ASSUME NEW r \in Reviews, Validate(r) \/ Connect(r) \/ Redirect(r) PROVE PermitInv'
  BY <1>4, WalkKeepsPermits
<1>5. ASSUME NEW i \in Instances, Start(i) PROVE PermitInv'
  <2>1. /\ proc[i] = "new" /\ proc' = [proc EXCEPT ![i] = "up"]
        /\ UNCHANGED <<decision, todo, handlerAt, free, job>>
    BY <1>5 DEF Start
  <2>2. /\ \A k \in Instances : proc[k] = "up" => proc'[k] = "up"
        /\ \A k \in Instances : proc'[k] # "down" => proc[k] # "down"
        /\ proc' \in [Instances -> {"new", "up", "down"}]
    BY <2>1 DEF PermitInv, PermitShape
  <2>3. PlansAreAhead'
    BY <2>1, <2>2 DEF PermitInv, PlansAreAhead
  <2>4. RunningAreUp' /\ PermitsAreOut'
    BY <2>1, <2>2 DEF PermitInv, RunningAreUp, PermitsAreOut, Running
  <2> QED BY <2>1, <2>2, <2>3, <2>4 DEF PermitInv, PermitShape, StagesInOrder
<1>6. ASSUME NEW i \in Instances, Crash(i) PROVE PermitInv'
  BY <1>6, CrashKeepsPermits
<1>7. CASE UNCHANGED vars
  BY <1>7 DEF vars, PermitInv, PermitShape, PlansAreAhead, StagesInOrder, RunningAreUp,
              PermitsAreOut, Running
<1> QED BY <1>1, <1>2, <1>3, <1>4, <1>5, <1>6, <1>7 DEF Next

LEMMA PermitInvariant == Spec => []PermitInv
BY InitPermitInv, NextKeepsPermitInv, PTL DEF Spec

------------------------------------------------------------------------------
(* proxy.rs:88-107: whatever an event meets, and whoever dies, the permits *)
(* of a process are free or with its events under way.                     *)
THEOREM PermitsComeBack == Spec => []PermitsAreConserved
<1>1. PermitInv => PermitsAreConserved
  BY DEF PermitInv, PermitsAreOut, PermitsAreConserved
<1> QED BY <1>1, PermitInvariant, PTL

(* webhook.rs:14: nothing is dropped below the limit.                      *)
THEOREM DropsAreForced == Spec => DropsOnlyAtLimit
<1> DEFINE Forced == \A j \in Jobs : job'[j].state = "dropped" /\ job[j].state = "none"
                         => Cardinality(Running(job'[j].at)) = Permits
<1>1. PermitInv /\ [Next]_vars => Forced
  <2> SUFFICES ASSUME PermitInv, [Next]_vars, NEW j \in Jobs,
                      job'[j].state = "dropped", job[j].state = "none"
               PROVE  Cardinality(Running(job'[j].at)) = Permits
    OBVIOUS
  <2> USE DEF PermitInv
  <2>1. ASSUME NEW h \in Handlers, Notify(h)
        PROVE  Cardinality(Running(job'[j].at)) = Permits
    <3> DEFINE k == <<h[1], Head(todo[h])>>
               i == handlerAt[h]
    <3>1. todo[h] # <<>> /\ i \in Instances /\ proc[i] = "up"
      BY <2>1 DEF Notify, PlansAreAhead
    <3>2. PICK s \in {"running", "dropped"} :
              /\ job' = [job EXCEPT ![k] = [state |-> s, at |-> i]]
              /\ s = "dropped" => free[i] = 0
      BY <2>1 DEF Notify
    <3>3. j = k /\ job'[j] = [state |-> s, at |-> i]
      <4> HIDE DEF k, i
      <4> QED BY <3>2 DEF PermitShape
    <3>4. s = "dropped" /\ job'[j].at = i
      BY <3>3
    <3>5. free[i] = 0 /\ free[i] + Cardinality(Running(i)) = Permits /\ IsFiniteSet(Running(i))
      BY <3>1, <3>2, <3>4 DEF PermitsAreOut
    <3>6. Cardinality(Running(i)) \in Nat
      BY <3>5, FS_CardinalityType
    <3> QED BY <3>4, <3>5, <3>6
  <2>2. ASSUME NEW k \in Jobs, Over(k), job[k].state = "running" PROVE FALSE
    BY <2>2 DEF Over, PermitShape
  <2>3. ASSUME NEW r \in Reviews, Validate(r) \/ Connect(r) \/ Redirect(r) PROVE FALSE
    <3>1. <<r, "callback">> \in Jobs
      BY KindsOfJobs DEF Kinds
    <3>2. job' = job \/ (Over(<<r, "callback">>) /\ job[<<r, "callback">>].state = "running")
      BY <2>3 DEF Validate, Connect, Redirect, Walking
    <3> QED BY <2>2, <3>1, <3>2
  <2>4. ASSUME NEW i \in Instances, Crash(i) PROVE FALSE
    BY <2>4 DEF Crash
  <2>5. job' # job
    OBVIOUS
  <2> QED BY <2>1, <2>2, <2>3, <2>4, <2>5
          DEF Next, vars, ParkAt, DecideAt, AuditReturns, Ends, Start
<1> QED BY <1>1, PermitInvariant, PTL DEF Spec, DropsOnlyAtLimit

------------------------------------------------------------------------------
(* The walk of a callback.  Its target is in normal form and allowed, it   *)
(* counts its requests, has seen the targets of all of them, and tells the *)
(* decision that stands, or nothing.                                       *)

Normal(u) == u \in URL /\ Normalized(u, FALSE) = u

(* The order of the requests, whatever they were answered.                 *)
TargetsInOrder(w, allowed) ==
    /\ \A n \in 1 .. Len(w.visits) : /\ Normal(w.visits[n].url)
                                     /\ Allows(allowed, w.visits[n].url)
                                     /\ w.visits[n].url \in w.seen
    /\ \A m, n \in 1 .. Len(w.visits) : w.visits[m].url = w.visits[n].url => m = n
    /\ \A m, n \in 1 .. Len(w.visits) :
           m < n /\ w.visits[m].url.scheme = "https" => w.visits[n].url.scheme = "https"
    /\ \A m \in 1 .. Len(w.visits) : w.visits[m].url.scheme = "https" => w.url.scheme = "https"

TargetIsNew(w) == \A n \in 1 .. Len(w.visits) : w.visits[n].url # w.url

TargetStands(w, allowed) ==
    /\ Normal(w.url)
    /\ w.hops \in 0 .. MaxHops
    /\ w.at = "validate" => w.visits = <<>> /\ w.hops = 0 /\ w.via = 0
    /\ w.at # "validate" => Allows(allowed, w.url) /\ w.url \in w.seen
    /\ w.at = "connect" => Len(w.visits) = w.hops /\ TargetIsNew(w)
    /\ w.at = "await" => Len(w.visits) = w.hops + 1

(* No request after a 303 has a body.                                      *)
BodiesInOrder(w, d) ==
    /\ w.told \in {NoValue, d}
    /\ w.via = 303 => w.told = NoValue
    /\ \A n \in 1 .. Len(w.visits) :
           /\ w.visits[n].told \in {NoValue, d}
           /\ w.visits[n].via = 303 => w.told = NoValue
    /\ \A m, n \in 1 .. Len(w.visits) :
           m <= n /\ w.visits[m].via = 303 => w.visits[n].told = NoValue

Told == {NoValue, "allow", "deny"}

(* What Unique makes of an accepted list.                                  *)
AllPublic(S) == S # {} /\ \A x \in S : IsPublic(x)

VisitType ==
    {Visit(w, S, Selected(S)) : w \in [url : URL, told : Told, via : {0, 303, 307}],
                                S \in {T \in SUBSET (IPv4 \cup IPv6) : AllPublic(T)}}

WalkType ==
    [at : {"validate", "connect", "await"}, url : URL, seen : SUBSET URL, hops : Nat,
     told : Told, via : {0, 303, 307}, visits : Seq(VisitType)]

Underway(r) == job[<<r, "callback">>].state = "running"

Stands(w, allowed, d) ==
    w \in WalkType /\ TargetStands(w, allowed) /\ TargetsInOrder(w, allowed) /\ BodiesInOrder(w, d)

WalkStands(r) ==
    decision[r] \in {"allow", "deny"} /\ Stands(walk[r], AllowlistOf(r), decision[r])

UrlsAreNormal ==
    /\ DOMAIN callback_url = Reviews
    /\ \A r \in Reviews : callback_url[r] # NoValue => Normal(callback_url[r])

(* A callback is planned only for a review that has a URL to call.         *)
PlansHaveUrls ==
    \A r \in Reviews : \A n \in 1 .. Len(todo[<<r, "decider">>]) :
        todo[<<r, "decider">>][n] = "callback" => callback_url[r] # NoValue

(* What a decider holds is what the row says from then on.                 *)
DecidedIsTheRow ==
    /\ decided \in [Reviews -> {NoValue, "allow", "deny"}]
    /\ \A r \in Reviews : decision[r] \in {"allow", "deny"} => decided[r] = decision[r]

WalksStand ==
    /\ DOMAIN walk = Reviews
    /\ \A r \in Reviews : IF Underway(r) THEN WalkStands(r) ELSE walk[r] = NoWalk

WalkInv == UrlsAreNormal /\ PlansHaveUrls /\ DecidedIsTheRow /\ WalksStand

------------------------------------------------------------------------------
(* Normal forms.                                                           *)

LEMMA NormalizedIsNormal ==
    ASSUME NEW u \in URL
    PROVE  LET n == Normalized(u, FALSE) IN
           /\ Normal(n)
           /\ n.scheme = u.scheme /\ n.port = u.port /\ n.path = u.path
           /\ n.credentials = u.credentials /\ n.fragment = u.fragment /\ n.query = u.query
           /\ n.host.kind = u.host.kind
           /\ u.host.kind = "domain" => n.host.labels = u.host.labels
           /\ u.host.kind = "address" => n.host = u.host
<1> DEFINE n == Normalized(u, FALSE)
           host == IF u.host.kind = "domain" THEN [u.host EXCEPT !.dots = FALSE] ELSE u.host
<1>1. u.host \in Domain \cup Literal
  BY DEF URL
<1>2. /\ host \in Domain \cup Literal
      /\ host.kind = u.host.kind
      /\ u.host.kind = "domain" => host.labels = u.host.labels /\ host.dots = FALSE /\ host \in Domain
      /\ u.host.kind = "address" => host = u.host
      /\ u.host.kind \in {"domain", "address"}
  BY <1>1 DEF Domain, Literal
<1>3. n = [u EXCEPT !.host = host, !.slash = u.slash]
  BY DEF Normalized
<1> HIDE DEF n, host
<1>4. /\ n \in URL /\ n.host = host /\ n.slash = u.slash
      /\ n.scheme = u.scheme /\ n.port = u.port /\ n.path = u.path
      /\ n.credentials = u.credentials /\ n.fragment = u.fragment /\ n.query = u.query
  BY <1>2, <1>3 DEF URL
<1>5. (IF n.host.kind = "domain" THEN [n.host EXCEPT !.dots = FALSE] ELSE n.host) = n.host
  BY <1>2, <1>4 DEF Domain
<1>6. Normalized(n, FALSE) = [n EXCEPT !.host = n.host, !.slash = n.slash]
  BY <1>5 DEF Normalized
<1>7. Normalized(n, FALSE) = n
  BY <1>4, <1>6 DEF URL
<1>8. Normal(n)
  BY <1>4, <1>7 DEF Normal
<1> QED BY <1>2, <1>4, <1>8 DEF n

LEMMA AllowedInNormalForm ==
    ASSUME NEW u \in URL, NEW allowed, Allows(allowed, u)
    PROVE  Allows(allowed, Normalized(u, FALSE))
<1> DEFINE n == Normalized(u, FALSE)
<1>1. /\ Normal(n)
      /\ n.scheme = u.scheme /\ n.port = u.port /\ n.path = u.path
      /\ n.credentials = u.credentials /\ n.fragment = u.fragment /\ n.query = u.query
      /\ n.host.kind = u.host.kind
      /\ u.host.kind = "domain" => n.host.labels = u.host.labels
      /\ u.host.kind = "address" => n.host = u.host
  BY NormalizedIsNormal
<1>2. Normalized(n, FALSE) = n
  BY <1>1 DEF Normal
<1> HIDE DEF n
<1>3. HostAccepted(u.host) => HostAccepted(n.host)
  BY <1>1 DEF HostAccepted
<1>4. Normalizes(n, FALSE)
  BY <1>1, <1>3 DEF Allows, Normalizes
<1>5. PICK e \in allowed : /\ e.scheme = u.scheme /\ e.port = u.port
                           /\ Normalized(e, TRUE).host = n.host
                           /\ PathMatches(e.path, u.path)
  BY DEF Allows, n
<1>6. Allows(allowed, n)
  BY <1>1, <1>2, <1>4, <1>5 DEF Allows
<1> QED BY <1>6 DEF n

(* What it means to be allowed: an entry of the same origin, at or above.  *)
LEMMA AllowedIsBelow ==
    ASSUME NEW u, Normal(u), NEW allowed \in SUBSET URL, Allows(allowed, u)
    PROVE  /\ u.scheme \in {"http", "https"} /\ ~u.credentials /\ ~u.fragment
           /\ \E e \in allowed :
                  /\ <<e.scheme, e.port, e.host.kind>> = <<u.scheme, u.port, u.host.kind>>
                  /\ \/ e.host.kind = "domain" /\ e.host.labels = u.host.labels
                     \/ e.host.kind = "address" /\ e.host.address = u.host.address
                  /\ \A n \in DOMAIN e.path : n \in DOMAIN u.path /\ u.path[n] = e.path[n]
<1>1. PICK e \in allowed : /\ e.scheme = u.scheme /\ e.port = u.port
                           /\ Normalized(e, TRUE).host = u.host
                           /\ PathMatches(e.path, u.path)
  BY DEF Allows, Normal
<1>2. e \in URL /\ u \in URL /\ e.host \in Domain \cup Literal
  BY DEF Normal, URL
<1> DEFINE host == IF e.host.kind = "domain" THEN [e.host EXCEPT !.dots = FALSE] ELSE e.host
<1>3. /\ host.kind = e.host.kind
      /\ e.host.kind = "domain" => host.labels = e.host.labels
      /\ e.host.kind = "address" => host.address = e.host.address
      /\ e.host.kind \in {"domain", "address"}
  BY <1>2 DEF Domain, Literal
<1>4. Normalized(e, TRUE) = [e EXCEPT !.host = host, !.slash = FALSE]
  BY DEF Normalized
<1> HIDE DEF host
<1>5. u.host = host
  BY <1>1, <1>2, <1>4 DEF URL
<1>6. \A n \in DOMAIN e.path : n \in DOMAIN u.path /\ u.path[n] = e.path[n]
  <2>1. e.path \in Seq(Segments) /\ u.path \in Seq(Segments)
    BY <1>2 DEF URL
  <2>2. /\ Len(e.path) \in Nat /\ DOMAIN e.path = 1 .. Len(e.path)
        /\ Len(u.path) \in Nat /\ DOMAIN u.path = 1 .. Len(u.path)
    BY <2>1, LenProperties
  <2>3. Len(e.path) <= Len(u.path) /\ SubSeq(u.path, 1, Len(e.path)) = e.path
    BY <1>1 DEF PathMatches
  <2>4. \A n \in 1 .. Len(e.path) : u.path[n] \in Segments /\ n \in 1 .. Len(u.path)
    BY <2>1, <2>2, <2>3, ElementOfSeq
  <2>5. \A n \in 1 .. Len(e.path) - 1 + 1 : SubSeq(u.path, 1, Len(e.path))[n] = u.path[1 + n - 1]
    BY <2>2, <2>4, SubSeqProperties
  <2>6. \A n \in 1 .. Len(e.path) : n \in 1 .. Len(e.path) - 1 + 1 /\ 1 + n - 1 = n
    BY <2>2
  <2> QED BY <2>2, <2>3, <2>4, <2>5, <2>6
<1>7. u.scheme \in {"http", "https"} /\ ~u.credentials /\ ~u.fragment
  BY DEF Allows, Normalizes
<1> QED BY <1>1, <1>3, <1>5, <1>6, <1>7

------------------------------------------------------------------------------
(* The steps of one walk.                                                  *)

(* A walk before its first request.                                        *)
LEMMA FreshWalkStands ==
    ASSUME NEW w \in WalkType, NEW d, NEW allowed,
           Normal(w.url), w.hops = 0, w.told \in {NoValue, d}, w.via = 0, w.visits = <<>>,
           \/ w.at = "validate"
           \/ w.at = "connect" /\ Allows(allowed, w.url) /\ w.url \in w.seen
    PROVE  Stands(w, allowed, d)
<1>1. Len(w.visits) = 0 /\ \A n \in 1 .. Len(w.visits) : FALSE
  BY EmptySeq
<1>2. 0 \in 0 .. MaxHops
  BY DeliveryAssumption
<1>3. TargetStands(w, allowed)
  BY <1>1, <1>2 DEF TargetStands, TargetIsNew
<1>4. TargetsInOrder(w, allowed) /\ BodiesInOrder(w, d)
  BY <1>1 DEF TargetsInOrder, BodiesInOrder
<1> QED BY <1>3, <1>4 DEF Stands

LEMMA StartedWalkStands ==
    ASSUME NEW u, Normal(u), NEW d \in {"allow", "deny"}, NEW allowed, NEW x,
           x = [NoWalk EXCEPT !.at = "validate", !.url = u, !.told = d]
    PROVE  Stands(x, allowed, d)
<1> DEFINE w == [at |-> "validate", url |-> u, seen |-> {}, hops |-> 0,
                 told |-> d, via |-> 0, visits |-> <<>>]
<1>1. x = [at |-> "validate", url |-> u, seen |-> {}, hops |-> 0,
           told |-> d, via |-> 0, visits |-> <<>>]
  BY DEF NoWalk
<1>2. x = w
  BY <1>1, Zenon
<1>3. w \in WalkType
  <2>1. u \in URL /\ {} \in SUBSET URL /\ d \in Told /\ 0 \in {0, 303, 307} /\ 0 \in Nat
    BY DEF Told, Normal
  <2>2. <<>> \in Seq(VisitType)
    BY EmptySeq
  <2> QED BY <2>1, <2>2 DEF WalkType
<1>4. /\ w.at = "validate" /\ w.url = u /\ w.hops = 0 /\ w.told = d /\ w.via = 0
      /\ w.visits = <<>>
  OBVIOUS
<1> HIDE DEF w
<1>5. Stands(w, allowed, d)
  BY <1>3, <1>4, FreshWalkStands
<1> QED BY <1>2, <1>5, Zenon

LEMMA ValidatedWalkStands ==
    ASSUME NEW w, NEW d, NEW allowed, Stands(w, allowed, d), w.at = "validate",
           Allows(allowed, w.url), NEW x,
           x = [w EXCEPT !.at = "connect", !.seen = {Normalized(w.url, FALSE)}]
    PROVE  Stands(x, allowed, d)
<1>1. /\ x.at = "connect" /\ x.seen = {w.url} /\ x.url = w.url /\ x.hops = w.hops
      /\ x.told = w.told /\ x.via = w.via /\ x.visits = w.visits /\ x \in WalkType
  <2> DEFINE t == Normalized(w.url, FALSE)
  <2>1. w \in WalkType /\ t = w.url /\ t \in URL
    BY DEF Stands, TargetStands, Normal
  <2> HIDE DEF t
  <2>2. {t} \in SUBSET URL
    BY <2>1
  <2> QED BY <2>1, <2>2 DEF WalkType, t
<1>2. /\ Normal(w.url) /\ w.visits = <<>> /\ w.hops = 0 /\ w.told \in {NoValue, d}
      /\ w.via = 0
  BY DEF Stands, TargetStands, BodiesInOrder
<1> QED BY <1>1, <1>2, FreshWalkStands

LEMMA ConnectedWalkStands ==
    ASSUME NEW w, NEW d, NEW allowed, Stands(w, allowed, d), w.at = "connect",
           NEW S \in SUBSET (IPv4 \cup IPv6), AllPublic(S), NEW x,
           x = [w EXCEPT !.at = "await", !.visits = Append(w.visits, Visit(w, S, Selected(S)))]
    PROVE  Stands(x, allowed, d)
<1> DEFINE v == Visit(w, S, Selected(S))
           n == Len(w.visits)
<1>1. w.visits \in Seq(VisitType) /\ n \in Nat
  BY LenProperties DEF Stands, WalkType
<1>2. v.url = w.url /\ v.told = w.told /\ v.via = w.via
  BY DEF Visit
<1>3. v \in VisitType
  <2> DEFINE y == [url |-> w.url, told |-> w.told, via |-> w.via]
  <2>1. y \in [url : URL, told : Told, via : {0, 303, 307}]
    BY DEF Stands, WalkType
  <2>2. v = Visit(y, S, Selected(S))
    BY DEF Visit
  <2> HIDE DEF y, v
  <2> QED BY <2>1, <2>2 DEF VisitType
<1> HIDE DEF v
<1>4. /\ Append(w.visits, v) \in Seq(VisitType)
      /\ Len(Append(w.visits, v)) = n + 1
      /\ \A i \in 1 .. n : Append(w.visits, v)[i] = w.visits[i]
      /\ Append(w.visits, v)[n + 1] = v
  BY <1>1, <1>3, AppendProperties
<1>5. /\ x.at = "await" /\ x.visits = Append(w.visits, v) /\ x.url = w.url /\ x.seen = w.seen
      /\ x.hops = w.hops /\ x.told = w.told /\ x.via = w.via /\ x \in WalkType
  BY <1>4 DEF Stands, WalkType, v
<1>6. /\ Len(x.visits) = n + 1
      /\ \A i \in 1 .. n + 1 : \/ i \in 1 .. n /\ x.visits[i] = w.visits[i]
                               \/ i = n + 1 /\ x.visits[i] = v
  BY <1>1, <1>4, <1>5
<1>7. TargetStands(x, allowed)
  BY <1>5, <1>6 DEF Stands, TargetStands
<1>8. TargetsInOrder(x, allowed)
  <2>1. \A i \in 1 .. n + 1 : /\ Normal(x.visits[i].url)
                              /\ Allows(allowed, x.visits[i].url)
                              /\ x.visits[i].url \in x.seen
                              /\ x.visits[i].url.scheme = "https" => x.url.scheme = "https"
    BY <1>2, <1>5, <1>6 DEF Stands, TargetStands, TargetsInOrder
  <2>2. ASSUME NEW i \in 1 .. n + 1, NEW j \in 1 .. n + 1, x.visits[i].url = x.visits[j].url
        PROVE  i = j
    BY <1>2, <1>5, <1>6, <2>2 DEF Stands, TargetStands, TargetIsNew, TargetsInOrder
  <2>3. ASSUME NEW i \in 1 .. n + 1, NEW j \in 1 .. n + 1, i < j, x.visits[i].url.scheme = "https"
        PROVE  x.visits[j].url.scheme = "https"
    <3>1. i \in 1 .. n /\ x.visits[i] = w.visits[i]
      BY <1>1, <1>6, <2>3
    <3> QED BY <1>2, <1>6, <2>3, <3>1 DEF Stands, TargetsInOrder
  <2> QED BY <1>6, <2>1, <2>2, <2>3 DEF TargetsInOrder
<1>9. BodiesInOrder(x, d)
  <2>1. \A i \in 1 .. n + 1 : /\ x.visits[i].told \in {NoValue, d}
                              /\ x.visits[i].via = 303 => x.told = NoValue
    BY <1>2, <1>5, <1>6 DEF Stands, BodiesInOrder
  <2>2. ASSUME NEW i \in 1 .. n + 1, NEW j \in 1 .. n + 1, i <= j, x.visits[i].via = 303
        PROVE  x.visits[j].told = NoValue
    <3>1. CASE j = n + 1
      BY <1>1, <1>2, <1>5, <1>6, <2>1, <2>2, <3>1
    <3>2. CASE j # n + 1
      <4>1. i \in 1 .. n /\ j \in 1 .. n
        BY <1>1, <2>2, <3>2
      <4> QED BY <1>1, <1>6, <2>2, <4>1 DEF Stands, BodiesInOrder
    <3> QED BY <3>1, <3>2
  <2> QED BY <1>5, <1>6, <2>1, <2>2 DEF BodiesInOrder, Stands
<1> QED BY <1>5, <1>7, <1>8, <1>9 DEF Stands

LEMMA TargetsStayInOrder ==
    ASSUME NEW v, NEW w, NEW allowed, TargetsInOrder(v, allowed),
           v.url.scheme = "https" => w.url.scheme = "https", w.url \notin v.seen,
           w.visits = v.visits, v.seen \subseteq w.seen
    PROVE  TargetsInOrder(w, allowed) /\ TargetIsNew(w)
<1> DEFINE visits == v.visits
           seen == v.seen
           more == w.seen
           before == v.url
           t == w.url
<1>1. /\ \A n \in 1 .. Len(visits) : /\ Normal(visits[n].url)
                                     /\ Allows(allowed, visits[n].url)
                                     /\ visits[n].url \in seen
      /\ \A m, n \in 1 .. Len(visits) : visits[m].url = visits[n].url => m = n
      /\ \A m, n \in 1 .. Len(visits) :
             m < n /\ visits[m].url.scheme = "https" => visits[n].url.scheme = "https"
      /\ \A m \in 1 .. Len(visits) : visits[m].url.scheme = "https" => before.scheme = "https"
  BY DEF TargetsInOrder
<1>2. /\ before.scheme = "https" => t.scheme = "https"
      /\ t \notin seen /\ seen \subseteq more
      /\ w.visits = visits /\ w.url = t /\ w.seen = more
  OBVIOUS
<1> HIDE DEF visits, seen, more, before, t
<1>3. \A n \in 1 .. Len(visits) : visits[n].url \in more /\ visits[n].url # t
  BY <1>1, <1>2
<1>4. \A m \in 1 .. Len(visits) : visits[m].url.scheme = "https" => t.scheme = "https"
  BY <1>1, <1>2
<1> QED BY <1>1, <1>2, <1>3, <1>4 DEF TargetsInOrder, TargetIsNew

LEMMA RedirectedWalkStands ==
    ASSUME NEW w, NEW d, NEW allowed, NEW x \in WalkType, Stands(w, allowed, d),
           w.at = "await", x.at = "connect", w.hops < MaxHops, x.hops = w.hops + 1,
           Normal(x.url), Allows(allowed, x.url), x.url \notin w.seen,
           w.url.scheme = "https" => x.url.scheme = "https",
           x.url \in x.seen, w.seen \subseteq x.seen, x.visits = w.visits,
           x.told \in {NoValue, w.told}, x.via = 303 => x.told = NoValue
    PROVE  Stands(x, allowed, d)
<1>1. TargetsInOrder(x, allowed) /\ TargetIsNew(x)
  <2>1. TargetsInOrder(w, allowed)
    BY DEF Stands
  <2> QED BY <2>1, TargetsStayInOrder
<1>2. TargetStands(x, allowed)
  <2>1. x.hops \in 0 .. MaxHops /\ Len(x.visits) = x.hops
    BY DeliveryAssumption DEF Stands, TargetStands
  <2> QED BY <1>1, <2>1 DEF TargetStands
<1>3. BodiesInOrder(x, d)
  BY DEF Stands, BodiesInOrder
<1> QED BY <1>1, <1>2, <1>3 DEF Stands

------------------------------------------------------------------------------
(* The steps of the specification.                                         *)

(* Walks whose event, decision and record stay as they are still stand.    *)
LEMMA OtherWalksStand ==
    ASSUME WalksStand, DOMAIN walk' = Reviews,
           \A r \in Reviews :
               \/ /\ walk'[r] = walk[r]
                  /\ job'[<<r, "callback">>] = job[<<r, "callback">>]
                  /\ Underway(r) => decision'[r] = decision[r]
               \/ walk'[r] = NoWalk /\ ~Underway(r)'
               \/ WalkStands(r)' /\ Underway(r)'
    PROVE  WalksStand'
<1> SUFFICES ASSUME NEW r \in Reviews
             PROVE  IF Underway(r)' THEN WalkStands(r)' ELSE walk'[r] = NoWalk
  BY DEF WalksStand
<1>1. CASE /\ walk'[r] = walk[r]
           /\ job'[<<r, "callback">>] = job[<<r, "callback">>]
           /\ Underway(r) => decision'[r] = decision[r]
  <2>1. Underway(r)' <=> Underway(r)
    BY <1>1 DEF Underway
  <2>2. CASE Underway(r)
    <3>1. WalkStands(r)
      BY <2>2 DEF WalksStand
    <3>2. decision'[r] = decision[r] /\ AllowlistOf(r)' = AllowlistOf(r)
      BY <1>1, <2>2 DEF AllowlistOf
    <3>3. WalkStands(r)'
      BY <1>1, <3>1, <3>2 DEF WalkStands
    <3> QED BY <2>1, <2>2, <3>3
  <2>3. CASE ~Underway(r)
    BY <1>1, <2>1, <2>3 DEF WalksStand
  <2> QED BY <2>2, <2>3
<1> QED BY <1>1

LEMMA InitWalkInv == Init => WalkInv
<1> SUFFICES ASSUME Init PROVE WalkInv
  OBVIOUS
<1>1. UrlsAreNormal /\ WalksStand /\ DecidedIsTheRow
  <2>1. \A r \in Reviews : ~Underway(r)
    BY KindsOfJobs DEF Init, Underway, Kinds
  <2> QED BY <2>1 DEF Init, UrlsAreNormal, WalksStand, DecidedIsTheRow
<1>2. PlansHaveUrls
  <2>1. \A r \in Reviews : todo[<<r, "decider">>] = <<>>
    BY KindsOfJobs DEF Init
  <2>2. \A n \in 1 .. Len(<<>>) : FALSE
    BY EmptySeq
  <2> QED BY <2>1, <2>2 DEF PlansHaveUrls
<1> QED BY <1>1, <1>2 DEF WalkInv

(* The task is over: there is no walk any more.                            *)
LEMMA OverKeepsWalks ==
    ASSUME PermitInv, WalkInv, NEW j \in Jobs, Over(j),
           UNCHANGED <<decision, decided, callback_url, todo>>
    PROVE  WalkInv'
<1>1. UrlsAreNormal' /\ PlansHaveUrls' /\ DecidedIsTheRow'
  BY DEF WalkInv, UrlsAreNormal, PlansHaveUrls, DecidedIsTheRow
<1>2. /\ DOMAIN job = Jobs /\ job[j] \in [state : {"none", "dropped", "running", "ended", "killed"},
                                          at : Instances \cup {NoValue}]
      /\ job' = [job EXCEPT ![j].state = "ended"]
  BY DEF PermitInv, PermitShape, Over
<1>3. job'[j].state = "ended" /\ \A k \in Jobs : k # j => job'[k] = job[k]
  BY <1>2
<1>4. DOMAIN walk = Reviews
  BY DEF WalkInv, WalksStand
<1>5. j[1] \in Reviews /\ j = <<j[1], j[2]>> /\ \A r \in Reviews : <<r, "callback">> \in Jobs
  BY KindsOfJobs DEF Kinds
<1>6. CASE j[2] = "callback"
  <2>1. walk' = [walk EXCEPT ![j[1]] = NoWalk]
    BY <1>6 DEF Over
  <2>2. ASSUME NEW r \in Reviews
        PROVE  \/ /\ walk'[r] = walk[r]
                  /\ job'[<<r, "callback">>] = job[<<r, "callback">>]
                  /\ Underway(r) => decision'[r] = decision[r]
               \/ walk'[r] = NoWalk /\ ~Underway(r)'
    <3>1. CASE r = j[1]
      <4>1. <<r, "callback">> = j
        BY <1>5, <1>6, <3>1
      <4> QED BY <1>3, <1>4, <2>1, <3>1, <4>1 DEF Underway
    <3>2. CASE r # j[1]
      <4>1. <<r, "callback">> # j
        BY <3>2
      <4> QED BY <1>3, <1>4, <1>5, <2>1, <3>2, <4>1
    <3> QED BY <3>1, <3>2
  <2>3. DOMAIN walk' = Reviews
    BY <1>4, <2>1
  <2>4. WalksStand'
    BY <2>2, <2>3, OtherWalksStand DEF WalkInv
  <2> QED BY <1>1, <2>4 DEF WalkInv
<1>7. CASE j[2] # "callback"
  <2>1. walk' = walk
    BY <1>7 DEF Over
  <2>2. \A r \in Reviews : <<r, "callback">> # j
    BY <1>7
  <2>3. \A r \in Reviews : walk'[r] = walk[r] /\ job'[<<r, "callback">>] = job[<<r, "callback">>]
    BY <1>3, <1>5, <2>1, <2>2
  <2>4. WalksStand'
    BY <1>4, <2>1, <2>3, OtherWalksStand DEF WalkInv
  <2> QED BY <1>1, <2>4 DEF WalkInv
<1> QED BY <1>6, <1>7

LEMMA ParkKeepsWalks ==
    ASSUME PermitInv, WalkInv, NEW r \in Reviews, NEW i \in Instances, ParkAt(r, i)
    PROVE  WalkInv'
<1>1. /\ decision[r] = "absent"
      /\ todo[<<r, "decider">>] = <<>> /\ job[<<r, "callback">>].state = "none"
  <2>1. "callback" \in Kinds
    BY DEF Kinds
  <2> QED BY <2>1 DEF ParkAt, PermitInv, StagesInOrder
<1>2. PICK u \in Headers :
          /\ u # NoValue => Allows(Allowlist[i], u)
          /\ callback_url' = [callback_url EXCEPT ![r] =
                 IF u = NoValue THEN NoValue ELSE Normalized(u, FALSE)]
  BY DEF ParkAt
<1> DEFINE kept == IF u = NoValue THEN NoValue ELSE Normalized(u, FALSE)
<1>3. kept # NoValue => Normal(kept)
  <2>1. u # NoValue => u \in URL
    BY DeliveryAssumption
  <2> QED BY <2>1, NormalizedIsNormal
<1> HIDE DEF kept
<1>4. callback_url' = [callback_url EXCEPT ![r] = kept] /\ DOMAIN callback_url = Reviews
  BY <1>2 DEF kept, WalkInv, UrlsAreNormal
<1>5. UrlsAreNormal'
  BY <1>3, <1>4 DEF WalkInv, UrlsAreNormal
<1>6. \A s \in Reviews : todo'[<<s, "decider">>] = todo[<<s, "decider">>]
  <2>1. PICK list : todo' = [todo EXCEPT ![<<r, "parker">>] = list]
    BY DEF ParkAt
  <2> QED BY <2>1, KindsOfJobs DEF PermitInv, PermitShape
<1>7. PlansHaveUrls'
  <2> SUFFICES ASSUME NEW s \in Reviews, NEW n \in 1 .. Len(todo[<<s, "decider">>]),
                      todo[<<s, "decider">>][n] = "callback"
               PROVE  callback_url'[s] # NoValue
    BY <1>6 DEF PlansHaveUrls
  <2>1. s # r
    BY <1>1, EmptySeq
  <2> QED BY <1>4, <2>1 DEF WalkInv, PlansHaveUrls
<1>8. WalksStand'
  <2>1. \A s \in Reviews : Underway(s) => s # r
    BY <1>1 DEF Underway
  <2>2. decision' = [decision EXCEPT ![r] = "undecided"] /\ UNCHANGED <<job, walk>>
    BY DEF ParkAt
  <2>3. DOMAIN walk = Reviews /\ DOMAIN decision = Reviews
    BY DEF WalkInv, WalksStand, PermitInv, PermitShape
  <2>4. \A s \in Reviews : Underway(s) => decision'[s] = decision[s]
    BY <2>1, <2>2, <2>3
  <2> QED BY <2>2, <2>3, <2>4, OtherWalksStand DEF WalkInv
<1>9. DecidedIsTheRow'
  BY DEF ParkAt, PermitInv, PermitShape, WalkInv, DecidedIsTheRow
<1> QED BY <1>5, <1>7, <1>8, <1>9 DEF WalkInv

LEMMA DecideKeepsWalks ==
    ASSUME PermitInv, WalkInv, NEW r \in Reviews, NEW i \in Instances, DecideAt(r, i)
    PROVE  WalkInv'
<1> DEFINE some == <<"audit">> \o If(Webhook, "decide")
           list == some \o If(callback_url[r] # NoValue, "callback")
<1>1. /\ decision[r] = "undecided" /\ job[<<r, "callback">>].state = "none"
  BY DEF DecideAt, PermitInv, StagesInOrder
<1>2. /\ todo' = [todo EXCEPT ![<<r, "decider">>] = list]
      /\ UNCHANGED <<callback_url, job, walk>>
  BY DEF DecideAt
<1>3. PICK d \in {"allow", "deny"} :
               /\ decision' = [decision EXCEPT ![r] = d]
               /\ decided' = [decided EXCEPT ![r] = d]
  BY DEF DecideAt
<1>4. callback_url[r] = NoValue => \A n \in 1 .. Len(list) : list[n] # "callback"
  <2> SUFFICES ASSUME callback_url[r] = NoValue PROVE \A n \in 1 .. Len(list) : list[n] # "callback"
    OBVIOUS
  <2>1. Agenda(<<"audit">>, {"audit"})
    BY DEF Agenda, Items
  <2>2. Agenda(some, {"audit"} \cup {"decide"})
    BY <2>1, ConcatIsAgenda DEF Items, Kinds
  <2>3. If(callback_url[r] # NoValue, "callback") = <<>>
    BY DEF If
  <2> HIDE DEF some
  <2>4. list = some
    BY <2>2, <2>3, EmptySeq, ConcatEmptySeq DEF Agenda
  <2> HIDE DEF list
  <2>5. \A n \in 1 .. Len(list) : list[n] \in {"audit"} \cup {"decide"}
    BY <2>2, <2>4 DEF Agenda
  <2> QED BY <2>5
<1> HIDE DEF list
<1>5. /\ DOMAIN todo = Handlers /\ DOMAIN decision = Reviews /\ DOMAIN walk = Reviews
      /\ <<r, "decider">> \in Handlers
  BY KindsOfJobs DEF PermitInv, PermitShape, WalkInv, WalksStand
<1>6. PlansHaveUrls'
  <2> SUFFICES ASSUME NEW s \in Reviews, NEW n \in 1 .. Len(todo'[<<s, "decider">>]),
                      todo'[<<s, "decider">>][n] = "callback"
               PROVE  callback_url[s] # NoValue
    BY <1>2 DEF PlansHaveUrls
  <2>1. CASE s = r
    <3>1. todo'[<<s, "decider">>] = list
      BY <1>2, <1>5, <2>1
    <3> QED BY <1>4, <2>1, <3>1
  <2>2. CASE s # r
    <3>1. todo'[<<s, "decider">>] = todo[<<s, "decider">>]
      BY <1>2, <1>5, <2>2, KindsOfJobs
    <3> QED BY <3>1 DEF WalkInv, PlansHaveUrls
  <2> QED BY <2>1, <2>2
<1>7. WalksStand'
  <2>1. \A s \in Reviews : Underway(s) => decision'[s] = decision[s]
    BY <1>1, <1>3, <1>5 DEF Underway
  <2> QED BY <1>2, <1>5, <2>1, OtherWalksStand DEF WalkInv
<1>8. DecidedIsTheRow'
  BY <1>3, <1>5 DEF WalkInv, DecidedIsTheRow
<1> QED BY <1>2, <1>6, <1>7, <1>8 DEF WalkInv, UrlsAreNormal

(* What a handler has left to do is a part of what it had to do.           *)
LEMMA ShorterPlansHaveUrls ==
    ASSUME PermitInv, WalkInv, NEW h \in Handlers, todo[h] # <<>>,
           NEW list \in {<<>>, Tail(todo[h])}, todo' = [todo EXCEPT ![h] = list],
           callback_url' = callback_url
    PROVE  PlansHaveUrls'
<1> SUFFICES ASSUME NEW s \in Reviews, NEW n \in 1 .. Len(todo'[<<s, "decider">>]),
                    todo'[<<s, "decider">>][n] = "callback"
             PROVE  callback_url[s] # NoValue
  BY DEF PlansHaveUrls
<1>1. DOMAIN todo = Handlers /\ <<s, "decider">> \in Handlers
  BY KindsOfJobs DEF PermitInv, PermitShape
<1>2. CASE h = <<s, "decider">>
  <2>1. todo'[<<s, "decider">>] = list
    BY <1>1, <1>2
  <2>2. list # <<>>
    BY <2>1, EmptySeq
  <2>3. list = Tail(todo[h])
    BY <2>2
  <2>4. Agenda(todo[h], Plan(h))
    BY DEF PermitInv, PlansAreAhead
  <2>5. n + 1 \in 1 .. Len(todo[h]) /\ Tail(todo[h])[n] = todo[h][n + 1]
    BY <2>1, <2>3, <2>4, TailIsAgenda
  <2>6. todo[<<s, "decider">>][n + 1] = "callback" /\ n + 1 \in 1 .. Len(todo[<<s, "decider">>])
    BY <1>2, <2>1, <2>3, <2>5
  <2> DEFINE m == n + 1
  <2>7. todo[<<s, "decider">>][m] = "callback" /\ m \in 1 .. Len(todo[<<s, "decider">>])
    BY <2>6
  <2> HIDE DEF m
  <2> QED BY <2>7 DEF WalkInv, PlansHaveUrls
<1>3. CASE h # <<s, "decider">>
  <2>1. todo'[<<s, "decider">>] = todo[<<s, "decider">>]
    BY <1>1, <1>3
  <2> QED BY <2>1 DEF WalkInv, PlansHaveUrls
<1> QED BY <1>2, <1>3

LEMMA AuditKeepsWalks ==
    ASSUME PermitInv, WalkInv, NEW h \in Handlers, AuditReturns(h)
    PROVE  WalkInv'
<1>1. PICK gone \in BOOLEAN : todo' = [todo EXCEPT ![h] = IF gone THEN <<>> ELSE Tail(todo[h])]
  BY DEF AuditReturns
<1>2. todo[h] # <<>> /\ UNCHANGED <<decision, decided, callback_url, job, walk>>
  BY DEF AuditReturns
<1> DEFINE list == IF gone THEN <<>> ELSE Tail(todo[h])
<1>3. list \in {<<>>, Tail(todo[h])} /\ todo' = [todo EXCEPT ![h] = list]
  BY <1>1
<1> HIDE DEF list
<1>4. PlansHaveUrls'
  BY <1>2, <1>3, ShorterPlansHaveUrls
<1>5. DOMAIN walk' = Reviews
  BY <1>2 DEF WalkInv, WalksStand
<1>6. WalksStand'
  BY <1>2, <1>5, OtherWalksStand DEF WalkInv
<1> QED BY <1>2, <1>4, <1>6 DEF WalkInv, UrlsAreNormal, DecidedIsTheRow

LEMMA NotifyKeepsWalks ==
    ASSUME PermitInv, WalkInv, NEW h \in Handlers, Notify(h)
    PROVE  WalkInv'
<1> DEFINE item == Head(todo[h])
           j == <<h[1], item>>
           i == handlerAt[h]
<1>1. /\ todo[h] # <<>> /\ todo' = [todo EXCEPT ![h] = Tail(todo[h])]
      /\ UNCHANGED <<decision, decided, callback_url>>
  BY DEF Notify
<1>2. Agenda(todo[h], Plan(h)) /\ item \in Kinds
  <2>1. Agenda(todo[h], Plan(h)) /\ item # "audit"
    BY DEF PermitInv, PlansAreAhead, Notify
  <2>2. item \in Items
    BY <1>1, <2>1, TailIsAgenda
  <2> QED BY <2>1, <2>2 DEF Items
<1>3. item \in Plan(h) /\ item = todo[h][1] /\ 1 \in 1 .. Len(todo[h])
  BY <1>1, <1>2, TailIsAgenda
<1>4. PlansHaveUrls' /\ UrlsAreNormal' /\ DecidedIsTheRow'
  BY <1>1, ShorterPlansHaveUrls DEF WalkInv, UrlsAreNormal, DecidedIsTheRow
<1>5. DOMAIN walk = Reviews /\ DOMAIN job = Jobs /\ j \in Jobs /\ h[1] \in Reviews
  BY <1>2, KindsOfJobs DEF WalkInv, WalksStand, PermitInv, PermitShape, Handlers
<1>6. PICK s \in {"running", "dropped"} :
          /\ job' = [job EXCEPT ![j] = [state |-> s, at |-> i]]
          /\ walk' = IF s = "dropped" \/ item # "callback" THEN walk
                     ELSE [walk EXCEPT ![h[1]] = [NoWalk EXCEPT
                              !.at = "validate", !.url = callback_url[h[1]],
                              !.told = decided[h[1]]]]
  BY DEF Notify
<1>7. CASE item # "callback"
  <2>1. \A r \in Reviews : <<r, "callback">> # j /\ <<r, "callback">> \in Jobs
    BY <1>7, KindsOfJobs DEF Kinds
  <2>2. \A r \in Reviews : job'[<<r, "callback">>] = job[<<r, "callback">>] /\ walk' = walk
    <3> HIDE DEF j, i, item
    <3> QED BY <1>5, <1>6, <1>7, <2>1
  <2>3. walk' = walk
    BY <1>6, <1>7
  <2>4. WalksStand'
    BY <1>1, <1>5, <2>2, <2>3, OtherWalksStand DEF WalkInv
  <2> QED BY <1>4, <2>4 DEF WalkInv
<1>8. CASE item = "callback"
  <2> DEFINE r == h[1]
             w == [NoWalk EXCEPT !.at = "validate", !.url = callback_url[r],
                                 !.told = decided[r]]
  <2>1. h = <<r, "decider">> /\ r \in Reviews
    <3>1. h[2] = "decider" /\ h = <<h[1], h[2]>> /\ r \in Reviews
      BY <1>3, <1>8 DEF Plan, Handlers
    <3> QED BY <3>1
  <2>2. decision[r] \in {"allow", "deny"}
    <3>1. decision[r] \in {"absent", "undecided"} => todo[<<r, "decider">>] = <<>>
      BY <2>1 DEF PermitInv, StagesInOrder
    <3>2. decision[r] \in {"absent", "undecided", "allow", "deny"}
      BY <2>1 DEF PermitInv, PermitShape
    <3> QED BY <1>1, <2>1, <3>1, <3>2
  <2>3. Normal(callback_url[r])
    <3>1. todo[<<r, "decider">>][1] = "callback" /\ 1 \in 1 .. Len(todo[<<r, "decider">>])
      BY <1>3, <1>8, <2>1
    <3>2. callback_url[r] # NoValue
      BY <2>1, <3>1 DEF WalkInv, PlansHaveUrls
    <3> QED BY <2>1, <3>2 DEF WalkInv, UrlsAreNormal
  <2>4. Stands(w, Allowlist[i], decision[r])
    <3>1. decided[r] = decision[r]
      BY <2>1, <2>2 DEF WalkInv, DecidedIsTheRow
    <3> QED BY <2>2, <2>3, <3>1, StartedWalkStands
  <2>5. j = <<r, "callback">>
    BY <1>8
  <2>6. ~Underway(r)
    <3>1. job[<<h[1], todo[h][1]>>].state = "none"
      BY <1>2, <1>3 DEF PermitInv, PlansAreAhead, Kinds
    <3> QED BY <1>3, <2>5, <3>1 DEF Underway
  <2> HIDE DEF w, r, i, j, item
  <2>7. \A q \in Reviews : q # r => job'[<<q, "callback">>] = job[<<q, "callback">>]
    <3>1. \A q \in Reviews : q # r => <<q, "callback">> # j
      BY <2>5
    <3>2. \A q \in Reviews : <<q, "callback">> \in Jobs
      BY KindsOfJobs DEF Kinds
    <3> QED BY <1>5, <1>6, <3>1, <3>2
  <2>8. job'[<<r, "callback">>] = [state |-> s, at |-> i]
    BY <1>5, <1>6, <2>5
  <2>9. CASE s = "dropped"
    <3>1. walk' = walk
      BY <1>6, <2>9
    <3>2. walk[r] = NoWalk
      BY <2>1, <2>6 DEF WalkInv, WalksStand
    <3>3. ~Underway(r)'
      BY <2>8, <2>9 DEF Underway
    <3>4. WalksStand'
      BY <1>1, <1>5, <2>7, <3>1, <3>2, <3>3, OtherWalksStand DEF WalkInv
    <3> QED BY <1>4, <3>4 DEF WalkInv
  <2>10. CASE s = "running"
    <3>1. walk' = [walk EXCEPT ![r] = w]
      BY <1>6, <1>8, <2>10 DEF w, r
    <3>2. walk'[r] = w /\ DOMAIN walk' = Reviews
          /\ \A q \in Reviews : q # r => walk'[q] = walk[q]
      BY <1>5, <2>1, <3>1
    <3>3. Underway(r)' /\ AllowlistOf(r)' = Allowlist[i]
      BY <2>8, <2>10 DEF Underway, AllowlistOf
    <3>4. WalkStands(r)'
      BY <1>1, <2>2, <2>4, <3>2, <3>3 DEF WalkStands
    <3>5. WalksStand'
      BY <1>1, <2>7, <3>2, <3>3, <3>4, OtherWalksStand DEF WalkInv
    <3> QED BY <1>4, <3>5 DEF WalkInv
  <2> QED BY <2>9, <2>10
<1> QED BY <1>7, <1>8

(* A step of one walk that goes on.                                        *)
LEMMA OneWalkGoesOn ==
    ASSUME WalkInv, NEW r \in Reviews, Underway(r), NEW x,
           Stands(x, AllowlistOf(r), decision[r]),
           walk' = [walk EXCEPT ![r] = x],
           UNCHANGED <<decision, decided, callback_url, todo, job>>
    PROVE  WalkInv'
<1>1. DOMAIN walk = Reviews /\ WalkStands(r)
  BY DEF WalkInv, WalksStand
<1>2. walk'[r] = x /\ DOMAIN walk' = Reviews /\ \A q \in Reviews : q # r => walk'[q] = walk[q]
  BY <1>1
<1>3. Underway(r)' /\ AllowlistOf(r)' = AllowlistOf(r)
  BY DEF Underway, AllowlistOf
<1>4. WalkStands(r)'
  BY <1>1, <1>2, <1>3 DEF WalkStands
<1>5. WalksStand'
  BY <1>2, <1>3, <1>4, OtherWalksStand DEF WalkInv
<1> QED BY <1>5 DEF WalkInv, UrlsAreNormal, PlansHaveUrls, DecidedIsTheRow

LEMMA WalkerStands ==
    ASSUME WalkInv, NEW r \in Reviews, NEW step, Walking(r, step)
    PROVE  /\ Underway(r) /\ Stands(walk[r], AllowlistOf(r), decision[r])
           /\ walk[r] \in WalkType /\ walk[r].at = step
           /\ DOMAIN walk = Reviews /\ <<r, "callback">> \in Jobs
<1>1. Underway(r) /\ walk[r].at = step
  BY DEF Walking, Underway
<1>2. Stands(walk[r], AllowlistOf(r), decision[r]) /\ DOMAIN walk = Reviews
  BY <1>1 DEF WalkInv, WalksStand, WalkStands
<1> QED BY <1>1, <1>2, KindsOfJobs DEF Stands, Kinds

LEMMA ValidateKeepsWalks ==
    ASSUME PermitInv, WalkInv, NEW r \in Reviews, Validate(r)
    PROVE  WalkInv'
<1>1. Walking(r, "validate") /\ UNCHANGED <<decision, decided, callback_url, todo>>
  BY DEF Validate
<1>2. CASE Over(<<r, "callback">>)
  BY <1>1, <1>2, WalkerStands, OverKeepsWalks
<1>3. CASE /\ Allows(AllowlistOf(r), walk[r].url)
           /\ walk' = [walk EXCEPT ![r].at = "connect",
                                   ![r].seen = {Normalized(walk[r].url, FALSE)}]
           /\ UNCHANGED <<job, free>>
  <2> DEFINE x == [walk[r] EXCEPT !.at = "connect",
                                  !.seen = {Normalized(walk[r].url, FALSE)}]
  <2>1. Stands(x, AllowlistOf(r), decision[r])
    BY <1>1, <1>3, WalkerStands, ValidatedWalkStands
  <2>2. walk' = [walk EXCEPT ![r] = x]
    BY <1>3
  <2> HIDE DEF x
  <2> QED BY <1>1, <1>3, <2>1, <2>2, WalkerStands, OneWalkGoesOn
<1> QED BY <1>2, <1>3 DEF Validate

LEMMA AnswersAreAddresses ==
    ASSUME NEW u \in URL, NEW answers \in AnswersFor(u)
    PROVE  answers \in Seq(IPv4 \cup IPv6)
<1>1. CASE u.host.kind = "address"
  <2>1. answers = <<u.host.address>>
    BY <1>1 DEF AnswersFor
  <2>2. u.host \in Domain \cup Literal
    BY DEF URL
  <2>3. u.host.address \in IPv4
    BY <1>1, <2>2 DEF Domain, Literal
  <2> QED BY <2>1, <2>3
<1>2. CASE u.host.kind # "address"
  BY <1>2, DeliveryAssumption DEF AnswersFor
<1> QED BY <1>1, <1>2

LEMMA AcceptedArePublic ==
    ASSUME NEW answers \in Seq(IPv4 \cup IPv6), AnswersAccepted(answers)
    PROVE  Unique(answers) \in SUBSET (IPv4 \cup IPv6) /\ AllPublic(Unique(answers))
<1>1. Len(answers) \in Nat \ {0} /\ DOMAIN answers = 1 .. Len(answers)
  <2>1. Len(answers) \in Nat /\ DOMAIN answers = 1 .. Len(answers)
    BY LenProperties
  <2>2. Len(answers) # 0
    BY DEF AnswersAccepted, MaximumAnswers
  <2> QED BY <2>1, <2>2
<1>2. \A n \in 1 .. Len(answers) : answers[n] \in IPv4 \cup IPv6 /\ IsPublic(answers[n])
  BY <1>1, ElementOfSeq DEF AnswersAccepted
<1>3. 1 \in 1 .. Len(answers)
  BY <1>1
<1> QED BY <1>1, <1>2, <1>3 DEF Unique, AllPublic

LEMMA ConnectKeepsWalks ==
    ASSUME PermitInv, WalkInv, NEW r \in Reviews, Connect(r)
    PROVE  WalkInv'
<1>1. Walking(r, "connect") /\ UNCHANGED <<decision, decided, callback_url, todo>>
  BY DEF Connect
<1>2. CASE Over(<<r, "callback">>)
  BY <1>1, <1>2, WalkerStands, OverKeepsWalks
<1>3. ASSUME NEW answers \in AnswersFor(walk[r].url), AnswersAccepted(answers),
             walk' = [walk EXCEPT ![r].at = "await", ![r].visits =
                         Append(walk[r].visits,
                                Visit(walk[r], Unique(answers), Selected(Unique(answers))))],
             UNCHANGED <<job, free>>
      PROVE  WalkInv'
  <2> DEFINE w == walk[r]
             S == Unique(answers)
             x == [w EXCEPT !.at = "await",
                            !.visits = Append(w.visits, Visit(w, S, Selected(S)))]
  <2>1. Stands(w, AllowlistOf(r), decision[r]) /\ w.at = "connect" /\ w \in WalkType
    BY <1>1, WalkerStands
  <2>2. S \in SUBSET (IPv4 \cup IPv6) /\ AllPublic(S)
    <3>1. w.url \in URL
      BY <2>1 DEF WalkType
    <3>2. answers \in Seq(IPv4 \cup IPv6)
      BY <3>1, AnswersAreAddresses
    <3> QED BY <1>3, <3>2, AcceptedArePublic
  <2>3. walk' = [walk EXCEPT ![r] = x]
    BY <1>3
  <2> HIDE DEF w, S
  <2>4. Stands(x, AllowlistOf(r), decision[r])
    BY <1>3, <2>1, <2>2, ConnectedWalkStands
  <2> HIDE DEF x
  <2> QED BY <1>1, <1>3, <2>3, <2>4, WalkerStands, OneWalkGoesOn
<1> QED BY <1>2, <1>3 DEF Connect

LEMMA RedirectKeepsWalks ==
    ASSUME PermitInv, WalkInv, NEW r \in Reviews, Redirect(r)
    PROVE  WalkInv'
<1>1. Walking(r, "await") /\ UNCHANGED <<decision, decided, callback_url, todo>>
  BY DEF Redirect
<1>2. /\ Underway(r) /\ Stands(walk[r], AllowlistOf(r), decision[r])
      /\ walk[r] \in WalkType /\ walk[r].at = "await"
      /\ DOMAIN walk = Reviews /\ <<r, "callback">> \in Jobs
  BY <1>1, WalkerStands
<1>3. CASE Over(<<r, "callback">>)
  BY <1>1, <1>2, <1>3, OverKeepsWalks
<1>4. ASSUME NEW u \in Locations, NEW status \in {303, 307}, RedirectAllowed(r, u),
             walk' = [walk EXCEPT ![r] = Redirected(r, u, status)],
             UNCHANGED <<job, free>>
      PROVE  WalkInv'
  <2>1. PICK w : w = walk[r]
    OBVIOUS
  <2>2. Stands(w, AllowlistOf(r), decision[r]) /\ w.at = "await" /\ w \in WalkType
    BY <1>2, <2>1
  <2>3. PICK t : t = Normalized(u, FALSE)
    OBVIOUS
  <2>4. /\ w.hops < MaxHops /\ Allows(AllowlistOf(r), u) /\ t \notin w.seen
        /\ ~(w.url.scheme = "https" /\ u.scheme = "http")
    BY <1>4, <2>1, <2>3 DEF RedirectAllowed
  <2>5. Normal(t) /\ t \in URL /\ t.scheme = u.scheme /\ Allows(AllowlistOf(r), t)
    <3>1. u \in URL
      BY DeliveryAssumption
    <3> QED BY <2>3, <2>4, <3>1, NormalizedIsNormal, AllowedInNormalForm DEF Normal
  <2>6. w.url.scheme = "https" => t.scheme = "https"
    <3>1. u.scheme \in {"http", "https"}
      BY <2>4 DEF Allows, Normalizes
    <3> QED BY <2>4, <2>5, <3>1
  <2>7. PICK told : told = BodyAfter(r, status)
    OBVIOUS
  <2>8. /\ told \in {NoValue, w.told} /\ told \in Told
        /\ status = 303 => told = NoValue
    BY <2>1, <2>2, <2>7 DEF BodyAfter, WalkType, Told
  <2>9. PICK seen : seen = w.seen \cup {t}
    OBVIOUS
  <2>10. PICK hops : hops = w.hops + 1
    OBVIOUS
  <2>11. seen \in SUBSET URL /\ hops \in Nat /\ w.seen \subseteq seen /\ t \in seen
    BY <2>2, <2>5, <2>9, <2>10 DEF WalkType
  <2>12. PICK x : x = [w EXCEPT !.at = "connect", !.url = t, !.seen = seen, !.hops = hops,
                                !.told = told, !.via = status]
    OBVIOUS
  <2>13. walk' = [walk EXCEPT ![r] = x]
    BY <1>4, <2>1, <2>3, <2>7, <2>9, <2>10, <2>12, Zenon DEF Redirected
  <2>14. /\ x \in WalkType /\ x.at = "connect" /\ x.url = t /\ x.seen = seen
         /\ x.hops = hops /\ x.told = told /\ x.via = status /\ x.visits = w.visits
    <3>1. /\ w \in WalkType /\ t \in URL /\ seen \in SUBSET URL /\ hops \in Nat
          /\ told \in Told /\ status \in {0, 303, 307}
      BY <2>2, <2>5, <2>8, <2>11
    <3> QED BY <2>12, <3>1 DEF WalkType
  <2>15. /\ x.hops = w.hops + 1 /\ Normal(x.url) /\ Allows(AllowlistOf(r), x.url)
         /\ x.url \notin w.seen /\ x.url \in x.seen /\ w.seen \subseteq x.seen
         /\ w.url.scheme = "https" => x.url.scheme = "https"
         /\ x.told \in {NoValue, w.told}
         /\ x.via = 303 => x.told = NoValue
    BY <2>4, <2>5, <2>6, <2>8, <2>10, <2>11, <2>14
  <2>16. Stands(x, AllowlistOf(r), decision[r])
    BY <2>2, <2>4, <2>14, <2>15, RedirectedWalkStands
  <2> QED BY <1>1, <1>2, <1>4, <2>13, <2>16, OneWalkGoesOn
<1>5. PICK u \in Locations, status \in {303, 307} :
          \/ /\ RedirectAllowed(r, u)
             /\ walk' = [walk EXCEPT ![r] = Redirected(r, u, status)]
             /\ UNCHANGED <<job, free>>
          \/ Over(<<r, "callback">>)
  BY DEF Redirect
<1> QED BY <1>3, <1>4, <1>5

LEMMA CrashKeepsWalks ==
    ASSUME PermitInv, WalkInv, NEW i \in Instances, Crash(i)
    PROVE  WalkInv'
<1>1. /\ \A j \in Jobs : IF job[j].state = "running" /\ job[j].at = i
                         THEN job'[j] = [job[j] EXCEPT !.state = "killed"]
                         ELSE job'[j] = job[j]
      /\ walk' = [r \in Reviews |->
                    IF job[<<r, "callback">>].state = "running" /\ job[<<r, "callback">>].at = i
                    THEN NoWalk ELSE walk[r]]
      /\ todo' = [h \in Handlers |-> IF handlerAt[h] = i THEN <<>> ELSE todo[h]]
      /\ UNCHANGED <<decision, decided, callback_url>>
  BY KindsOfJobs DEF Crash, Kinds
<1>2. PlansHaveUrls'
  <2> SUFFICES ASSUME NEW s \in Reviews, NEW n \in 1 .. Len(todo'[<<s, "decider">>]),
                      todo'[<<s, "decider">>][n] = "callback"
               PROVE  callback_url[s] # NoValue
    BY <1>1 DEF PlansHaveUrls
  <2>1. todo'[<<s, "decider">>] \in {<<>>, todo[<<s, "decider">>]}
    BY <1>1, KindsOfJobs
  <2>2. todo'[<<s, "decider">>] # <<>>
    BY EmptySeq
  <2>3. todo'[<<s, "decider">>] = todo[<<s, "decider">>]
    BY <2>1, <2>2
  <2> QED BY <2>3 DEF WalkInv, PlansHaveUrls
<1>3. \A r \in Reviews :
          \/ walk'[r] = walk[r] /\ job'[<<r, "callback">>] = job[<<r, "callback">>]
          \/ walk'[r] = NoWalk /\ ~Underway(r)'
  <2> SUFFICES ASSUME NEW r \in Reviews
               PROVE  \/ walk'[r] = walk[r] /\ job'[<<r, "callback">>] = job[<<r, "callback">>]
                      \/ walk'[r] = NoWalk /\ ~Underway(r)'
    OBVIOUS
  <2> DEFINE j == <<r, "callback">>
  <2>1. j \in Jobs
    BY KindsOfJobs DEF Kinds
  <2>2. job[j] \in [state : {"none", "dropped", "running", "ended", "killed"},
                    at : Instances \cup {NoValue}]
    BY <2>1 DEF PermitInv, PermitShape
  <2>3. CASE job[j].state = "running" /\ job[j].at = i
    <3>1. job'[j] = [job[j] EXCEPT !.state = "killed"]
      BY <1>1, <2>1, <2>3
    <3>2. job'[j].state = "killed"
      BY <2>2, <3>1
    <3>3. walk'[r] = NoWalk
      BY <1>1, <2>3
    <3> QED BY <3>2, <3>3 DEF Underway
  <2>4. CASE ~(job[j].state = "running" /\ job[j].at = i)
    <3>1. job'[j] = job[j]
      BY <1>1, <2>1, <2>4
    <3>2. walk'[r] = walk[r]
      BY <1>1, <2>4
    <3> QED BY <3>1, <3>2
  <2> QED BY <2>3, <2>4
<1>4. DOMAIN walk' = Reviews
  BY <1>1
<1>5. WalksStand'
  BY <1>1, <1>3, <1>4, OtherWalksStand DEF WalkInv
<1> QED BY <1>1, <1>2, <1>5 DEF WalkInv, UrlsAreNormal, DecidedIsTheRow

LEMMA NextKeepsWalkInv == PermitInv /\ WalkInv /\ [Next]_vars => WalkInv'
<1> SUFFICES ASSUME PermitInv, WalkInv, [Next]_vars PROVE WalkInv'
  OBVIOUS
<1>1. ASSUME NEW r \in Reviews, NEW i \in Instances, ParkAt(r, i) \/ DecideAt(r, i)
      PROVE  WalkInv'
  BY <1>1, ParkKeepsWalks, DecideKeepsWalks
<1>2. ASSUME NEW h \in Handlers, AuditReturns(h) \/ Notify(h) PROVE WalkInv'
  BY <1>2, AuditKeepsWalks, NotifyKeepsWalks
<1>3. ASSUME NEW j \in Jobs, Ends(j) PROVE WalkInv'
  BY <1>3, OverKeepsWalks DEF Ends
<1>4. ASSUME NEW r \in Reviews, Validate(r) \/ Connect(r) \/ Redirect(r) PROVE WalkInv'
  BY <1>4, ValidateKeepsWalks, ConnectKeepsWalks, RedirectKeepsWalks
<1>5. CASE UNCHANGED <<decision, decided, callback_url, todo, job, walk>>
  <2>1. DOMAIN walk' = Reviews
    BY <1>5 DEF WalkInv, WalksStand
  <2>2. WalksStand'
    BY <1>5, <2>1, OtherWalksStand DEF WalkInv
  <2> QED BY <1>5, <2>2 DEF WalkInv, UrlsAreNormal, PlansHaveUrls, DecidedIsTheRow
<1>6. ASSUME NEW i \in Instances, Start(i) \/ Crash(i) PROVE WalkInv'
  BY <1>5, <1>6, CrashKeepsWalks DEF Start
<1>7. CASE UNCHANGED vars
  BY <1>5, <1>7 DEF vars
<1> QED BY <1>1, <1>2, <1>3, <1>4, <1>6, <1>7 DEF Next

LEMMA WalkInvariant == Spec => [](PermitInv /\ WalkInv)
BY InitPermitInv, NextKeepsPermitInv, InitWalkInv, NextKeepsWalkInv, PTL DEF Spec

------------------------------------------------------------------------------
(* Every variable keeps its type: no counter of permits runs under or over *)
(* (proxy.rs:88-107), and no walk has more hops than it may.               *)
THEOREM DeliveryTypes == Spec => []TypeOK
<1>1. PermitInv /\ WalkInv => TypeOK
  <2> SUFFICES ASSUME PermitInv, WalkInv PROVE TypeOK
    OBVIOUS
  <2>1. ASSUME NEW r \in Reviews PROVE walk[r].at \in Steps /\ walk[r].hops \in 0 .. MaxHops
    <3>1. CASE Underway(r)
      <4>1. walk[r] \in WalkType /\ TargetStands(walk[r], AllowlistOf(r))
        BY <3>1 DEF WalkInv, WalksStand, WalkStands, Stands
      <4>2. walk[r].at \in {"validate", "connect", "await"}
        BY <4>1 DEF WalkType
      <4> QED BY <4>1, <4>2 DEF TargetStands, Steps
    <3>2. CASE ~Underway(r)
      <4>1. walk[r] = NoWalk
        BY <3>2 DEF WalkInv, WalksStand
      <4>2. 0 \in 0 .. MaxHops
        BY DeliveryAssumption
      <4> QED BY <4>1, <4>2 DEF NoWalk, Steps
    <3> QED BY <3>1, <3>2
  <2> QED BY <2>1 DEF TypeOK, PermitInv, PermitShape, WalkInv, UrlsAreNormal,
                      DecidedIsTheRow, Items
<1> QED BY <1>1, WalkInvariant, PTL

(* The requests of a walk are those of a walk that stands, or there are    *)
(* none.                                                                   *)
LEMMA VisitsOfWalks ==
    ASSUME WalkInv, NEW r \in Reviews
    PROVE  /\ Len(walk[r].visits) \in Nat
           /\ DOMAIN walk[r].visits = 1 .. Len(walk[r].visits)
           /\ \/ Len(walk[r].visits) = 0
              \/ Stands(walk[r], AllowlistOf(r), decision[r]) /\ Underway(r)
<1>1. CASE Underway(r)
  <2>1. Stands(walk[r], AllowlistOf(r), decision[r])
    BY <1>1 DEF WalkInv, WalksStand, WalkStands
  <2>2. walk[r].visits \in Seq(VisitType)
    BY <2>1 DEF Stands, WalkType
  <2> QED BY <1>1, <2>1, <2>2, LenProperties
<1>2. CASE ~Underway(r)
  <2>1. walk[r].visits = <<>>
    BY <1>2 DEF WalkInv, WalksStand, NoWalk
  <2>2. Len(<<>>) = 0 /\ DOMAIN <<>> = 1 .. 0
    BY EmptySeq, LenProperties
  <2> QED BY <2>1, <2>2
<1> QED BY <1>1, <1>2

(* README.md:226-227: the callback POSTs the decision: whatever others try *)
(* and wherever the walk leads, it tells the decision that stands, and     *)
(* nothing after a 303.                                                    *)
THEOREM CallbackIsTrue == Spec => []CallbackTellsDecision
<1>1. WalkInv => CallbackTellsDecision
  <2> SUFFICES ASSUME WalkInv, NEW r \in Reviews
               PROVE  /\ \A v \in Visits(r) : v.told \in {NoValue, decision[r]}
                      /\ \A m, n \in DOMAIN walk[r].visits :
                             m <= n /\ walk[r].visits[m].via = 303
                             => walk[r].visits[n].told = NoValue
    BY DEF CallbackTellsDecision
  <2>1. CASE Len(walk[r].visits) = 0
    BY <2>1, VisitsOfWalks DEF Visits
  <2>2. CASE Stands(walk[r], AllowlistOf(r), decision[r])
    BY <2>2, VisitsOfWalks DEF Visits, Stands, BodiesInOrder
  <2> QED BY <2>1, <2>2, VisitsOfWalks
<1> QED BY <1>1, WalkInvariant, PTL

(* README.md:230-231: redirects are allowlisted and never downgraded,      *)
(* whatever the servers answer and however many redirects there are.       *)
THEOREM HopsAreAllowed == Spec => []HopsStayAllowed
<1>1. PermitInv /\ WalkInv => HopsStayAllowed
  <2> SUFFICES ASSUME PermitInv, WalkInv, NEW r \in Reviews
               PROVE  /\ \A v \in Visits(r) :
                           /\ ~v.url.credentials /\ ~v.url.fragment
                           /\ \E e \in AllowlistOf(r) :
                                /\ <<e.scheme, e.port, e.host.kind>>
                                     = <<v.url.scheme, v.url.port, v.url.host.kind>>
                                /\ \/ /\ e.host.kind = "domain"
                                      /\ e.host.labels = v.url.host.labels
                                   \/ /\ e.host.kind = "address"
                                      /\ e.host.address = v.url.host.address
                                /\ \A n \in DOMAIN e.path :
                                     n \in DOMAIN v.url.path /\ v.url.path[n] = e.path[n]
                      /\ \A m, n \in DOMAIN walk[r].visits :
                             m < n /\ walk[r].visits[m].url.scheme = "https"
                             => walk[r].visits[n].url.scheme = "https"
    BY DEF HopsStayAllowed
  <2>1. CASE Len(walk[r].visits) = 0
    BY <2>1, VisitsOfWalks DEF Visits
  <2>2. CASE Stands(walk[r], AllowlistOf(r), decision[r]) /\ Underway(r)
    <3>1. TargetsInOrder(walk[r], AllowlistOf(r))
      BY <2>2 DEF Stands
    <3>2. AllowlistOf(r) \in SUBSET URL
      <4>1. job[<<r, "callback">>].at \in Instances
        BY <2>2, KindsOfJobs DEF PermitInv, RunningAreUp, Underway, Kinds
      <4> QED BY <4>1, DeliveryAssumption DEF AllowlistOf
    <3>3. ASSUME NEW v \in Visits(r) PROVE Normal(v.url) /\ Allows(AllowlistOf(r), v.url)
      BY <3>1, VisitsOfWalks DEF Visits, TargetsInOrder
    <3>4. \A m, n \in DOMAIN walk[r].visits :
              m < n /\ walk[r].visits[m].url.scheme = "https"
              => walk[r].visits[n].url.scheme = "https"
      BY <3>1, VisitsOfWalks DEF TargetsInOrder
    <3> QED BY <3>2, <3>3, <3>4, AllowedIsBelow
  <2> QED BY <2>1, <2>2, VisitsOfWalks
<1> QED BY <1>1, WalkInvariant, PTL

(* README.md:229-231: at most MaxHops redirects are followed, and no       *)
(* target is asked twice.                                                  *)
THEOREM WalksEnd == Spec => []WalkIsBounded
<1>1. WalkInv => WalkIsBounded
  <2> SUFFICES ASSUME WalkInv, NEW r \in Reviews
               PROVE  /\ Len(walk[r].visits) <= MaxHops + 1
                      /\ \A m, n \in DOMAIN walk[r].visits :
                             walk[r].visits[m].url = walk[r].visits[n].url => m = n
    BY DEF WalkIsBounded
  <2>1. MaxHops \in Nat
    BY DeliveryAssumption
  <2>2. CASE Len(walk[r].visits) = 0
    BY <2>1, <2>2, VisitsOfWalks
  <2>3. CASE Stands(walk[r], AllowlistOf(r), decision[r])
    <3>1. Len(walk[r].visits) <= MaxHops + 1
      <4>1. walk[r].at \in {"validate", "connect", "await"} /\ walk[r].hops \in 0 .. MaxHops
        BY <2>3 DEF Stands, WalkType, TargetStands
      <4>2. Len(walk[r].visits) \in {0, walk[r].hops, walk[r].hops + 1}
        BY <2>3, <4>1, EmptySeq DEF Stands, TargetStands
      <4> QED BY <2>1, <4>1, <4>2
    <3> QED BY <2>3, <3>1, VisitsOfWalks DEF Stands, TargetsInOrder
  <2> QED BY <2>2, <2>3, VisitsOfWalks
<1> QED BY <1>1, WalkInvariant, PTL

------------------------------------------------------------------------------
(* Addresses: what is public is not inward, and of the answers there is    *)
(* always one that comes before the others.                                *)

LEMMA AddressesV4 ==
    ASSUME NEW x \in IPv4
    PROVE  /\ Len(x) = 4 /\ DOMAIN x = 1 .. 4
           /\ x[1] \in Octets /\ x[2] \in Octets /\ x[3] \in Octets /\ x[4] \in Octets
<1>1. x \in [1 .. 4 -> Octets]
  BY DEF IPv4
<1>2. DOMAIN x = 1 .. 4 /\ \A n \in 1 .. 4 : x[n] \in Octets
  BY <1>1
<1>3. Len(x) = 4
  BY <1>1
<1> QED BY <1>2, <1>3

LEMMA AddressesV6 ==
    ASSUME NEW x \in IPv6
    PROVE  /\ Len(x) = 8 /\ DOMAIN x = 1 .. 8
           /\ \A n \in 1 .. 8 : x[n] \in Words
<1>1. x \in [1 .. 8 -> Words]
  BY DEF IPv6
<1>2. DOMAIN x = 1 .. 8 /\ \A n \in 1 .. 8 : x[n] \in Words
  BY <1>1
<1>3. Len(x) = 8
  BY <1>1
<1> QED BY <1>2, <1>3

LEMMA BlockOfFour ==
    ASSUME NEW A, NEW B, NEW C, NEW D, NEW x, InBlock(x, <<A, B, C, D>>)
    PROVE  Len(x) = 4 /\ x[1] \in A /\ x[2] \in B /\ x[3] \in C
BY DEF InBlock

LEMMA PublicIPv4IsOutside ==
    ASSUME NEW x \in IPv4, IsPublicIPv4(x)
    PROVE  ~Inward(x)
<1>1. /\ Len(x) = 4 /\ x[1] \in 0 .. 255 /\ x[2] \in 0 .. 255 /\ x[3] \in 0 .. 255
  BY AddressesV4 DEF Octets
<1>2. ~InwardIPv4(x)
  <2>1. ~InBlock(x, <<{0, 10, 127}, Octets, Octets, Octets>>)
    BY BlockOfFour DEF IsPublicIPv4
  <2>2. ~InBlock(x, <<{172}, 16 .. 31, Octets, Octets>>)
    BY BlockOfFour DEF IsPublicIPv4
  <2>3. ~InBlock(x, <<{192}, {168}, Octets, Octets>>)
    BY BlockOfFour DEF IsPublicIPv4
  <2>4. ~InBlock(x, <<{169}, {254}, Octets, Octets>>)
    BY BlockOfFour DEF IsPublicIPv4
  <2>5. ~InBlock(x, <<{100}, 64 .. 127, Octets, Octets>>)
    BY BlockOfFour DEF IsPublicIPv4
  <2>6. ~InBlock(x, <<{192}, {0}, {2}, Octets>>)
    BY BlockOfFour DEF IsPublicIPv4
  <2>7. ~InBlock(x, <<{198}, {51}, {100}, Octets>>)
    BY BlockOfFour DEF IsPublicIPv4
  <2>8. ~InBlock(x, <<{203}, {0}, {113}, Octets>>)
    BY BlockOfFour DEF IsPublicIPv4
  <2>9. ~InBlock(x, <<{198}, {18, 19}, Octets, Octets>>)
    BY BlockOfFour DEF IsPublicIPv4
  <2>10. ~InBlock(x, <<224 .. 255, Octets, Octets, Octets>>)
    BY <1>1, BlockOfFour DEF IsPublicIPv4
  <2> QED BY <2>1, <2>2, <2>3, <2>4, <2>5, <2>6, <2>7, <2>8, <2>9, <2>10, Zenon DEF InwardIPv4
<1>3. ~InBlock(x, Examples)
  BY <1>1 DEF InBlock, Examples
<1> QED BY <1>1, <1>2, <1>3 DEF Inward

LEMMA HalvesOfWord ==
    ASSUME NEW w \in Words
    PROVE  w \div 256 \in Octets /\ w % 256 \in Octets
<1>1. w \in Nat /\ w <= 65535
  BY DEF Words
<1>2. w \div 256 \in Nat /\ w \div 256 <= 255 /\ w % 256 \in 0 .. 255
  BY <1>1
<1> QED BY <1>2 DEF Octets

LEMMA UnicastWord == ASSUME NEW w \in Words, w \div 8192 = 1 PROVE w \in 8192 .. 16383
<1>1. w \in Nat
  BY DEF Words
<1>2. 8192 <= w /\ w <= 16383
  BY <1>1
<1> QED BY <1>1, <1>2

LEMMA PublicIPv6IsOutside ==
    ASSUME NEW x \in IPv6, IsPublicIPv6(x)
    PROVE  ~Inward(x) /\ (IsMapped(x) => ~Inward(MappedIPv4(x)))
<1>1. /\ Len(x) = 8 /\ x[1] \in Words /\ x[2] \in Words /\ x[3] \in Words /\ x[4] \in Words
      /\ x[5] \in Words /\ x[6] \in Words /\ x[7] \in Words /\ x[8] \in Words
  BY AddressesV6
<1>2. ~InwardIPv4(x)
  BY <1>1, BlockOfFour DEF InwardIPv4
<1>3. CASE IsMapped(x)
  <2>1. x[1] = 0
    BY <1>3 DEF IsMapped
  <2>2. ~InBlock(x, Examples)
    BY <2>1 DEF InBlock, Examples
  <2>3. ~Inward(MappedIPv4(x))
    <3>1. /\ x[7] \div 256 \in Octets /\ x[7] % 256 \in Octets
          /\ x[8] \div 256 \in Octets /\ x[8] % 256 \in Octets
      BY <1>1, HalvesOfWord
    <3>4. MappedIPv4(x) \in IPv4
      BY <3>1 DEF MappedIPv4, IPv4
    <3>5. IsPublicIPv4(MappedIPv4(x))
      BY <1>3 DEF IsPublicIPv6
    <3> QED BY <3>4, <3>5, PublicIPv4IsOutside
  <2> QED BY <1>2, <1>3, <2>2, <2>3 DEF Inward
<1>4. CASE ~IsMapped(x)
  <2>1. x[1] \div 8192 = 1 /\ ~(x[1] = 8193 /\ x[2] = 3512)
    BY <1>4 DEF IsPublicIPv6
  <2>2. x[1] \in 8192 .. 16383
    BY <1>1, <2>1, UnicastWord
  <2>3. InBlock(x, Unicast)
    BY <1>1, <2>2 DEF InBlock, Unicast
  <2>4. ~InBlock(x, Examples)
    BY <2>1 DEF InBlock, Examples
  <2> QED BY <1>2, <1>4, <2>3, <2>4 DEF Inward
<1> QED BY <1>3, <1>4

(* The naturals are well-ordered.                                          *)
Below == {p \in Nat \X Nat : p[1] < p[2]}

LEMMA LeastNatural ==
    ASSUME NEW T \in SUBSET Nat, T # {}
    PROVE  \E x \in T : \A y \in T : x <= y
<1>1. IsWellFoundedOn(Below, Nat)
  BY NatLessThanWellFounded DEF OpToRel, Below
<1>2. PICK x \in T : \A y \in T : <<y, x>> \notin Below
  BY <1>1, WFMin, Zenon
<1>3. \A y \in T : x <= y
  <2> TAKE y \in T
  <2>1. x \in Nat /\ y \in Nat
    OBVIOUS
  <2>2. <<y, x>> \notin Below
    BY <1>2
  <2>3. y < x => <<y, x>> \in Below
    BY <2>1 DEF Below
  <2> QED BY <2>1, <2>2, <2>3
<1> QED BY <1>3

(* The members of T that are least at place n.                             *)
Least(T, n) == {x \in T : \A y \in T : x[n] <= y[n]}

LEMMA LeastExists ==
    ASSUME NEW T, T # {}, NEW n, \A x \in T : x[n] \in Nat
    PROVE  Least(T, n) # {} /\ Least(T, n) \subseteq T
<1> DEFINE values == {x[n] : x \in T}
<1>1. values \in SUBSET Nat /\ values # {}
  OBVIOUS
<1>2. PICK v \in values : \A u \in values : v <= u
  BY <1>1, LeastNatural, Zenon
<1>3. PICK x \in T : v = x[n]
  OBVIOUS
<1>4. \A y \in T : x[n] <= y[n]
  BY <1>2, <1>3
<1> QED BY <1>4 DEF Least

LEMMA LeastOrEqual ==
    ASSUME NEW T, NEW n, \A x \in T : x[n] \in Nat, NEW x \in Least(T, n), NEW y \in T
    PROVE  x[n] < y[n] \/ (x[n] = y[n] /\ y \in Least(T, n))
BY DEF Least

LEMMA LeastOfFour ==
    ASSUME NEW T \in SUBSET IPv4, T # {}
    PROVE  \E x \in T : \A y \in T \ {x} : Before(x, y)
<1> DEFINE T1 == Least(T, 1)
           T2 == Least(T1, 2)
           T3 == Least(T2, 3)
           T4 == Least(T3, 4)
<1>1. \A x \in T, n \in 1 .. 4 : x[n] \in Nat
  BY DEF IPv4, Octets
<1>2. T1 # {} /\ T1 \subseteq T
  BY <1>1, LeastExists
<1>3. T2 # {} /\ T2 \subseteq T1
  BY <1>1, <1>2, LeastExists
<1>4. T3 # {} /\ T3 \subseteq T2
  BY <1>1, <1>2, <1>3, LeastExists
<1>5. T4 # {} /\ T4 \subseteq T3
  BY <1>1, <1>2, <1>3, <1>4, LeastExists
<1>6. PICK x : x \in T4
  BY <1>5
<1>7. x \in T /\ x \in T1 /\ x \in T2 /\ x \in T3
  BY <1>2, <1>3, <1>4, <1>5, <1>6
<1>8. ASSUME NEW y \in T \ {x} PROVE Before(x, y)
  <2>1. x[1] < y[1] \/ (x[1] = y[1] /\ y \in T1)
    BY <1>1, <1>7, LeastOrEqual
  <2>2. y \in T1 => x[2] < y[2] \/ (x[2] = y[2] /\ y \in T2)
    BY <1>1, <1>2, <1>7, LeastOrEqual
  <2>3. y \in T2 => x[3] < y[3] \/ (x[3] = y[3] /\ y \in T3)
    BY <1>1, <1>2, <1>3, <1>7, LeastOrEqual
  <2>4. y \in T3 => x[4] < y[4] \/ x[4] = y[4]
    BY <1>1, <1>2, <1>3, <1>4, <1>6, LeastOrEqual
  <2> HIDE DEF T1, T2, T3, T4
  <2>5. \E n \in 1 .. 4 : x[n] # y[n]
    <3>1. x \in [1 .. 4 -> Octets] /\ y \in [1 .. 4 -> Octets]
      BY <1>7 DEF IPv4
    <3> QED BY <3>1
  <2>6. x[1] # y[1] \/ x[2] # y[2] \/ x[3] # y[3] \/ x[4] # y[4]
    BY <2>5
  <2>7. \E n \in 1 .. 4 : x[n] < y[n] /\ \A m \in 1 .. n - 1 : x[m] = y[m]
    BY <2>1, <2>2, <2>3, <2>4, <2>6
  <2>8. Len(x) = 4 /\ DOMAIN x = 1 .. 4 /\ Len(y) = 4
    BY <1>7, AddressesV4
  <2> QED BY <2>7, <2>8 DEF Before
<1> QED BY <1>7, <1>8
LEMMA WordsAreNatural == \A w \in Words : w \in Nat
BY DEF Words

LEMMA LeastOfEight ==
    ASSUME NEW T \in SUBSET IPv6, T # {}
    PROVE  \E x \in T : \A y \in T \ {x} : Before(x, y)
<1> DEFINE T1 == Least(T, 1)
           T2 == Least(T1, 2)
           T3 == Least(T2, 3)
           T4 == Least(T3, 4)
           T5 == Least(T4, 5)
           T6 == Least(T5, 6)
           T7 == Least(T6, 7)
           T8 == Least(T7, 8)
<1>1. \A x \in T, n \in 1 .. 8 : x[n] \in Nat
  BY AddressesV6, WordsAreNatural
<1>2. T1 # {} /\ T1 \subseteq T
  BY <1>1, LeastExists
<1>3. T2 # {} /\ T2 \subseteq T1 /\ T2 \subseteq T
  BY <1>1, <1>2, LeastExists
<1>4. T3 # {} /\ T3 \subseteq T2 /\ T3 \subseteq T
  BY <1>1, <1>3, LeastExists
<1>5. T4 # {} /\ T4 \subseteq T3 /\ T4 \subseteq T
  BY <1>1, <1>4, LeastExists
<1>6. T5 # {} /\ T5 \subseteq T4 /\ T5 \subseteq T
  BY <1>1, <1>5, LeastExists
<1>7. T6 # {} /\ T6 \subseteq T5 /\ T6 \subseteq T
  BY <1>1, <1>6, LeastExists
<1>8. T7 # {} /\ T7 \subseteq T6 /\ T7 \subseteq T
  BY <1>1, <1>7, LeastExists
<1>9. T8 # {} /\ T8 \subseteq T7 /\ T8 \subseteq T
  BY <1>1, <1>8, LeastExists
<1>10. PICK x : x \in T8
  BY <1>9
<1>11. /\ x \in T /\ x \in T1 /\ x \in T2 /\ x \in T3 /\ x \in T4
       /\ x \in T5 /\ x \in T6 /\ x \in T7
  <2> HIDE DEF T1, T2, T3, T4, T5, T6, T7, T8
  <2> QED BY <1>2, <1>3, <1>4, <1>5, <1>6, <1>7, <1>8, <1>9, <1>10
<1>12. ASSUME NEW y \in T \ {x} PROVE Before(x, y)
  <2>1. x[1] < y[1] \/ (x[1] = y[1] /\ y \in T1)
    BY <1>1, <1>11, LeastOrEqual
  <2>2. y \in T1 => x[2] < y[2] \/ (x[2] = y[2] /\ y \in T2)
    BY <1>1, <1>2, <1>11, LeastOrEqual
  <2>3. y \in T2 => x[3] < y[3] \/ (x[3] = y[3] /\ y \in T3)
    BY <1>1, <1>3, <1>11, LeastOrEqual
  <2>4. y \in T3 => x[4] < y[4] \/ (x[4] = y[4] /\ y \in T4)
    BY <1>1, <1>4, <1>11, LeastOrEqual
  <2>5. y \in T4 => x[5] < y[5] \/ (x[5] = y[5] /\ y \in T5)
    BY <1>1, <1>5, <1>11, LeastOrEqual
  <2>6. y \in T5 => x[6] < y[6] \/ (x[6] = y[6] /\ y \in T6)
    BY <1>1, <1>6, <1>11, LeastOrEqual
  <2>7. y \in T6 => x[7] < y[7] \/ (x[7] = y[7] /\ y \in T7)
    BY <1>1, <1>7, <1>11, LeastOrEqual
  <2>8. y \in T7 => x[8] < y[8] \/ x[8] = y[8]
    BY <1>1, <1>8, <1>10, LeastOrEqual
  <2> HIDE DEF T1, T2, T3, T4, T5, T6, T7, T8
  <2>9. \E n \in 1 .. 8 : x[n] # y[n]
    <3>1. x \in [1 .. 8 -> Words] /\ y \in [1 .. 8 -> Words]
      BY <1>11 DEF IPv6
    <3> QED BY <3>1
  <2>10. \/ x[1] # y[1] \/ x[2] # y[2] \/ x[3] # y[3] \/ x[4] # y[4]
         \/ x[5] # y[5] \/ x[6] # y[6] \/ x[7] # y[7] \/ x[8] # y[8]
    BY <2>9
  <2>11. \E n \in 1 .. 8 : x[n] < y[n] /\ \A m \in 1 .. n - 1 : x[m] = y[m]
    BY <2>1, <2>2, <2>3, <2>4, <2>5, <2>6, <2>7, <2>8, <2>10
  <2>12. Len(x) = 8 /\ DOMAIN x = 1 .. 8 /\ Len(y) = 8
    BY <1>11, AddressesV6
  <2> QED BY <2>11, <2>12 DEF Before
<1> QED BY <1>11, <1>12

(* compare_addresses is a total order, so that there is one to select.     *)
LEMMA SelectedIsAnAnswer ==
    ASSUME NEW S \in SUBSET (IPv4 \cup IPv6), S # {}
    PROVE  Selected(S) \in S
<1>1. \E x \in S : \A y \in S \ {x} : Before(x, y)
  <2>1. CASE S \cap IPv4 = {}
    <3>1. S \in SUBSET IPv6
      BY <2>1
    <3> QED BY <3>1, LeastOfEight
  <2>2. CASE S \cap IPv4 # {}
    <3>1. PICK x \in S \cap IPv4 : \A y \in (S \cap IPv4) \ {x} : Before(x, y)
      BY <2>2, LeastOfFour
    <3>2. ASSUME NEW y \in S \ {x} PROVE Before(x, y)
      <4>1. CASE y \in IPv4
        BY <3>1, <4>1
      <4>2. CASE y \in IPv6
        <5>1. Len(x) = 4 /\ Len(y) = 8
          BY <4>2, AddressesV4, AddressesV6
        <5> QED BY <5>1 DEF Before
      <4> QED BY <4>1, <4>2
    <3> QED BY <3>1, <3>2
  <2> QED BY <2>1, <2>2
<1> QED BY <1>1, Zenon DEF Selected

(* README.md:227-229: whatever names resolve to, at whatever hop, a        *)
(* request goes to one of the answers, and none of these is inward.        *)
THEOREM RequestsGoOutside == Spec => []NeverInward
<1>1. WalkInv => NeverInward
  <2> SUFFICES ASSUME WalkInv, NEW r \in Reviews, NEW v \in Visits(r)
               PROVE  /\ v.address \in v.answers
                      /\ \A x \in v.answers :
                             /\ ~Inward(x)
                             /\ Len(x) = 8 /\ IsMapped(x) => ~Inward(MappedIPv4(x))
    BY DEF NeverInward
  <2>1. PICK n \in 1 .. Len(walk[r].visits) : v = walk[r].visits[n]
    BY VisitsOfWalks DEF Visits
  <2>2. walk[r].visits \in Seq(VisitType)
    BY <2>1, VisitsOfWalks DEF Stands, WalkType
  <2>3. v \in VisitType
    BY <2>1, <2>2, ElementOfSeq
  <2>4. PICK w \in [url : URL, told : Told, via : {0, 303, 307}],
             S \in SUBSET (IPv4 \cup IPv6) :
                 AllPublic(S) /\ v = Visit(w, S, Selected(S))
    BY <2>3 DEF VisitType
  <2>5. v.answers = S /\ v.address = Selected(S)
    BY <2>4 DEF Visit
  <2>6. S # {} /\ \A x \in S : IsPublic(x)
    BY <2>4 DEF AllPublic
  <2>7. v.address \in v.answers
    BY <2>5, <2>6, SelectedIsAnAnswer
  <2>8. ASSUME NEW x \in S
        PROVE  /\ ~Inward(x)
               /\ Len(x) = 8 /\ IsMapped(x) => ~Inward(MappedIPv4(x))
    <3>1. CASE x \in IPv4
      <4>1. Len(x) = 4 /\ IsPublicIPv4(x)
        BY <2>6, <3>1, AddressesV4 DEF IsPublic
      <4> QED BY <3>1, <4>1, PublicIPv4IsOutside
    <3>2. CASE x \in IPv6
      <4>1. Len(x) = 8 /\ IsPublicIPv6(x)
        BY <2>6, <3>2, AddressesV6 DEF IsPublic
      <4> QED BY <3>2, <4>1, PublicIPv6IsOutside
    <3> QED BY <3>1, <3>2
  <2> QED BY <2>5, <2>7, <2>8
<1> QED BY <1>1, WalkInvariant, PTL

===============================================================================
