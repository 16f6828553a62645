------------------------------- MODULE Delivery -------------------------------
(***************************************************************************)
(* The outbound events of clavenar-lite about reviews: the Slack alert and *)
(* the verdict webhook of a park, the webhook and the callback of a        *)
(* decision (src/src/proxy.rs, slack.rs, webhook.rs), their shared permits *)
(* (spawn_notification), and the walk of a callback through redirects      *)
(* (src/src/outbound_callback.rs).                                         *)
(*                                                                         *)
(* A review is parked by one handler and decided by another, in the same   *)
(* or another process; each of them then tries to start its events one by  *)
(* one.  An event that finds no free permit is dropped, and one that is    *)
(* under way dies with its process.                                        *)
(***************************************************************************)
EXTENDS Targets

CONSTANTS
    Reviews, Instances,
    Permits,          \* MAX_IN_FLIGHT_NOTIFICATIONS
    MaxHops,          \* MAXIMUM_REDIRECT_HOPS
    Allowlist,        \* the callback allowlist each process started with
    Headers,          \* callback URLs an agent may ask for, NoValue for none
    Locations,        \* where a server may redirect to, joined with its URL
    AnswerLists,      \* what a DNS lookup may return
    Slack, Webhook,   \* are the two hooks configured?
    NoValue

(* An allowlist that does not normalize refuses the start.                 *)
ASSUME DeliveryAssumption ==
    /\ Permits \in Nat \ {0} /\ MaxHops \in Nat
    /\ Headers \ {NoValue} \subseteq URL /\ Locations \subseteq URL
    /\ Allowlist \in [Instances -> SUBSET URL]
    /\ AnswerLists \subseteq Seq(IPv4 \cup IPv6)
    /\ \A i \in Instances : \A e \in Allowlist[i] : Normalizes(e, TRUE)
    /\ Slack \in BOOLEAN /\ Webhook \in BOOLEAN

Kinds == {"slack", "park", "decide", "callback"}
Jobs == Reviews \X Kinds

(* The handler that parks a review and the one that decides it.            *)
Handlers == Reviews \X {"parker", "decider"}

VARIABLES
    proc,             \* the processes: "new", "up" or "down"
    decision,         \* pendings.decision; "absent" before the park
    decided,          \* the decision in the row decide_pending returned
    callback_url,     \* pendings.callback_url
    todo,             \* what each handler has still to do, in order
    handlerAt,        \* the process it runs in
    free,             \* available permits of each process
    job,              \* what became of each event
    walk              \* the walk of each callback that is under way

vars == <<proc, decision, decided, callback_url, todo, handlerAt, free, job, walk>>

(* A walk: where it stands, its next target, the targets seen, and the     *)
(* decision in its body; a request without a body is a GET.  visits is     *)
(* history: the requests made.                                             *)
NoWalk == [at |-> NoValue, url |-> NoValue, seen |-> {}, hops |-> 0,
           told |-> NoValue, via |-> 0, visits |-> <<>>]

(* One request: `answers` is what its host was resolved to, and via the    *)
(* status of the redirect that led to it.                                  *)
Visit(w, answers, address) ==
    [url |-> w.url, answers |-> answers, address |-> address, told |-> w.told,
     via |-> w.via]

Steps == {NoValue, "validate", "connect", "await"}

TypeOK ==
    /\ proc \in [Instances -> {"new", "up", "down"}]
    /\ decision \in [Reviews -> {"absent", "undecided", "allow", "deny"}]
    /\ decided \in [Reviews -> {NoValue, "allow", "deny"}]
    /\ DOMAIN callback_url = Reviews
    /\ todo \in [Handlers -> Seq(Kinds \cup {"audit"})]
    /\ handlerAt \in [Handlers -> Instances \cup {NoValue}]
    /\ free \in [Instances -> 0 .. Permits]
    /\ job \in [Jobs -> [state : {"none", "dropped", "running", "ended", "killed"},
                         at : Instances \cup {NoValue}]]
    /\ \A r \in Reviews : walk[r].at \in Steps /\ walk[r].hops \in 0 .. MaxHops

Init ==
    /\ proc = [i \in Instances |-> "new"]
    /\ decision = [r \in Reviews |-> "absent"]
    /\ decided = [r \in Reviews |-> NoValue]
    /\ callback_url = [r \in Reviews |-> NoValue]
    /\ todo = [h \in Handlers |-> <<>>]
    /\ handlerAt = [h \in Handlers |-> NoValue]
    /\ free = [i \in Instances |-> Permits]
    /\ job = [j \in Jobs |-> [state |-> "none", at |-> NoValue]]
    /\ walk = [r \in Reviews |-> NoWalk]

------------------------------------------------------------------------------
(* Reviews.                                                                *)

If(condition, item) == IF condition THEN <<item>> ELSE <<>>

(* validate_callback_url, then park_pending; the canonical URL is stored.  *)
(* The client may have gone while the row was committed: nobody is told.   *)
ParkAt(r, i) ==
    /\ proc[i] = "up"
    /\ decision[r] = "absent"
    /\ \E u \in Headers :
           /\ u # NoValue => Allows(Allowlist[i], u)
           /\ callback_url' = [callback_url EXCEPT ![r] =
                  IF u = NoValue THEN NoValue ELSE Normalized(u, FALSE)]
    /\ decision' = [decision EXCEPT ![r] = "undecided"]
    /\ \E alive \in BOOLEAN :
           todo' = [todo EXCEPT ![<<r, "parker">>] =
               IF alive THEN If(Slack, "slack") \o If(Webhook, "park") ELSE <<>>]
    /\ handlerAt' = [handlerAt EXCEPT ![<<r, "parker">>] = i]
    /\ UNCHANGED <<proc, decided, free, job, walk>>

(* Variant: a later operator may still overturn the decision in the row.   *)
DecideOrOverturnAt(r, i) ==
    /\ proc[i] = "up"
    /\ decision[r] # "absent"
    /\ \E d \in {"allow", "deny"} : decision' = [decision EXCEPT ![r] = d]
    /\ IF decision[r] # "undecided" THEN UNCHANGED <<decided, todo, handlerAt>>
       ELSE /\ decided' = [decided EXCEPT ![r] = decision'[r]]
            /\ todo' = [todo EXCEPT ![<<r, "decider">>] = <<"audit">>
                   \o If(Webhook, "decide") \o If(callback_url[r] # NoValue, "callback")]
            /\ handlerAt' = [handlerAt EXCEPT ![<<r, "decider">>] = i]
    /\ UNCHANGED <<proc, callback_url, free, job, walk>>

(* decide_pending_scoped flips the row once and returns it; the audit row  *)
(* comes next.                                                             *)
DecideAt(r, i) ==
    /\ proc[i] = "up"
    /\ decision[r] = "undecided"
    /\ \E d \in {"allow", "deny"} :
           /\ decision' = [decision EXCEPT ![r] = d]
           /\ decided' = [decided EXCEPT ![r] = d]
    /\ todo' = [todo EXCEPT ![<<r, "decider">>] = <<"audit">>
           \o If(Webhook, "decide") \o If(callback_url[r] # NoValue, "callback")]
    /\ handlerAt' = [handlerAt EXCEPT ![<<r, "decider">>] = i]
    /\ UNCHANGED <<proc, callback_url, free, job, walk>>

(* The append of the audit row returns, or the client is gone by then.     *)
AuditReturns(h) ==
    /\ todo[h] # <<>> /\ Head(todo[h]) = "audit"
    /\ \E gone \in BOOLEAN :
           todo' = [todo EXCEPT ![h] = IF gone THEN <<>> ELSE Tail(@)]
    /\ UNCHANGED <<proc, decision, decided, callback_url, handlerAt, free, job, walk>>

------------------------------------------------------------------------------
(* spawn_notification.                                                     *)

(* The task owns the permit it was started with.                           *)
Notify(h) ==
    LET j == <<h[1], Head(todo[h])>>
        i == handlerAt[h] IN
    /\ todo[h] # <<>> /\ Head(todo[h]) # "audit"
    /\ \/ /\ free[i] > 0
          /\ free' = [free EXCEPT ![i] = @ - 1]
          /\ job' = [job EXCEPT ![j] = [state |-> "running", at |-> i]]
          /\ walk' = IF j[2] # "callback" THEN walk
                     ELSE [walk EXCEPT ![h[1]] = [NoWalk EXCEPT
                               !.at = "validate", !.url = callback_url[h[1]],
                               !.told = decided[h[1]]]]
       \/ /\ free[i] = 0
          /\ job' = [job EXCEPT ![j] = [state |-> "dropped", at |-> i]]
          /\ UNCHANGED <<free, walk>>
    /\ todo' = [todo EXCEPT ![h] = Tail(@)]
    /\ UNCHANGED <<proc, decision, decided, callback_url, handlerAt>>

(* The task is over and its permit back.                                   *)
Over(j) ==
    /\ job' = [job EXCEPT ![j].state = "ended"]
    /\ free' = [free EXCEPT ![job[j].at] = @ + 1]
    /\ walk' = IF j[2] = "callback" THEN [walk EXCEPT ![j[1]] = NoWalk] ELSE walk

(* Variant: a task that is timed out keeps its permit.                     *)
EndsWithoutPermit(j) ==
    /\ job[j].state = "running"
    /\ job' = [job EXCEPT ![j].state = "ended"]
    /\ walk' = IF j[2] = "callback" THEN [walk EXCEPT ![j[1]] = NoWalk] ELSE walk
    /\ UNCHANGED <<proc, decision, decided, callback_url, todo, handlerAt, free>>

(* The event was delivered, or failed, or five seconds are over: those of  *)
(* one POST, or those of the whole walk.                                   *)
Ends(j) ==
    /\ job[j].state = "running"
    /\ Over(j)
    /\ UNCHANGED <<proc, decision, decided, callback_url, todo, handlerAt>>

------------------------------------------------------------------------------
(* The walk of a callback.                                                 *)

Walking(r, step) == job[<<r, "callback">>].state = "running" /\ walk[r].at = step

AllowlistOf(r) == Allowlist[job[<<r, "callback">>].at]

(* post_json: the stored URL must be allowed by the process that delivers, *)
(* which need not be the one that accepted it.                             *)
Validate(r) ==
    /\ Walking(r, "validate")
    /\ \/ /\ Allows(AllowlistOf(r), walk[r].url)
          /\ walk' = [walk EXCEPT ![r].at = "connect",
                                  ![r].seen = {Normalized(walk[r].url, FALSE)}]
          /\ UNCHANGED <<job, free>>
       \/ /\ ~Allows(AllowlistOf(r), walk[r].url)
          /\ Over(<<r, "callback">>)
    /\ UNCHANGED <<proc, decision, decided, callback_url, todo, handlerAt>>

(* pinned_client: a literal address is its own answer.                     *)
AnswersFor(u) == IF u.host.kind = "address" THEN {<<u.host.address>>} ELSE AnswerLists

(* Variant: the client resolves the name once more.                        *)
ConnectResolvingAgain(r) ==
    LET w == walk[r] IN
    /\ Walking(r, "connect")
    /\ \E answers, again \in AnswersFor(w.url) :
           \/ /\ AnswersAccepted(answers) /\ again # <<>>
              /\ walk' = [walk EXCEPT ![r].at = "await", ![r].visits =
                     Append(@, Visit(w, Unique(answers), Selected(Unique(again))))]
              /\ UNCHANGED <<job, free>>
           \/ ~AnswersAccepted(answers) /\ Over(<<r, "callback">>)
    /\ UNCHANGED <<proc, decision, decided, callback_url, todo, handlerAt>>

(* The host is resolved anew for every request, and the request goes to    *)
(* the address selected from the answers.                                  *)
Connect(r) ==
    LET w == walk[r] IN
    /\ Walking(r, "connect")
    /\ \E answers \in AnswersFor(w.url) :
           \/ /\ AnswersAccepted(answers)
              /\ walk' = [walk EXCEPT ![r].at = "await", ![r].visits =
                     Append(@, Visit(w, Unique(answers), Selected(Unique(answers))))]
              /\ UNCHANGED <<job, free>>
           \/ ~AnswersAccepted(answers) /\ Over(<<r, "callback">>)
    /\ UNCHANGED <<proc, decision, decided, callback_url, todo, handlerAt>>

(* Variant: a walk may come back to where it started.                      *)
RedirectAllowedAnywhere(r, u) ==
    /\ walk[r].hops < MaxHops
    /\ Allows(AllowlistOf(r), u)
    /\ ~(walk[r].url.scheme = "https" /\ u.scheme = "http")
    /\ Normalized(u, FALSE) # walk[r].url

(* Variant: the allowlist bounds the first target only.                    *)
RedirectAllowedOffList(r, u) ==
    /\ walk[r].hops < MaxHops
    /\ Normalizes(u, FALSE)
    /\ ~(walk[r].url.scheme = "https" /\ u.scheme = "http")
    /\ Normalized(u, FALSE) \notin walk[r].seen

(* Variant: the downgrade is looked for at the first target only.          *)
RedirectAllowedLaterDowngrade(r, u) ==
    /\ walk[r].hops < MaxHops
    /\ Allows(AllowlistOf(r), u)
    /\ ~(walk[r].visits[1].url.scheme = "https" /\ u.scheme = "http")
    /\ Normalized(u, FALSE) \notin walk[r].seen

(* Variant: the count is compared after the hop it should stop.            *)
RedirectAllowedOneMore(r, u) ==
    /\ walk[r].hops <= MaxHops
    /\ Allows(AllowlistOf(r), u)
    /\ ~(walk[r].url.scheme = "https" /\ u.scheme = "http")
    /\ Normalized(u, FALSE) \notin walk[r].seen

(* The tests of one hop: the count, the allowlist, the scheme and the      *)
(* targets seen so far.                                                    *)
RedirectAllowed(r, u) ==
    /\ walk[r].hops < MaxHops
    /\ Allows(AllowlistOf(r), u)
    /\ ~(walk[r].url.scheme = "https" /\ u.scheme = "http")
    /\ Normalized(u, FALSE) \notin walk[r].seen

(* 303 See Other: GET without a body, from here on; any other redirect     *)
(* keeps what the request was.                                             *)
BodyAfter(r, status) == IF status = 303 THEN NoValue ELSE walk[r].told

(* The walk at its next target.                                            *)
Redirected(r, u, status) ==
    [walk[r] EXCEPT !.at = "connect", !.url = Normalized(u, FALSE),
                    !.seen = @ \cup {Normalized(u, FALSE)},
                    !.hops = @ + 1,
                    !.told = BodyAfter(r, status),
                    !.via = status]

(* A redirect, to a place that passes or that ends the walk.               *)
Redirect(r) ==
    /\ Walking(r, "await")
    /\ \E u \in Locations, status \in {303, 307} :
           \/ /\ RedirectAllowed(r, u)
              /\ walk' = [walk EXCEPT ![r] = Redirected(r, u, status)]
              /\ UNCHANGED <<job, free>>
           \/ ~RedirectAllowed(r, u) /\ Over(<<r, "callback">>)
    /\ UNCHANGED <<proc, decision, decided, callback_url, todo, handlerAt>>

------------------------------------------------------------------------------
Start(i) ==
    /\ proc[i] = "new"
    /\ proc' = [proc EXCEPT ![i] = "up"]
    /\ UNCHANGED <<decision, decided, callback_url, todo, handlerAt, free, job, walk>>

(* Handlers and events die with their process; the rows stay.              *)
Crash(i) ==
    LET killed == {j \in Jobs : job[j].state = "running" /\ job[j].at = i} IN
    /\ proc[i] = "up"
    /\ proc' = [proc EXCEPT ![i] = "down"]
    /\ todo' = [h \in Handlers |-> IF handlerAt[h] = i THEN <<>> ELSE todo[h]]
    /\ job' = [j \in Jobs |-> IF j \in killed THEN [job[j] EXCEPT !.state = "killed"]
                                              ELSE job[j]]
    /\ walk' = [r \in Reviews |-> IF <<r, "callback">> \in killed THEN NoWalk ELSE walk[r]]
    /\ UNCHANGED <<decision, decided, callback_url, handlerAt, free>>

Next ==
    \/ \E r \in Reviews, i \in Instances : ParkAt(r, i) \/ DecideAt(r, i)
    \/ \E h \in Handlers : AuditReturns(h) \/ Notify(h)
    \/ \E j \in Jobs : Ends(j)
    \/ \E r \in Reviews : Validate(r) \/ Connect(r) \/ Redirect(r)
    \/ \E i \in Instances : Start(i) \/ Crash(i)

Spec == Init /\ [][Next]_vars

------------------------------------------------------------------------------
Running(i) == {j \in Jobs : job[j].state = "running" /\ job[j].at = i}

(* proxy.rs:88-107: a permit comes back with the end of its event, however *)
(* that ends, and with nothing else.                                       *)
PermitsAreConserved ==
    \A i \in Instances : proc[i] = "up" => free[i] + Cardinality(Running(i)) = Permits

(* webhook.rs:14: "a bounded concurrency gate".  An event is dropped only  *)
(* while as many others of its process as there are permits are under way. *)
DropsOnlyAtLimit ==
    [][\A j \in Jobs : job'[j].state = "dropped" /\ job[j].state = "none"
           => Cardinality(Running(job'[j].at)) = Permits]_vars

Visits(r) == {walk[r].visits[n] : n \in DOMAIN walk[r].visits}

(* README.md:226-227: the callback POSTs the decision.  Whatever is told   *)
(* to a partner is the decision that stands in the pendings row, while and *)
(* after other operators try to decide it again; and it is told no more    *)
(* after a 303, "get-and-drop-body" in                                     *)
(* outbound-resolution-pinning-v1.fixture.json, not even when a redirect   *)
(* that preserves the method follows.                                      *)
CallbackTellsDecision ==
    \A r \in Reviews :
        /\ \A v \in Visits(r) : v.told \in {NoValue, decision[r]}
        /\ \A m, n \in DOMAIN walk[r].visits :
               m <= n /\ walk[r].visits[m].via = 303 => walk[r].visits[n].told = NoValue

(* README.md:230-231: redirects are "normalized, allowlisted", and a       *)
(* "downgrade" fails.  Every target of a walk, whatever led to it, has the *)
(* scheme, host and port of an entry of the delivering process and a path  *)
(* at or below the entry's; and a walk that has used https never goes back *)
(* to http, over however many redirects.                                   *)
HopsStayAllowed ==
    \A r \in Reviews :
        /\ \A v \in Visits(r) :
               /\ ~v.url.credentials /\ ~v.url.fragment
               /\ \E e \in AllowlistOf(r) :
                      /\ <<e.scheme, e.port, e.host.kind>>
                             = <<v.url.scheme, v.url.port, v.url.host.kind>>
                      /\ \/ e.host.kind = "domain" /\ e.host.labels = v.url.host.labels
                         \/ e.host.kind = "address" /\ e.host.address = v.url.host.address
                      /\ \A n \in DOMAIN e.path :
                             n \in DOMAIN v.url.path /\ v.url.path[n] = e.path[n]
        /\ \A m, n \in DOMAIN walk[r].visits :
               m < n /\ walk[r].visits[m].url.scheme = "https"
               => walk[r].visits[n].url.scheme = "https"

(* A block of addresses: what each octet, or each segment, may be.         *)
InBlock(x, block) == Len(x) = Len(block) /\ \A n \in DOMAIN block : x[n] \in block[n]

(* The classes of contracts/rooted-path-target-validation-v1.fixture.json: *)
(* unspecified, private, loopback, link-local, shared, documentation,      *)
(* benchmark, multicast and reserved addresses, as blocks.                 *)
InwardIPv4(x) ==
    \/ InBlock(x, <<{0, 10, 127}, Octets, Octets, Octets>>)
    \/ InBlock(x, <<{172}, 16 .. 31, Octets, Octets>>)
    \/ InBlock(x, <<{192}, {168}, Octets, Octets>>)
    \/ InBlock(x, <<{169}, {254}, Octets, Octets>>)
    \/ InBlock(x, <<{100}, 64 .. 127, Octets, Octets>>)
    \/ InBlock(x, <<{192}, {0}, {2}, Octets>>)
    \/ InBlock(x, <<{198}, {51}, {100}, Octets>>)
    \/ InBlock(x, <<{203}, {0}, {113}, Octets>>)
    \/ InBlock(x, <<{198}, {18, 19}, Octets, Octets>>)
    \/ InBlock(x, <<224 .. 255, Octets, Octets, Octets>>)

(* 2000::/3, and 2001:db8::/32 in it.                                      *)
Unicast == <<8192 .. 16383, Words, Words, Words, Words, Words, Words, Words>>
Examples == <<{8193}, {3512}, Words, Words, Words, Words, Words, Words>>

Inward(x) ==
    \/ InwardIPv4(x)
    \/ Len(x) = 8 /\ ~InBlock(x, Unicast) /\ ~IsMapped(x)
    \/ InBlock(x, Examples)

(* README.md:227-229: a connection "rejects the whole set if any address   *)
(* is non-public, and pins one".  No request of any walk is made for a     *)
(* name with an inward answer, and it goes to one of the answers that were *)
(* looked at, although a name may resolve differently every time.          *)
NeverInward ==
    \A r \in Reviews : \A v \in Visits(r) :
        /\ v.address \in v.answers
        /\ \A x \in v.answers :
               ~Inward(x) /\ (Len(x) = 8 /\ IsMapped(x) => ~Inward(MappedIPv4(x)))

(* README.md:229-231: "Up to five redirects", and loops fail closed.       *)
WalkIsBounded ==
    \A r \in Reviews :
        /\ Len(walk[r].visits) <= MaxHops + 1
        /\ \A m, n \in DOMAIN walk[r].visits :
               walk[r].visits[m].url = walk[r].visits[n].url => m = n

===============================================================================
