----------------------------- MODULE ControlPlane -----------------------------
(***************************************************************************)
(* MCP control requests of clavenar-lite: the branch of handle_mcp that    *)
(* forwards them (src/src/proxy.rs), the adapter that checks them and      *)
(* their answers (src/src/upstream_adapter.rs), and the tool pins that     *)
(* every tools/list answer is compared with (src/src/supply_chain.rs).     *)
(*                                                                         *)
(* A handler awaits the upstream, then looks at the pins under their       *)
(* mutex, then awaits the ledger.  Handlers of one agent may come back     *)
(* from the upstream in any order, and the pins live in process memory.    *)
(***************************************************************************)
EXTENDS Naturals, Sequences, FiniteSets, Functions

CONSTANTS
    Tenants, Names,   \* an agent is a tenant and a name
    Ids,              \* JSON-RPC ids
    Tools,            \* tool names
    Definitions,      \* hashes of a description and an input schema
    Instances,        \* processes; a restart is another one
    Requests,         \* HTTP requests to POST /mcp with a control method
    Calls,            \* what a request may carry
    Answers,          \* what the upstream may send back
    Adapter,          \* "raw-json" or "mcp-jsonrpc-v1"
    StorageFaults,    \* may an append fail?
    NoValue, Null     \* an absent member, and JSON null

(* canonical_key.                                                          *)
Agents == Tenants \X Names

Methods == {"tools/list", "ping", "notifications/initialized"}

Call == [agent : Agents, method : Methods, jsonrpc : BOOLEAN,
         id : Ids \cup {NoValue, Null}]

(* One entry of result.tools; a tool may lack its name.                    *)
Listed == [name : Tools \cup {NoValue}, definition : Definitions]

(* media is what the body is: application/json, something else, or the     *)
(* empty body of a 204.  tools is result.tools when that is an array.      *)
AnswerBody == [media : {"json", "other", "none"}, jsonrpc : BOOLEAN,
               id : Ids \cup {NoValue, Null},
               result : BOOLEAN, error : BOOLEAN,
               tools : Seq(Listed) \cup {NoValue}]

ASSUME ControlPlaneAssumption ==
    /\ NoValue \notin Tools /\ NoValue \notin Seq(Listed)
    /\ NoValue \notin AnswerBody /\ NoValue \notin Instances
    /\ Calls \subseteq Call
    /\ Answers \subseteq AnswerBody
    /\ \A a \in Answers : a.tools # NoValue => a.media # "none" /\ a.result
    /\ Adapter \in {"raw-json", "mcp-jsonrpc-v1"}
    /\ StorageFaults \in BOOLEAN

VARIABLES
    proc,             \* the processes: "new", "up" or "down"
    pins,             \* tool_pins of each process: the pinned catalogs
    rows,             \* the SupplyChain rows of the chain
    call,             \* what each request carries; never changes
    pc,               \* where its handler stands
    at,               \* the process it arrived at
    answer,           \* the upstream answer it holds or relayed
    lost              \* history: requests whose append failed

vars == <<proc, pins, rows, call, pc, at, answer, lost>>

------------------------------------------------------------------------------
(* The adapter.                                                            *)

(* validate_request; the body limit is left out.                           *)
RequestAccepted(c) ==
    \/ Adapter = "raw-json"
    \/ /\ c.jsonrpc
       /\ c.method = "notifications/initialized" \/ c.id \notin {NoValue, Null}

(* validate_mcp_response; a body that is not an object fails every test.   *)
ResponseAccepted(c, a) ==
    \/ Adapter = "raw-json"
    \/ c.id = NoValue /\ a.media = "none"
    \/ /\ a.media = "json"
       /\ a.jsonrpc
       /\ a.id = c.id
       /\ a.result # a.error

------------------------------------------------------------------------------
(* Variant: the pin is found by the bare agent name.                       *)
BareName(a) == a[2]

(* The slot of an agent: tenant/agent, so that one name in two tenants has *)
(* two of them.                                                            *)
PinKey(a) == a

(* Catalogs.                                                               *)

Named(tools) == {tools[n].name : n \in DOMAIN tools} \ {NoValue}

(* definition_hashes: the later of two tools of one name counts, and tools *)
(* without a name are passed over.                                         *)
CatalogOf(tools) ==
    [t \in Named(tools) |->
        LET last == CHOOSE n \in DOMAIN tools :
                        /\ tools[n].name = t
                        /\ \A m \in DOMAIN tools : tools[m].name = t => m <= n
        IN tools[last].definition]

Catalogs == {CatalogOf(a.tools) : a \in {b \in Answers : b.tools # NoValue}}

(* Variant: the tools that are gone are not looked for.                    *)
ChangesOfListed(pinned, fresh) ==
    {<<"changed", t>> : t \in {u \in DOMAIN fresh \cap DOMAIN pinned :
                                   pinned[u] # fresh[u]}}
    \cup {<<"added", t>> : t \in DOMAIN fresh \ DOMAIN pinned}

(* diff_against_pin: the lines it returns, sorted, are a set.              *)
Changes(pinned, fresh) ==
    {<<"changed", t>> : t \in {u \in DOMAIN fresh \cap DOMAIN pinned :
                                   pinned[u] # fresh[u]}}
    \cup {<<"added", t>> : t \in DOMAIN fresh \ DOMAIN pinned}
    \cup {<<"removed", t>> : t \in DOMAIN pinned \ DOMAIN fresh}

ChangeLine == {"changed", "added", "removed"} \X Tools

(* A SupplyChain row has the name of the agent without its tenant and no   *)
(* correlation id; `of` is history.                                        *)
Row == [agent : Names, changes : SUBSET ChangeLine, of : Requests]

HandlerSteps == {"await", "observe", "append"}

TypeOK ==
    /\ proc \in [Instances -> {"new", "up", "down"}]
    /\ DOMAIN pins = Instances
    /\ \A i \in Instances :
           /\ DOMAIN pins[i] \subseteq {PinKey(a) : a \in Agents}
           /\ pins[i] \in [DOMAIN pins[i] -> Catalogs]
    /\ rows \subseteq Row
    /\ call \in [Requests -> Calls]
    /\ pc \in [Requests -> {"idle", "refused", "bad_gateway", "relayed", "dead"}
                               \cup HandlerSteps]
    /\ at \in [Requests -> Instances \cup {NoValue}]
    /\ answer \in [Requests -> Answers \cup {NoValue}]
    /\ lost \subseteq Requests

Init ==
    /\ proc = [i \in Instances |-> "new"]
    /\ pins = [i \in Instances |-> [a \in {} |-> NoValue]]
    /\ rows = {}
    /\ call \in [Requests -> Calls]
    /\ pc = [r \in Requests |-> "idle"]
    /\ at = [r \in Requests |-> NoValue]
    /\ answer = [r \in Requests |-> NoValue]
    /\ lost = {}

------------------------------------------------------------------------------
Goto(r, step) == pc' = [pc EXCEPT ![r] = step]

(* 400 for what the adapter does not accept; 401, 429 or a callback URL    *)
(* that is not allowed may turn away any request.                          *)
Refuse(r) ==
    /\ pc[r] = "idle"
    /\ \E i \in Instances : proc[i] = "up"
    /\ Goto(r, "refused")
    /\ UNCHANGED <<proc, pins, rows, call, at, answer, lost>>

Arrive(r) ==
    /\ pc[r] = "idle"
    /\ RequestAccepted(call[r])
    /\ \E i \in Instances : proc[i] = "up" /\ at' = [at EXCEPT ![r] = i]
    /\ Goto(r, "await")
    /\ UNCHANGED <<proc, pins, rows, call, answer, lost>>

(* The upstream answers.  The HTTP status is relayed, whatever it is; an   *)
(* answer the adapter does not accept is a 502, and only tools/list is     *)
(* looked at any further.                                                  *)
Receive(r) ==
    /\ pc[r] = "await"
    /\ \E a \in Answers :
           \/ /\ ResponseAccepted(call[r], a)
              /\ answer' = [answer EXCEPT ![r] = a]
              /\ Goto(r, IF call[r].method = "tools/list" THEN "observe" ELSE "relayed")
           \/ /\ ~ResponseAccepted(call[r], a)
              /\ Goto(r, "bad_gateway")
              /\ UNCHANGED answer
    /\ UNCHANGED <<proc, pins, rows, call, at, lost>>

(* Connection error, timeout or an oversized body.                         *)
UpstreamError(r) ==
    /\ pc[r] = "await"
    /\ Goto(r, "bad_gateway")
    /\ UNCHANGED <<proc, pins, rows, call, at, answer, lost>>

(* observe_tools_list under the mutex: the first catalog of an agent is    *)
(* pinned, a later one is compared.  An answer without result.tools, an    *)
(* error for one, is neither.                                              *)
Observe(r) ==
    LET i == at[r]
        a == PinKey(call[r].agent)
        tools == answer[r].tools IN
    /\ pc[r] = "observe"
    /\ \/ /\ tools = NoValue
          /\ Goto(r, "relayed")
          /\ UNCHANGED pins
       \/ /\ tools # NoValue /\ a \notin DOMAIN pins[i]
          /\ pins' = [pins EXCEPT ![i] = [b \in DOMAIN @ \cup {a} |->
                         IF b = a THEN CatalogOf(tools) ELSE @[b]]]
          /\ Goto(r, "relayed")
       \/ /\ tools # NoValue /\ a \in DOMAIN pins[i]
          /\ Goto(r, IF Changes(pins[i][a], CatalogOf(tools)) = {}
                     THEN "relayed" ELSE "append")
          /\ UNCHANGED pins
    /\ UNCHANGED <<proc, rows, call, at, answer, lost>>

(* The divergence is recorded, or its loss is logged, and the answer is    *)
(* relayed either way.  The lines were made under the mutex, and a pin     *)
(* never changes.                                                          *)
AppendDivergence(r) ==
    LET lines == Changes(pins[at[r]][PinKey(call[r].agent)], CatalogOf(answer[r].tools)) IN
    /\ pc[r] = "append"
    /\ \/ /\ rows' = rows \cup {[agent |-> call[r].agent[2], of |-> r, changes |-> lines]}
          /\ UNCHANGED lost
       \/ StorageFaults /\ lost' = lost \cup {r} /\ UNCHANGED rows
    /\ Goto(r, "relayed")
    /\ UNCHANGED <<proc, pins, call, at, answer>>

(* The client disconnects and the handler is dropped at an await.  (That   *)
(* the append it waited for is done all the same is AppendDivergence with  *)
(* an answer nobody reads.)                                                *)
Disconnect(r) ==
    /\ pc[r] \in {"await", "append"}
    /\ Goto(r, "dead")
    /\ UNCHANGED <<proc, pins, rows, call, at, answer, lost>>

Start(i) ==
    /\ proc[i] = "new"
    /\ proc' = [proc EXCEPT ![i] = "up"]
    /\ UNCHANGED <<pins, rows, call, pc, at, answer, lost>>

(* The pins and the handlers of a process go with it.                      *)
Crash(i) ==
    /\ proc[i] = "up"
    /\ proc' = [proc EXCEPT ![i] = "down"]
    /\ pins' = [pins EXCEPT ![i] = [a \in {} |-> NoValue]]
    /\ pc' = [r \in Requests |->
                 IF at[r] = i /\ pc[r] \in HandlerSteps THEN "dead" ELSE pc[r]]
    /\ UNCHANGED <<rows, call, at, answer, lost>>

RequestStep(r) ==
    \/ Refuse(r) \/ Arrive(r) \/ Receive(r) \/ UpstreamError(r)
    \/ Observe(r) \/ AppendDivergence(r) \/ Disconnect(r)

Next ==
    \/ \E r \in Requests : RequestStep(r)
    \/ \E i \in Instances : Start(i) \/ Crash(i)

Spec == Init /\ [][Next]_vars

------------------------------------------------------------------------------
(* Did the client of r get to see a catalog?                               *)
ShownCatalog(r) ==
    /\ pc[r] = "relayed"
    /\ call[r].method = "tools/list"
    /\ answer[r].tools # NoValue

Recorded(r) == \E row \in rows : row.of = r

(* supply_chain.rs:7-9: "pins the first tools/list an agent sees and diffs *)
(* every later one".  Of all catalogs an agent is shown by one process, in *)
(* whatever order its requests come back, those that left no row, for      *)
(* which no append failed, are one and the same.                           *)
UnrecordedAgree ==
    \A r, s \in Requests :
        /\ ShownCatalog(r) /\ ShownCatalog(s)
        /\ at[r] = at[s] /\ call[r].agent = call[s].agent
        /\ ~Recorded(r) /\ ~Recorded(s) /\ r \notin lost /\ s \notin lost
        => CatalogOf(answer[r].tools) = CatalogOf(answer[s].tools)

(* supply_chain.rs:103-105: a row is no false alarm.  Its lines are what   *)
(* sets the catalog apart from one that the same agent, not one of the     *)
(* same name in another tenant, got from the same process, and there is at *)
(* least one line.                                                         *)
AlarmIsTrue ==
    \A row \in rows : \E s \in Requests \ {row.of} :
        /\ at[s] = at[row.of] /\ call[s].agent = call[row.of].agent
        /\ answer[s] # NoValue /\ answer[s].tools # NoValue
        /\ row.changes = Changes(CatalogOf(answer[s].tools),
                                 CatalogOf(answer[row.of].tools))
        /\ row.changes # {}

===============================================================================
