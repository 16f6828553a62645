----------------------------- MODULE MCControlPlane ----------------------------
(***************************************************************************)
(* Values of the constants for TLC.                                        *)
(***************************************************************************)
EXTENDS ControlPlane, TLC

CONSTANTS t1, t2, n1, u, v, d1, d2

List(t, c) == [agent |-> <<t, n1>>, method |-> "tools/list", jsonrpc |-> TRUE, id |-> c]

(* Agents of one name in two tenants who list, a ping, a notification, and *)
(* what the adapter refuses.                                               *)
ListCalls ==
    {List(t1, 1), List(t2, 1), List(t1, NoValue), [List(t1, 1) EXCEPT !.method = "ping"],
     [List(t1, NoValue) EXCEPT !.method = "notifications/initialized"]}

Result(c, tools) == [media |-> "json", jsonrpc |-> TRUE, id |-> c, result |-> TRUE,
                     error |-> FALSE, tools |-> tools]

Tool(t, d) == [name |-> t, definition |-> d]

(* Catalogs that differ by a definition, by a tool more or less and by     *)
(* nothing that counts; an error; an answer to another request; a 204.     *)
ListAnswers ==
    {Result(1, <<Tool(u, d1)>>), Result(1, <<Tool(u, d2)>>),
     Result(1, <<Tool(u, d1), Tool(v, d1)>>), Result(1, <<>>),
     Result(1, <<Tool(u, d2), Tool(NoValue, d1), Tool(u, d1)>>),
     Result(2, <<Tool(v, d2)>>),
     [Result(1, NoValue) EXCEPT !.result = FALSE, !.error = TRUE],
     [Result(NoValue, NoValue) EXCEPT !.media = "none", !.result = FALSE]}

Symmetry == Permutations(Requests) \cup Permutations(Instances)

===============================================================================
