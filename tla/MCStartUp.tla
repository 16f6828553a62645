------------------------------- MODULE MCStartUp ------------------------------
(***************************************************************************)
(* Configurations for TLC: every pair of credential sources around         *)
(* otherwise safe settings, and every single departure from safe settings  *)
(* around sound credentials.                                               *)
(***************************************************************************)
EXTENDS StartUp

CONSTANTS k1, k2, short, empty, t1, t2, n1

Url == [parses |-> TRUE, scheme |-> "https", credentials |-> FALSE, fragment |-> FALSE,
        placeholder |-> FALSE]

OnMount == [absolute |-> TRUE, parts |-> <<"data", "file">>]

Sound ==
    [profile |-> "hosted",
     token |-> None, agents |-> <<Pair(<<t1, n1>>, k1)>>,
     decide_token |-> None, deciders |-> <<Pair(t1, k2)>>,
     mode |-> "enforce", verbose |-> FALSE, qps |-> 100, burst |-> 20,
     ledger |-> OnMount, upstream |-> Url, adapter |-> "mcp-jsonrpc-v1", timeout |-> 10000,
     callbacks_normalize |-> TRUE, webhook_parses |-> TRUE]

Singles == {None, [token |-> k1, padded |-> TRUE]} \cup [token : {k1, k2, short}, padded : {FALSE}]

UpTo2(S) == {<<e>> : e \in S} \cup (S \X S)

AgentSpecs ==
    {None} \cup UpTo2({Blank, NoColon, Pair(BadKey, k1), Pair(<<t1, n1>>, k1),
                       Pair(<<t2, n1>>, k2), Pair(<<t1, n1>>, short)})

DeciderSpecs ==
    {None} \cup UpTo2({Blank, Pair(t1, k1), Pair(t2, k2), Pair(t2, k1), Pair(t1, empty)})

Credentials ==
    {[Sound EXCEPT !.profile = p, !.token = s, !.agents = a, !.decide_token = d, !.deciders = q] :
        p \in {"developer", "hosted"}, s \in Singles, a \in AgentSpecs,
        d \in Singles, q \in DeciderSpecs}

Paths == {[absolute |-> b, parts |-> p] : b \in BOOLEAN,
             p \in UNION {[1 .. n -> {"data", "file", ".."}] : n \in 0 .. 3}}

Urls == {[Url EXCEPT !.parses = FALSE], [Url EXCEPT !.scheme = "http"],
         [Url EXCEPT !.credentials = TRUE], [Url EXCEPT !.fragment = TRUE],
         [Url EXCEPT !.placeholder = TRUE]}

Departures ==
    {[Sound EXCEPT !.mode = "observe"], [Sound EXCEPT !.verbose = TRUE],
     [Sound EXCEPT !.adapter = "legacy"], [Sound EXCEPT !.callbacks_normalize = FALSE],
     [Sound EXCEPT !.webhook_parses = FALSE]}
    \cup {[Sound EXCEPT !.qps = q, !.burst = b] :
             q \in {None, -10, 0, 1, 15, 1000, 1001}, b \in {None, 0, 1, 200, 201}}
    \cup {[Sound EXCEPT !.timeout = t] : t \in {0, 1, 30000, 30001}}
    \cup {[Sound EXCEPT !.ledger = p] : p \in Paths}
    \cup {[Sound EXCEPT !.upstream = u] : u \in Urls}

AllConfigurations ==
    Credentials \cup Departures \cup {[c EXCEPT !.profile = "developer"] : c \in Departures}

===============================================================================
