------------------------------- MODULE MCGateway ------------------------------
(***************************************************************************)
(* Values of the constants for TLC.                                        *)
(***************************************************************************)
EXTENDS GatewayProperties, TLC

CONSTANTS t1, t2, a1, x1, x2, p1, p2

ServerCall(t, c, p) ==
    [selector |-> "server", tenant |-> t, agent |-> a1, id |-> c, payload |-> p]

DecisionCall(t, c, p) ==
    [selector |-> "decision", tenant |-> t, agent |-> a1, id |-> c, payload |-> p]

(* One identity, the original payload or a changed one.                    *)
RetryCalls == {ServerCall(t1, x1, p1), ServerCall(t1, x1, p2)}

(* Two identities.                                                         *)
TwoKeyCalls == {ServerCall(t1, x1, p1), ServerCall(t1, x2, p1)}

(* A server execution and a decision under one id, and an agent of the     *)
(* same name in another tenant.                                            *)
ReviewCalls == {ServerCall(t1, x1, p1), ServerCall(t2, x1, p1), DecisionCall(t1, x1, p1)}

DecisionCalls == {DecisionCall(t1, x1, p1)}

(* Operators of both tenants and the unscoped one, who disagree.           *)
ReviewOrders ==
    {[id |-> x1, scope |-> t1, decision |-> "allow"],
     [id |-> x1, scope |-> t2, decision |-> "allow"],
     [id |-> x1, scope |-> NoValue, decision |-> "deny"]}

NoOrders == {}

ApproveOrders == {[id |-> x1, scope |-> t1, decision |-> "allow"]}

AnyTier == [p \in Payloads |-> Tiers]
AlwaysGreen == [p \in Payloads |-> {"Green"}]
AlwaysRed == [p \in Payloads |-> {"Red"}]
AlwaysYellow == [p \in Payloads |-> {"Yellow"}]

RetrySymmetry ==
    Permutations(Requests) \cup Permutations(Instances) \cup Permutations(Results)

ReviewSymmetry == Permutations(Requests) \cup Permutations(Operators)

===============================================================================
