------------------------------ MODULE AtMostOnce ------------------------------
(***************************************************************************)
(* What durable server execution promises a client (README.md of the       *)
(* repository, "clavenar.server-execution/v1"), without processes, tables  *)
(* or handlers.  An execution is known by its key.  Its intent is recorded *)
(* before anything else, the upstream is attempted at most once, and the   *)
(* execution ends completed with the one answer it received, or uncertain. *)
(* An end is final.                                                        *)
(***************************************************************************)
CONSTANTS
    Keys,       \* execution identities
    Results,    \* what the upstream may answer
    NoValue     \* no answer

VARIABLES
    phase,      \* "unknown", "intended", "completed" or "uncertain"
    attempted,  \* the upstream was contacted
    result      \* the retained answer

avars == <<phase, attempted, result>>

AInit ==
    /\ phase = [k \in Keys |-> "unknown"]
    /\ attempted = [k \in Keys |-> FALSE]
    /\ result = [k \in Keys |-> NoValue]

Intend(k) ==
    /\ phase[k] = "unknown"
    /\ phase' = [phase EXCEPT ![k] = "intended"]
    /\ UNCHANGED <<attempted, result>>

(* A slow process may still make its attempt after another one has         *)
(* declared the execution uncertain.                                       *)
Attempt(k) ==
    /\ phase[k] \in {"intended", "uncertain"}
    /\ ~attempted[k]
    /\ attempted' = [attempted EXCEPT ![k] = TRUE]
    /\ UNCHANGED <<phase, result>>

Settle(k) ==
    /\ phase[k] = "intended"
    /\ attempted[k]
    /\ phase' = [phase EXCEPT ![k] = "completed"]
    /\ \E v \in Results : result' = [result EXCEPT ![k] = v]
    /\ UNCHANGED attempted

(* Several executions may be given up in one step.                         *)
GiveUp(K) ==
    /\ \A k \in K : phase[k] = "intended"
    /\ phase' = [k \in Keys |-> IF k \in K THEN "uncertain" ELSE phase[k]]
    /\ UNCHANGED <<attempted, result>>

ANext ==
    \/ \E k \in Keys : Intend(k) \/ Attempt(k) \/ Settle(k)
    \/ \E K \in SUBSET Keys : GiveUp(K)

ASpec == AInit /\ [][ANext]_avars

===============================================================================
