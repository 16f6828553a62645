----------------------------- MODULE MCAssessment -----------------------------
(***************************************************************************)
(* Values of the constants for TLC, and bounded time.                      *)
(***************************************************************************)
EXTENDS Assessment, TLC

CONSTANTS a1, a2, Horizon    \* last tick of a run

(* Routine calls of two agents, a call for each tier, an injection, and a  *)
(* bulk export.                                                            *)
MixedCalls ==
    {[agent |-> a1, tool |-> "other", injected |-> FALSE],
     [agent |-> a1, tool |-> "wire_transfer", injected |-> FALSE],
     [agent |-> a2, tool |-> "other", injected |-> TRUE],
     [agent |-> a2, tool |-> "bulk_export", injected |-> FALSE]}

BoundedNext ==
    \/ now < Horizon /\ Tick
    \/ \E r \in Requests : RequestStep(r)

BoundedSpec == Init /\ [][BoundedNext]_vars

Symmetry == Permutations(Requests)

===============================================================================
