------------------------------ MODULE MCRateLimit -----------------------------
(***************************************************************************)
(* Bounded time for TLC.                                                   *)
(***************************************************************************)
EXTENDS RateLimit, TLC

CONSTANT Horizon    \* last tick of a run

BoundedNext ==
    \/ \E r \in Requests : ReadClock(r) \/ TryConsume(r)
    \/ now < Horizon /\ Tick

BoundedSpec == Init /\ [][BoundedNext]_vars

Symmetry == Permutations(Requests) \cup Permutations(Agents)

===============================================================================
