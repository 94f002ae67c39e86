------------------------------ MODULE MCKeeper ------------------------------
(***************************************************************************)
(* Instances of Keeper for TLC: two clients, of which one may be relaxed,  *)
(* and the other may stop half way, or belong to another user.             *)
(***************************************************************************)
EXTENDS Keeper

CONSTANTS c1, c2

Pair(a, b) == [c \in Client |-> IF c = c1 THEN a ELSE b]

Modes == {Pair({"relaxed"}, {"idle"}), Pair({}, {"stranger", "idle"}), Pair({}, {})}
AllFaults == Faults
=============================================================================
