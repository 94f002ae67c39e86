------------------------------- MODULE Tenure -------------------------------
(***************************************************************************)
(* What a reference to a program promises to the command that holds it.    *)
(*                                                                         *)
(* The process group of the program is pinned, which is to say that its    *)
(* number cannot come to mean anything else, and stays pinned while any    *)
(* reference is held.  A reference is granted once, and ends when its      *)
(* holder gives it up; it is withdrawn from a holder only by a keeper that *)
(* has broken down.  The success of a command is vouched for only if the   *)
(* reference was held from before the command to its end.                  *)
(*                                                                         *)
(* Keeper implements this with sockets, signatures and a poll loop.        *)
(***************************************************************************)
CONSTANTS
  Holder   \* those that may hold a reference

VARIABLES
  ref,     \* what has become of the reference of each holder
  group,   \* the process group of the program: pinned or free
  keeper   \* whether the keeper works or has broken down

tenure == <<ref, group, keeper>>

Init ==
  /\ ref = [h \in Holder |-> "none"]
  /\ group = "pinned" /\ keeper = "works"

Held == \E h \in Holder : ref[h] = "held"

Becomes(h, state) ==
  /\ ref' = [ref EXCEPT ![h] = state]
  /\ UNCHANGED <<group, keeper>>

Grant(h) == ref[h] = "none" /\ group = "pinned" /\ Becomes(h, "held")

\* The holder says that its command has succeeded.
Vouch(h) == ref[h] = "held" /\ group = "pinned" /\ Becomes(h, "vouched")

\* The holder goes, with or without a reference.
Leave(h) == ref[h] \in {"none", "held", "closed"} /\ Becomes(h, "over")

\* Those in S are turned away; only a keeper that has broken down turns away holders.
\* The group is free only when nobody holds a reference any more.
Withdraw(S) ==
  /\ keeper' \in {keeper, "broken"}
  /\ \A h \in S : ref[h] = "none" \/ (ref[h] = "held" /\ keeper' = "broken")
  /\ ref' = [h \in Holder |-> IF h \in S THEN "closed" ELSE ref[h]]
  /\ group' \in {group} \cup (IF Held' THEN {} ELSE {"free"})

Next ==
  \/ \E h \in Holder : Grant(h) \/ Vouch(h) \/ Leave(h)
  \/ \E S \in SUBSET Holder : Withdraw(S)

Spec == Init /\ [][Next]_tenure
=============================================================================
