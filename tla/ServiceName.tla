---------------------------- MODULE ServiceName ----------------------------
(***************************************************************************)
(* What a pidfile promises: a name that one service owns at a time.        *)
(*                                                                         *)
(* A service runs its program only while it owns the name, and the name is *)
(* free again only after that program has ended.  PidFile implements this  *)
(* with files, locks and signatures.                                       *)
(***************************************************************************)
CONSTANTS
  Service,   \* those that compete for the name
  Nobody     \* the owner of a free name, which is no service

VARIABLES
  owner,     \* the service that owns the name
  running    \* the services whose program runs

names == <<owner, running>>

Init == owner = Nobody /\ running = {}

Claim(s) ==
  /\ owner = Nobody
  /\ owner' = s
  /\ UNCHANGED running

Launch(s) ==
  /\ owner = s
  /\ running' = running \cup {s}
  /\ UNCHANGED owner

End(s) ==
  /\ s \in running
  /\ running' = running \ {s}
  /\ UNCHANGED owner

Vacate(s) ==
  /\ owner = s
  /\ s \notin running
  /\ owner' = Nobody
  /\ UNCHANGED running

Next == \E s \in Service : Claim(s) \/ Launch(s) \/ End(s) \/ Vacate(s)

Spec == Init /\ [][Next]_names
============================================================================
