----------------------------- MODULE MCPidFile -----------------------------
(***************************************************************************)
(* Instances of PidFile for TLC.                                           *)
(***************************************************************************)
EXTENDS PidFile, FiniteSets, TLC

\* The processes and inode numbers of an instance are interchangeable.
Symmetry ==
  Permutations(Sentry) \cup Permutations(Client) \cup Permutations(Inode)

\* Three sentries race for the name, or two when there is a client.
Few ==
  (\E c \in Client : pc[c] # "idle")
    => Cardinality({s \in Sentry : pc[s] # "idle"}) <= 2
============================================================================
