------------------------------ MODULE MCLaunch ------------------------------
(***************************************************************************)
(* Instances of Launch for TLC: how pidsentry is started, and what goes    *)
(* wrong.                                                                  *)
(***************************************************************************)
EXTENDS Launch

Start(direct, orphaned, fault) ==
  [direct |-> direct, orphaned |-> orphaned, fault |-> fault]

\* With an agent that watches its parent, with one that does not, and without an agent.
AnyMode ==
  { Start(FALSE, TRUE, {"error", "kill", "parent"}),
    Start(FALSE, FALSE, {"signal"}),
    Start(TRUE, FALSE, {"error", "kill", "signal"}) }

\* A process group leader that is to watch its parent.
LeaderOrphaned == {Start(TRUE, TRUE, {"parent"})}
=============================================================================
