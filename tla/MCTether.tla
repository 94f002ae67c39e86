------------------------------ MODULE MCTether ------------------------------
(***************************************************************************)
(* Instances of Tether for TLC: what may happen to the sentry and child.   *)
(***************************************************************************)
EXTENDS Tether

Scenarios(faults, append) == [fault : faults, append : append]

\* The child stops, or SIGCHLD comes though nothing happened to it; or the sentry stops,
\* or loses its umbilical.
Stoppages ==
  Scenarios({{"childStops", "sigchld"}}, BOOLEAN)
    \cup Scenarios({{"sentryStops"}, {"umbilical"}}, {FALSE})

ParentDeath == Scenarios({{"parent"}}, {FALSE})

SentryStops == Scenarios({{"sentryStops"}}, BOOLEAN)
=============================================================================
