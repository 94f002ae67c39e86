---------------------------- MODULE MCUmbilical ----------------------------
(***************************************************************************)
(* Instances of Umbilical for TLC: which faults may happen.                *)
(***************************************************************************)
EXTENDS Umbilical

\* Signals only: either process is stopped and continued.
Signals == {"stop", "continue"} \X Proc

\* Either process blocks and recovers, and the umbilical is killed.
Failures == ({"stick"} \X Proc) \cup {<<"kill", "umbilical">>}

\* Everything at once.
AllFaults == Faults

NoFault == {}

SentrySticks == {<<"stick", "sentry">>}
============================================================================
