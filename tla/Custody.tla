------------------------------ MODULE Custody ------------------------------
(***************************************************************************)
(* What is promised of a program that is run in custody, to those who      *)
(* signal it by the pid that a name gives them, and to those who wait for  *)
(* its exit code.                                                          *)
(*                                                                         *)
(* The program runs only when it has its name and somebody guards it.  Its *)
(* pid is not set free while the name leads to it, unless the custodian    *)
(* has gone, and the name, once taken away, is not given again.  Whoever   *)
(* reports an exit code reports the program's, and has taken the name away *)
(* before; one that fails, dumps core or is harmed may leave it.           *)
(*                                                                         *)
(* Launch implements this with an agent, a sentry and an umbilical         *)
(* process.                                                                *)
(***************************************************************************)
CONSTANTS
  Reporter,   \* those that report an exit code
  Custodian,  \* the reporter that has the program in custody
  Code        \* the exit codes

VARIABLES
  pid,        \* what the pid stands for
  outcome,    \* the exit code of the program
  name,       \* whether the program has its name
  guard,      \* whether somebody guards the program
  report,     \* the exit code that each reporter has given
  harmed      \* the reporters that were ended from outside

custody == <<pid, outcome, name, guard, report, harmed>>

Init ==
  /\ pid = "none" /\ outcome = "none" /\ name = "none" /\ guard = "none"
  /\ report = [r \in Reporter |-> "none"]
  /\ harmed = {}

Fork ==
  /\ pid = "none"
  /\ pid' = "waits"
  /\ UNCHANGED <<outcome, name, guard, report, harmed>>

GiveName ==
  /\ name = "none" /\ pid \in {"waits", "zombie"}
  /\ name' = "given"
  /\ UNCHANGED <<pid, outcome, guard, report, harmed>>

TakeName ==
  /\ name = "given"
  /\ name' = "taken"
  /\ UNCHANGED <<pid, outcome, guard, report, harmed>>

Watch ==
  /\ \/ guard = "none" /\ guard' = "guards"
     \/ guard # "gone" /\ guard' = "gone"
  /\ UNCHANGED <<pid, outcome, name, report, harmed>>

Execute ==
  /\ pid = "waits" /\ name # "none" /\ guard # "none"
  /\ pid' = "runs"
  /\ UNCHANGED <<outcome, name, guard, report, harmed>>

End(code) ==
  /\ pid \in {"waits", "runs"}
  /\ pid' = "zombie" /\ outcome' = code
  /\ UNCHANGED <<name, guard, report, harmed>>

Free == pid = "zombie" /\ pid' = "free"

Reap ==
  /\ Free
  /\ name # "given" \/ report[Custodian] # "none"
  /\ UNCHANGED <<outcome, name, guard, report, harmed>>

\* The exit code is that of the program, unless the reporter fails or is harmed itself,
\* or passes on what became of a custodian who was.
Gives(r, code) ==
  /\ report[r] = "none"
  /\ report' = [report EXCEPT ![r] = code]
  /\ harmed' \in {harmed, harmed \cup {r}}
  /\ \/ code = outcome /\ (name # "given" \/ code = "dump")
     \/ code = "fail"
     \/ r \in harmed'
     \/ Custodian \in harmed /\ code = report[Custodian]
  /\ UNCHANGED <<outcome, name, guard>>

Report(r, code) == Gives(r, code) /\ UNCHANGED pid

\* The custodian gives up, and takes the program with it.
Abandon == Gives(Custodian, "fail") /\ Free /\ name # "given"

Next ==
  \/ Fork \/ GiveName \/ TakeName \/ Watch \/ Execute \/ Reap \/ Abandon
  \/ \E code \in Code : End(code)
  \/ \E r \in Reporter, code \in Code : Report(r, code)

Spec == Init /\ [][Next]_custody
============================================================================
