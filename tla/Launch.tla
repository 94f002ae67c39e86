------------------------------- MODULE Launch -------------------------------
(***************************************************************************)
(* The family of processes that runs one program: the agent, the sentry,   *)
(* the child that becomes the program, and the umbilical process.  The     *)
(* module has how they are forked, in which order they are told of each    *)
(* other, how signals are passed on, and how all of them end.              *)
(*                                                                         *)
(* The sentry and the child synchronise over a bell, a pair of sockets     *)
(* that carry rings; the sentry, the umbilical process and the agent       *)
(* notice the end of each other by the end of file on what they share.     *)
(* What happens on the umbilical while both of its ends live is in         *)
(* Umbilical, and the tether and the timers are in Tether.                 *)
(***************************************************************************)
EXTENDS Integers

CONSTANTS
  Mode,      \* how pidsentry may have been started, and what may go wrong
  MaxFaults  \* how often anything does

\* The processes of the family; "kin" stands for what the program forks and leaves
\* in its process group.
Proc == {"agent", "sentry", "child", "umbilical", "kin"}

Faults == {"error", "signal", "kill", "parent"}

\* "direct" is a pidsentry that leads its process group and needs no agent;
\* "orphaned" is the option of that name.
Modes == [direct : BOOLEAN, orphaned : BOOLEAN, fault : SUBSET Faults]

ASSUME LaunchAssumption == Mode \subseteq Modes /\ MaxFaults \in Nat

VARIABLES
  mode,      \* how pidsentry was started
  parent,    \* whether the process that started pidsentry lives
  at,        \* what each process has come to
  status,    \* how each process ended
  reaped,    \* the processes that have been waited for, and are no more
  sig,       \* the signals sent to each process and not delivered yet
  known,     \* the processes whose pid is recorded in the agent or the sentry
  watching,  \* the processes that have their signal handlers installed
  sigchld,   \* SIGCHLD is pending in the sentry
  down,      \* the event latches that are disabled in the sentry
  plan,      \* the sentry's termination timer is active
  rings,     \* rings of the sentry that the child has not heard
  answers,   \* rings of the child that the sentry has not heard
  bell,      \* the sentry has its end of the bell open
  link,      \* what the sentry has sent on the umbilical
  orderly,   \* mClosed of the umbilical monitor
  anchors,   \* the process groups in which the umbilical has an anchor
  pidfile,   \* whether the pidfile names the child
  faults,    \* how often something has gone wrong
  harmed     \* history: the processes that a signal has ended

processes == <<at, status, reaped, sig>>
held      == <<known, watching, sigchld, down, plan>>
sync      == <<rings, answers, bell>>
umbilical == <<link, orderly, anchors>>
setting   == <<mode, parent, faults, harmed>>
vars == <<processes, held, sync, umbilical, pidfile, setting>>

AgentPlace == {"fork", "watch", "wait", "unwatch", "reap", "finish"}
SentryPlace ==
  {"create", "record", "watch", "announce", "fork", "forking", "adopt",
   "ring", "hear", "release", "exec", "monitor", "stop", "drain", "group",
   "remove", "unwatch", "reap", "finish", "abandon", "detach", "slay", "bury"}
ChildPlace == {"start", "wait", "prepare", "ready", "program"}
UmbilicalPlace == {"child", "sentry", "sync", "monitor", "killChild", "killSentry"}
Place == {"absent", "running", "ended"} \cup AgentPlace \cup SentryPlace
           \cup ChildPlace \cup UmbilicalPlace

Deadly == {"term", "quit", "kill"}
Status == {"none", "ok", "fail", "term", "dump", "kill"}

TypeOK ==
  /\ mode \in Mode /\ parent \in BOOLEAN
  /\ at \in [Proc -> Place]
  /\ status \in [Proc -> Status]
  /\ reaped \subseteq {"sentry", "child"}
  /\ sig \in [Proc -> SUBSET Deadly]
  /\ known \subseteq {"sentry", "child", "umbilical"}
  /\ watching \subseteq {"agent", "sentry"}
  /\ sigchld \in BOOLEAN /\ plan \in BOOLEAN
  /\ down \subseteq {"child", "umbilical"}
  /\ rings \in 0..2 /\ answers \in 0..1 /\ bell \in BOOLEAN
  /\ link \subseteq {"ping", "close"} /\ orderly \in BOOLEAN
  /\ anchors \subseteq {"child", "sentry"}
  /\ pidfile \in {"none", "named", "removed"}
  /\ faults \in 0..MaxFaults
  /\ harmed \subseteq Proc

\* runAgent(): without an agent the process itself becomes the sentry.
Init ==
  /\ mode \in Mode
  /\ parent = TRUE
  /\ at = [p \in Proc |-> CASE p = "agent"  -> IF mode.direct THEN "absent" ELSE "fork"
                            [] p = "sentry" -> IF mode.direct THEN "create" ELSE "absent"
                            [] OTHER        -> "absent"]
  /\ status = [p \in Proc |-> "none"]
  /\ reaped = {}
  /\ sig = [p \in Proc |-> {}]
  /\ known = {} /\ watching = {} /\ sigchld = FALSE /\ down = {} /\ plan = FALSE
  /\ rings = 0 /\ answers = 0 /\ bell = FALSE
  /\ link = {} /\ orderly = FALSE /\ anchors = {}
  /\ pidfile = "none"
  /\ faults = 0
  /\ harmed = {}

----------------------------------------------------------------------------
\* Processes.

Ended(p) == at[p] = "ended"
Alive(p) == at[p] \notin {"absent", "ended"}

\* p goes from one place to another, and nothing else happens to any process.
Move(p, from, to) ==
  /\ at[p] = from
  /\ at' = [at EXCEPT ![p] = to]
  /\ UNCHANGED <<status, reaped, sig>>

\* The end of a process: its handlers go with it, its files are closed, and the
\* anchors of the umbilical are reaped by init(8).
End(p, s) ==
  /\ at' = [at EXCEPT ![p] = "ended"]
  /\ status' = [status EXCEPT ![p] = s]
  /\ watching' = watching \ {p}
  /\ sigchld' = (sigchld \/ p \in {"child", "umbilical"})
  /\ bell' = (bell /\ p # "sentry")
  /\ anchors' = IF p = "umbilical" THEN {} ELSE anchors

Send(S, s) == sig' = [p \in Proc |-> IF p \in S THEN sig[p] \cup {s} ELSE sig[p]]

\* The process groups, by their members: a zombie still is one, and so is an anchor.
ChildGroup  == {"child", "kin"}
ChildPinned ==
  \/ "child" \in anchors
  \/ at["kin"] = "running"
  \/ at["child"] # "absent" /\ "child" \notin reaped
SentryPinned == "sentry" \in anchors \/ "sentry" \notin reaped

\* Something goes wrong.
Happens(f) ==
  /\ f \in mode.fault
  /\ faults < MaxFaults
  /\ faults' = faults + 1

\* The ends of what the processes share.
ChildListens == at["child"] \in {"start", "wait", "prepare", "ready"}
LinkOpen     == at["sentry"] \notin {"group", "remove", "unwatch", "reap", "finish", "ended"}
AgentLost    == ~mode.direct /\ Ended("agent")

----------------------------------------------------------------------------
\* The agent: runAgentProcess_().

AgentForks ==
  /\ at["agent"] = "fork"
  /\ at' = [at EXCEPT !["agent"] = "watch", !["sentry"] = "create"]
  /\ known' = known \cup {"sentry"}
  /\ UNCHANGED <<status, reaped, sig, watching, sigchld, down, plan, sync,
                 umbilical, pidfile, setting>>

AgentWatches ==
  /\ Move("agent", "watch", "wait")
  /\ watching' = watching \cup {"agent"}
  /\ UNCHANGED <<known, sigchld, down, plan, sync, umbilical, pidfile, setting>>

\* An agent whose sentry dumped core does the same.
AgentWaited ==
  /\ at["agent"] = "wait"
  /\ Ended("sentry")
  /\ IF status["sentry"] = "dump"
     THEN End("agent", "dump") /\ UNCHANGED <<reaped, sig>>
     ELSE /\ Move("agent", "wait", "unwatch")
          /\ UNCHANGED <<watching, sigchld, bell, anchors>>
  /\ UNCHANGED <<known, down, plan, rings, answers, link, orderly, pidfile, setting>>

\* Mutant of AgentUnwatches: the handlers stay.
AgentStaysWatching ==
  /\ Move("agent", "unwatch", "reap")
  /\ UNCHANGED <<held, sync, umbilical, pidfile, setting>>

AgentUnwatches ==
  /\ Move("agent", "unwatch", "reap")
  /\ watching' = watching \ {"agent"}
  /\ UNCHANGED <<known, sigchld, down, plan, sync, umbilical, pidfile, setting>>

\* The pid is forgotten as the sentry is reaped.
AgentReaps ==
  /\ at["agent"] = "reap"
  /\ at' = [at EXCEPT !["agent"] = "finish"]
  /\ reaped' = reaped \cup {"sentry"}
  /\ known' = known \ {"sentry"}
  /\ UNCHANGED <<status, sig, watching, sigchld, down, plan, sync, umbilical,
                 pidfile, setting>>

AgentExits ==
  /\ at["agent"] = "finish"
  /\ End("agent", status["sentry"])
  /\ UNCHANGED <<reaped, sig, known, down, plan, rings, answers, link, orderly,
                 pidfile, setting>>

\* monitorParent_(): an agent adopted by init(8) exits.
AgentOrphaned ==
  /\ Alive("agent")
  /\ mode.orphaned /\ ~parent
  /\ End("agent", "fail")
  /\ UNCHANGED <<reaped, sig, known, down, plan, rings, answers, link, orderly,
                 pidfile, setting>>

----------------------------------------------------------------------------
\* The sentry: createSentry() and announceSentryPidFile().

\* forkChildProcess(); SIGCHLD is watched for already.
ForkChild ==
  /\ at["sentry"] = "create"
  /\ at' = [at EXCEPT !["sentry"] = "record", !["child"] = "start"]
  /\ bell' = TRUE
  /\ UNCHANGED <<status, reaped, sig, held, rings, answers, umbilical, pidfile, setting>>

\* superviseChildProcess(): looks at the processes whose pids are in S, disables the
\* latches of those that have ended, and dumps core if the child did.
Supervised(S, to) ==
  /\ down' = down \cup {p \in S : Ended(p)}
  /\ IF "child" \in S /\ status["child"] = "dump"
     THEN End("sentry", "dump") /\ UNCHANGED <<reaped, sig>>
     ELSE Move("sentry", at["sentry"], to) /\ UNCHANGED <<watching, sigchld, bell, anchors>>

\* Mutant of RecordChild: no supervision is forced.
RecordChildOnly ==
  /\ Move("sentry", "record", "watch")
  /\ known' = known \cup {"child"}
  /\ UNCHANGED <<watching, sigchld, down, plan, sync, umbilical, pidfile, setting>>

\* The child may have ended before its pid is recorded.
RecordChild ==
  /\ at["sentry"] = "record"
  /\ known' = known \cup {"child"}
  /\ Supervised({"child"}, "watch")
  /\ UNCHANGED <<plan, rings, answers, link, orderly, pidfile, setting>>

SentryWatches ==
  /\ Move("sentry", "watch", "announce")
  /\ watching' = watching \cup {"sentry"}
  /\ UNCHANGED <<known, sigchld, down, plan, sync, umbilical, pidfile, setting>>

AnnouncePidFile ==
  /\ Move("sentry", "announce", "fork")
  /\ pidfile' = "named"
  /\ UNCHANGED <<held, sync, umbilical, setting>>

\* The pidfile names another sentry that is active.
FindActive ==
  /\ Move("sentry", "announce", "abandon")
  /\ UNCHANGED <<held, sync, umbilical, pidfile, setting>>

----------------------------------------------------------------------------
\* The sentry: runSentry().

ForkUmbilical ==
  /\ at["sentry"] = "fork"
  /\ at' = [at EXCEPT !["sentry"] = "forking", !["umbilical"] = "child"]
  /\ UNCHANGED <<status, reaped, sig, held, sync, umbilical, pidfile, setting>>

\* Mutant of UmbilicalForked: it does not wait for the umbilical to be prepared.
UmbilicalForkedEarly ==
  /\ Move("sentry", "forking", "adopt")
  /\ UNCHANGED <<held, sync, umbilical, pidfile, setting>>

\* The fork returns once the umbilical is prepared ...
UmbilicalForked ==
  /\ at["umbilical"] \notin {"child", "sentry"}
  /\ Move("sentry", "forking", "adopt")
  /\ UNCHANGED <<held, sync, umbilical, pidfile, setting>>

\* ... and ert_terminate() ends the sentry where it stands if that fails.
UmbilicalFails ==
  /\ at["sentry"] = "forking"
  /\ Ended("umbilical")
  /\ End("sentry", "fail")
  /\ UNCHANGED <<reaped, sig, known, down, plan, rings, answers, link, orderly,
                 pidfile, setting>>

\* reapSentry_() is called once the umbilical process is recorded.
AdoptUmbilical ==
  /\ at["sentry"] = "adopt"
  /\ known' = known \cup {"umbilical"}
  /\ Supervised({"child", "umbilical"}, "ring")
  /\ UNCHANGED <<plan, rings, answers, link, orderly, pidfile, setting>>

\* A ring that nobody can hear is not an error.
Ring(from, to) ==
  /\ Move("sentry", from, to)
  /\ rings' = IF ChildListens THEN rings + 1 ELSE rings
  /\ UNCHANGED <<held, answers, bell, umbilical, pidfile, setting>>

RingChild == Ring("ring", "hear")

\* Mutant of HearChild: only an answer will do.
HearAnswer ==
  /\ Move("sentry", "hear", "release")
  /\ answers > 0
  /\ answers' = 0
  /\ UNCHANGED <<held, rings, bell, umbilical, pidfile, setting>>

\* The child answers, or it has gone.
HearChild ==
  /\ Move("sentry", "hear", "release")
  /\ answers > 0 \/ ~ChildListens
  /\ answers' = 0
  /\ UNCHANGED <<held, rings, bell, umbilical, pidfile, setting>>

ReleaseChild == Ring("release", "exec")

\* The child has closed its end, by exec() or by its end.
ChildExecuted ==
  /\ Move("sentry", "exec", "monitor")
  /\ ~ChildListens
  /\ bell' = FALSE
  /\ UNCHANGED <<held, rings, answers, umbilical, pidfile, setting>>

\* The first ping; later ones make no difference here.
Ping ==
  /\ at["sentry"] = "monitor"
  /\ "ping" \notin link
  /\ link' = link \cup {"ping"}
  /\ UNCHANGED <<processes, held, sync, orderly, anchors, pidfile, setting>>

\* Mutant of Bereft: the pipe of the agent is not polled.
UmbilicalGone == Ended("umbilical")

\* pollFdUmbilical_(), pollFdReapUmbilicalEvent_() and pollFdParent_().
Bereft == Ended("umbilical") \/ AgentLost

NoticeLoss ==
  /\ at["sentry"] = "monitor"
  /\ ~plan /\ Bereft
  /\ plan' = TRUE
  /\ UNCHANGED <<processes, known, watching, sigchld, down, sync, umbilical,
                 pidfile, setting>>

\* The termination plan: SIGTERM or SIGABRT, and SIGKILL at last.
Terminate(s) ==
  /\ at["sentry"] = "monitor"
  /\ plan /\ s \notin sig["child"] /\ ~Ended("child")
  /\ Send({"child"}, s)
  /\ UNCHANGED <<at, status, reaped, held, sync, umbilical, pidfile, setting>>

MonitorDone ==
  /\ Move("sentry", "monitor", "stop")
  /\ "child" \in down
  /\ UNCHANGED <<held, sync, umbilical, pidfile, setting>>

\* stopUmbilicalProcess().
StopUmbilical ==
  /\ IF Ended("umbilical")
     THEN Move("sentry", "stop", "group") /\ UNCHANGED link
     ELSE Move("sentry", "stop", "drain") /\ link' = link \cup {"close"}
  /\ UNCHANGED <<held, sync, orderly, anchors, pidfile, setting>>

\* It ends with the umbilical process, or by its timeout.
UmbilicalStopped ==
  /\ Move("sentry", "drain", "group")
  /\ UNCHANGED <<held, sync, umbilical, pidfile, setting>>

\* killChildProcessGroup(), for what the child leaves behind.
CleanGroup ==
  /\ at["sentry"] = "group"
  /\ at' = [at EXCEPT !["sentry"] = "remove"]
  /\ Send(ChildGroup, "kill")
  /\ UNCHANGED <<status, reaped, held, sync, umbilical, pidfile, setting>>

RemovePidFile ==
  /\ Move("sentry", "remove", "unwatch")
  /\ pidfile' = "removed"
  /\ UNCHANGED <<held, sync, umbilical, setting>>

SentryUnwatches ==
  /\ Move("sentry", "unwatch", "reap")
  /\ watching' = watching \ {"sentry"}
  /\ UNCHANGED <<known, sigchld, down, plan, sync, umbilical, pidfile, setting>>

\* reapChildProcess() waits for the child, and forgets its pid.
ReapChild(from, to) ==
  /\ at["sentry"] = from
  /\ Ended("child")
  /\ at' = [at EXCEPT !["sentry"] = to]
  /\ reaped' = reaped \cup {"child"}
  /\ known' = known \ {"child"}
  /\ UNCHANGED <<status, sig, watching, sigchld, down, plan, sync, umbilical,
                 pidfile, setting>>

SentryReaps == ReapChild("reap", "finish")

\* Mutant of SentryExits: the status of the child is not taken over.
SentrySucceeds ==
  /\ at["sentry"] = "finish"
  /\ End("sentry", "ok")
  /\ UNCHANGED <<reaped, sig, known, down, plan, rings, answers, link, orderly,
                 pidfile, setting>>

SentryExits ==
  /\ at["sentry"] = "finish"
  /\ End("sentry", status["child"])
  /\ UNCHANGED <<reaped, sig, known, down, plan, rings, answers, link, orderly,
                 pidfile, setting>>

----------------------------------------------------------------------------
\* The sentry: closeSentry(), when the pidfile is taken or a call has failed.

CallFails ==
  /\ Happens("error")
  /\ at["sentry"] \in {"watch", "announce", "fork", "ring", "hear", "release", "exec",
                       "monitor", "stop", "drain", "group", "remove"}
  /\ Move("sentry", at["sentry"], "abandon")
  /\ UNCHANGED <<held, sync, umbilical, pidfile, mode, parent, harmed>>

\* The pidfile goes first, and then the bell ...
Abandon ==
  /\ Move("sentry", "abandon", "detach")
  /\ pidfile' = IF pidfile = "named" THEN "removed" ELSE pidfile
  /\ bell' = FALSE
  /\ UNCHANGED <<held, rings, answers, umbilical, setting>>

\* ... then the job control ...
Detach ==
  /\ Move("sentry", "detach", "slay")
  /\ watching' = watching \ {"sentry"}
  /\ UNCHANGED <<known, sigchld, down, plan, sync, umbilical, pidfile, setting>>

\* ... then the child, and the umbilical socket last.
Slay ==
  /\ at["sentry"] = "slay"
  /\ at' = [at EXCEPT !["sentry"] = "bury"]
  /\ Send({"child"}, "kill")
  /\ UNCHANGED <<status, reaped, held, sync, umbilical, pidfile, setting>>

\* The exit code is EXIT_FAILURE; the umbilical notices the end of its socket.
Bury ==
  /\ at["sentry"] = "bury"
  /\ Ended("child")
  /\ reaped' = reaped \cup {"child"}
  /\ known' = known \ {"child"}
  /\ End("sentry", "fail")
  /\ UNCHANGED <<sig, down, plan, rings, answers, link, orderly, pidfile, setting>>

----------------------------------------------------------------------------
\* The child: runChildProcess_().

\* The child drops its copies of the sentry's ends before it waits.
ChildStarts ==
  /\ Move("child", "start", "wait")
  /\ UNCHANGED <<held, sync, umbilical, pidfile, setting>>

\* A first ring: the pidfile is announced, and the umbilical in place.
ChildAnswers ==
  /\ rings > 0 /\ bell
  /\ Move("child", "wait", "prepare")
  /\ rings' = rings - 1
  /\ answers' = 1
  /\ UNCHANGED <<held, bell, umbilical, pidfile, setting>>

ChildPrepares ==
  /\ Move("child", "prepare", "ready")
  /\ UNCHANGED <<held, sync, umbilical, pidfile, setting>>

\* Mutant of ChildExecutes: it does not wait for the second ring.
ChildExecutesUnbidden ==
  /\ Move("child", "ready", "program")
  /\ rings' = rings - 1
  /\ UNCHANGED <<held, answers, bell, umbilical, pidfile, setting>>

\* A second ring: the pid is announced.
ChildExecutes ==
  /\ rings > 0
  /\ Move("child", "ready", "program")
  /\ rings' = rings - 1
  /\ UNCHANGED <<held, answers, bell, umbilical, pidfile, setting>>

\* The child gives up when the sentry closes its end, or when it fails to answer, to
\* prepare or to execute the program.
ChildQuits ==
  /\ \/ at["child"] \in {"wait", "ready"} /\ rings = 0 /\ ~bell
     \/ at["child"] = "wait" /\ rings > 0 /\ ~bell
     \/ at["child"] = "prepare" /\ "error" \in mode.fault
     \/ at["child"] = "ready" /\ "error" \in mode.fault /\ rings > 0
  /\ End("child", "fail")
  /\ UNCHANGED <<reaped, sig, known, down, plan, rings, answers, link, orderly,
                 pidfile, setting>>

ProgramForks ==
  /\ at["child"] = "program"
  /\ at["kin"] = "absent"
  /\ at' = [at EXCEPT !["kin"] = "running"]
  /\ UNCHANGED <<status, reaped, sig, held, sync, umbilical, pidfile, setting>>

ProgramEnds ==
  /\ at["child"] = "program"
  /\ End("child", "ok")
  /\ UNCHANGED <<reaped, sig, known, down, plan, rings, answers, link, orderly,
                 pidfile, setting>>

----------------------------------------------------------------------------
\* The umbilical process: createUmbilicalProcess() and runUmbilicalProcessChild_().

\* Mutant of Anchor: no anchor is created.
AnchorNothing(g, pinned, to) ==
  /\ Move("umbilical", g, to)
  /\ UNCHANGED <<held, sync, umbilical, pidfile, setting>>

\* An anchor joins a process group, which must still have a member.
Anchor(g, pinned, to) ==
  /\ at["umbilical"] = g
  /\ IF pinned
     THEN /\ Move("umbilical", g, to)
          /\ anchors' = anchors \cup {g}
          /\ UNCHANGED <<watching, sigchld, bell>>
     ELSE End("umbilical", "fail") /\ UNCHANGED <<reaped, sig>>
  /\ UNCHANGED <<known, down, plan, rings, answers, link, orderly, pidfile, setting>>

AnchorChild  == Anchor("child", ChildPinned, "sentry")
AnchorSentry == Anchor("sentry", SentryPinned, "sync")

Synchronise ==
  /\ link # {} \/ ~LinkOpen
  /\ Move("umbilical", "sync", "monitor")
  /\ UNCHANGED <<held, sync, umbilical, pidfile, setting>>

\* The loop of the umbilical ends when it has read the close request, or end of file.
LinkDone ==
  /\ "close" \in link \/ ~LinkOpen
  /\ Move("umbilical", "monitor", "killChild")
  /\ orderly' = ("close" \in link)
  /\ UNCHANGED <<held, sync, link, anchors, pidfile, setting>>

\* Mutant of UmbilicalKillsChild: only a shutdown that was not orderly kills the group.
UmbilicalSparesChild ==
  /\ at["umbilical"] = "killChild"
  /\ Send(IF orderly THEN {} ELSE ChildGroup, "kill")
  /\ at' = [at EXCEPT !["umbilical"] = "killSentry"]
  /\ UNCHANGED <<status, reaped, held, sync, umbilical, pidfile, setting>>

UmbilicalKillsChild ==
  /\ at["umbilical"] = "killChild"
  /\ Send(ChildGroup, "kill")
  /\ at' = [at EXCEPT !["umbilical"] = "killSentry"]
  /\ UNCHANGED <<status, reaped, held, sync, umbilical, pidfile, setting>>

\* The sentry's group is killed too if the shutdown was not orderly.
UmbilicalEnds ==
  /\ at["umbilical"] = "killSentry"
  /\ Send(IF orderly THEN {} ELSE {"sentry"}, "kill")
  /\ End("umbilical", "ok")
  /\ UNCHANGED <<reaped, known, down, plan, rings, answers, link, orderly, pidfile,
                 setting>>

----------------------------------------------------------------------------
\* Signals, and what comes from outside.

Cause(s) == CASE s = "term" -> "term" [] s = "quit" -> "dump" [] s = "kill" -> "kill"

\* A signal without a handler ends the process, whatever the program does with others.
Die(p, s) ==
  /\ Alive(p) /\ s \in sig[p]
  /\ p \notin watching \/ s = "kill"
  /\ End(p, Cause(s))
  /\ harmed' = harmed \cup {p}
  /\ UNCHANGED <<reaped, sig, known, down, plan, rings, answers, link, orderly,
                 pidfile, mode, parent, faults>>

ProgramHandles(s) ==
  /\ at["child"] = "program"
  /\ s \in sig["child"] \ {"kill"}
  /\ sig' = [sig EXCEPT !["child"] = @ \ {s}]
  /\ UNCHANGED <<at, status, reaped, held, sync, umbilical, pidfile, setting>>

Ward(p) == IF p = "agent" THEN "sentry" ELSE "child"

\* raiseAgentSignal_() and raiseSentrySignal_(): the signal is passed on.
Forward(p, s) ==
  /\ p \in watching /\ Alive(p)
  /\ s \in sig[p] \ {"kill"}
  /\ sig' = [sig EXCEPT ![p] = @ \ {s}, ![Ward(p)] = @ \cup {s}]
  /\ UNCHANGED <<at, status, reaped, held, sync, umbilical, pidfile, setting>>

\* reapSentry_(), on SIGCHLD.
Supervise ==
  /\ at["sentry"] \notin {"reap", "finish", "slay", "bury", "ended"}
  /\ sigchld
  /\ IF "child" \in known /\ status["child"] = "dump"
     THEN /\ End("sentry", "dump")
          /\ UNCHANGED <<reaped, sig>>
     ELSE /\ sigchld' = FALSE
          /\ UNCHANGED <<processes, watching, bell, anchors>>
  /\ down' = down \cup {p \in known \cap {"child", "umbilical"} : Ended(p)}
  /\ UNCHANGED <<known, plan, rings, answers, link, orderly, pidfile, setting>>

\* A zombie whose parent has ended is reaped by init(8).
Adopted(p) ==
  /\ Ended(p) /\ p \notin reaped
  /\ \/ p = "child" /\ Ended("sentry")
     \/ p = "sentry" /\ (mode.direct \/ Ended("agent"))
  /\ reaped' = reaped \cup {p}
  /\ UNCHANGED <<at, status, sig, held, sync, umbilical, pidfile, setting>>

Signal(p, s) ==
  /\ Happens("signal")
  /\ Alive(p) /\ \A q \in {"agent", "sentry", "child"} : sig[q] \cap {"term", "quit"} = {}
  /\ Send({p}, s)
  /\ UNCHANGED <<at, status, reaped, held, sync, umbilical, pidfile, mode, parent, harmed>>

Kill(p) ==
  /\ Happens("kill")
  /\ Alive(p) /\ "kill" \notin sig[p]
  /\ Send({p}, "kill")
  /\ UNCHANGED <<at, status, reaped, held, sync, umbilical, pidfile, mode, parent, harmed>>

ParentDies ==
  /\ Happens("parent")
  /\ parent
  /\ parent' = FALSE
  /\ UNCHANGED <<processes, held, sync, umbilical, pidfile, mode, harmed>>

----------------------------------------------------------------------------
AgentStep ==
  \/ AgentForks \/ AgentWatches \/ AgentWaited \/ AgentUnwatches \/ AgentReaps
  \/ AgentExits

SentryStep ==
  \/ ForkChild \/ RecordChild \/ SentryWatches \/ AnnouncePidFile \/ FindActive
  \/ ForkUmbilical \/ UmbilicalForked \/ UmbilicalFails \/ AdoptUmbilical
  \/ RingChild \/ HearChild \/ ReleaseChild \/ ChildExecuted
  \/ MonitorDone \/ StopUmbilical \/ UmbilicalStopped \/ CleanGroup
  \/ RemovePidFile \/ SentryUnwatches \/ SentryReaps \/ SentryExits
  \/ Abandon \/ Detach \/ Slay \/ Bury

ChildStep ==
  \/ ChildStarts \/ ChildAnswers \/ ChildPrepares \/ ChildExecutes \/ ChildQuits

UmbilicalStep ==
  \/ AnchorChild \/ AnchorSentry \/ Synchronise \/ LinkDone
  \/ UmbilicalKillsChild \/ UmbilicalEnds

Next ==
  \/ AgentStep \/ AgentOrphaned
  \/ SentryStep \/ CallFails \/ Ping \/ NoticeLoss \/ Supervise
  \/ ChildStep \/ ProgramForks \/ ProgramEnds
  \/ UmbilicalStep
  \/ \E s \in {"term", "kill"} : Terminate(s)
  \/ \E p \in Proc, s \in Deadly : Die(p, s)
  \/ \E s \in Deadly : ProgramHandles(s)
  \/ \E p \in {"agent", "sentry"}, s \in Deadly : Forward(p, s)
  \/ \E p \in {"sentry", "child"} : Adopted(p)
  \/ \E p \in {"agent", "sentry"}, s \in {"term", "quit"} : Signal(p, s)
  \/ \E p \in Proc \ {"kin"} : Kill(p)
  \/ ParentDies

Spec == Init /\ [][Next]_vars

\* The processes run, signals are delivered and the monitor of the parent polls; the
\* program need never end, nor what it forks, and no fault has to happen.
Fairness ==
  /\ WF_vars(AgentStep) /\ WF_vars(AgentOrphaned)
  /\ WF_vars(SentryStep) /\ WF_vars(Ping) /\ WF_vars(NoticeLoss \/ Terminate("kill"))
  /\ WF_vars(Supervise)
  /\ WF_vars(ChildStep) /\ WF_vars(UmbilicalStep)
  /\ WF_vars(\E p \in Proc, s \in Deadly : Die(p, s))
  /\ WF_vars(\E p \in {"agent", "sentry"}, s \in Deadly : Forward(p, s))

FairSpec == Spec /\ Fairness

----------------------------------------------------------------------------
\* Properties.

\* ert_ensure() in killChildProcess(), pauseChildProcessGroup() and the handlers of
\* the agent: while signals are passed on, the process they are passed on to has its
\* pid recorded and has not been reaped, and so has the child that is to be slain.
SignalsFindTheirProcess ==
  /\ "sentry" \in watching \/ at["sentry"] \in {"slay", "bury"}
       => "child" \in known /\ "child" \notin reaped
  /\ "agent" \in watching => "sentry" \in known /\ "sentry" \notin reaped

\* "This ensures that the pgid of the anchor will not be repurposed" (agent.c): a
\* process group is signalled only while a process of the family is its member.
GroupsArePinned ==
  /\ at["sentry"] = "group" \/ "sentry" \in watching => ChildPinned
  /\ at["umbilical"] = "killChild" => ChildPinned
  /\ at["umbilical"] = "killSentry" => SentryPinned

\* "Beware of the inherent race here" (childprocess.c and sentry.c): once a process
\* is recorded, its end is in its latch, or SIGCHLD is still to be served.
DeathIsNotMissed ==
  \A p \in {"child", "umbilical"} \cap known :
    (Ended(p) /\ Alive("sentry")) => (p \in down \/ sigchld)

\* "The child program will run only after the pidfile has been created" (sentry.c),
\* and only with an umbilical process that holds on to both process groups.
ProgramIsGuarded ==
  [][at["child"] # "program" /\ at'["child"] = "program"
       => /\ pidfile # "none"
          /\ anchors = {"child", "sentry"} \/ Ended("umbilical")]_vars

\* The family keeps the promise of Custody: the sentry is the custodian, the pidfile is
\* the name, and the umbilical process guards the program once it has both anchors.
Pid ==
  CASE at["child"] = "absent"  -> "none"
    [] at["child"] = "program" -> "runs"
    [] Ended("child")          -> IF "child" \in reaped THEN "free" ELSE "zombie"
    [] OTHER                   -> "waits"

Name ==
  CASE pidfile = "none" -> "none" [] pidfile = "named" -> "given" [] OTHER -> "taken"

Guard ==
  CASE at["umbilical"] \in {"absent", "child", "sentry"} -> "none"
    [] Ended("umbilical")                                -> "gone"
    [] OTHER                                             -> "guards"

Service == INSTANCE Custody WITH
  Reporter  <- {"agent", "sentry"},
  Custodian <- "sentry",
  Code      <- Status \ {"none"},
  pid       <- Pid,
  outcome   <- status["child"],
  name      <- Name,
  guard     <- Guard,
  report    <- [p \in {"agent", "sentry"} |-> status[p]],
  harmed    <- harmed \cap {"agent", "sentry"}
ImplementsCustody == Service!Spec

\* The exit code of the program becomes that of the sentry and of the agent, unless
\* one of these two is itself ended by a signal, or fails.
ExitCodeIsRelayed ==
  \A p \in {"agent", "sentry"} :
    (Ended(p) /\ harmed \cap {"agent", "sentry"} = {} /\ status[p] # "fail")
      => Ended("child") /\ status[p] = status["child"]

\* The end of the sentry, at whatever point and by whatever cause, ends the child and
\* all that is in its process group, unless the umbilical process is killed as well.
SentryLossEndsFamily ==
  Ended("sentry") ~> \/ ~Alive("child") /\ ~Alive("kin") /\ ~Alive("umbilical")
                     \/ "umbilical" \in harmed

\* So does the end of the umbilical process or of the agent, unless the sentry is
\* killed as well.
LossEndsProgram ==
  (Ended("umbilical") \/ AgentLost)
    ~> ~Alive("child") \/ {"sentry", "umbilical"} \subseteq harmed

\* The end of the child, at whatever point, ends everybody else.
FamilyEnds ==
  Ended("child") ~> \A p \in {"agent", "sentry", "umbilical"} : ~Alive(p)

\* "If configured, the pidsentry shall monitor its parent and terminate if it becomes
\* orphaned" (README.md).
OrphanEnds == mode.orphaned /\ ~parent ~> ~Alive("sentry")
=============================================================================
