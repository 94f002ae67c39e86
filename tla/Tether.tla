------------------------------- MODULE Tether -------------------------------
(***************************************************************************)
(* The tether: the pipe on which the child writes, the tether thread that  *)
(* copies it to stdout (tether.c), and the loop of monitorChildProcess()   *)
(* in childprocess.c as far as it watches the tether, the child and the    *)
(* parent, and terminates the child.                                       *)
(*                                                                         *)
(* The thread and the loop are poll loops as in Umbilical.  Time passes in *)
(* ticks, when neither has anything left to do, or the sentry is stopped.  *)
(* How many ticks make a period is a parameter.                            *)
(***************************************************************************)
EXTENDS Naturals

CONSTANTS
  Scenario,      \* what may happen, and whether stdout has O_APPEND
  Period,        \* ticks: half of the tether timeout; Off when that is disabled
  SignalPeriod,  \* ticks between the signals that terminate the child
  DrainTimeout,  \* ticks; Off when the timeout is disabled
  PingPeriod,    \* ticks between the pings of a thread that blocks
  Off,           \* a timer whose mPeriod is zero: more ticks than any other has
  PipeSize,      \* what the tether pipe holds
  BufSize        \* what the thread reads at once when it copies

Faults == {"sentryStops", "childStops", "sigchld", "parent", "umbilical"}

CycleLimit == 2
Patience   == CycleLimit * Period   \* the tether timeout

\* The history of the silence tells no more ticks apart than the timers measure.
Horizon == IF Patience > SignalPeriod THEN Patience ELSE SignalPeriod

ASSUME TetherAssumption ==
  /\ Scenario \subseteq [fault : SUBSET Faults, append : BOOLEAN]
  /\ Off \in Nat
  /\ Period \in 1..Off /\ DrainTimeout \in 1..Off
  /\ SignalPeriod \in 1..(Off - 1) /\ PingPeriod \in 1..(Off - 1)
  /\ PipeSize \in Nat \ {0}
  /\ BufSize \in Nat \ {0}

Thread == {"monitor", "tether"}

VARIABLES
  fault,      \* what may happen
  sentry,     \* whether the sentry runs or is stopped, with both its threads
  child,      \* the child process
  latch,      \* mLatch.mChild, which SIGCHLD sets or disables
  writers,    \* the processes that have the writing end of the tether open
  pipe,       \* how much the tether pipe holds
  out,        \* how much stdout holds that its reader has not read
  reader,     \* whether stdout has a reader
  parent,     \* the parent: not watched, alive, dead, or known to be dead
  phase,      \* what each thread has come to
  ready,      \* what poll(2) reported to each thread and is still to be served
  copy,       \* mBuf is used, because stdout has O_APPEND
  buf,        \* what mBuf holds
  direction,  \* whether the thread waits for input or for room on stdout
  finish,     \* why the thread has finished draining
  control,    \* a byte in the control pipe
  drain,      \* what is left of the drain timer
  timer,      \* what is left of the timers of the monitor
  count,      \* mTether.mCycleCount
  idle,       \* ticks since mActivity.mSince
  tethered,   \* the monitor polls the control pipe of the thread
  down,       \* mChildLatchDisabled
  plan,       \* mSignalPlan
  sent,       \* the signal of the plan that was sent last
  since,      \* history: ticks since the tether was written or the child ran again,
              \* and since the first signal once there is a plan
  blocked     \* history: output has since had no room on stdout for a tick

setting == <<fault, sentry>>
childs  == <<child, latch, writers>>
stdout  == <<out, reader>>
drains  == <<copy, buf, direction, finish, control, drain>>
watches == <<timer, count, tethered, down, plan, sent>>
history == <<since, blocked>>
vars == <<setting, childs, pipe, stdout, parent, phase, ready, drains, watches,
          idle, history>>

Pollees == [tether |-> {"control", "input", "output", "drain"},
            monitor |-> {"tether", "parent", "event", "silence", "signal", "ping"}]

TypeOK ==
  /\ fault \subseteq Faults
  /\ sentry \in {"running", "stopped"}
  /\ child \in {"running", "stopped", "dead"}
  /\ latch \in {"clear", "set", "disabled"}
  /\ writers \subseteq {"child", "heir"}
  /\ pipe \in 0..PipeSize /\ buf \in 0..BufSize /\ out \in 0..1
  /\ reader \in {"open", "closed"}
  /\ parent \in {"none", "alive", "dead", "seen"}
  /\ phase["tether"] \in {"loop", "write", "left", "closed", "exited"}
  /\ phase["monitor"] \in {"loop", "join", "done"}
  /\ \A t \in Thread : ready[t] \subseteq Pollees[t]
  /\ copy \in BOOLEAN /\ direction \in {"input", "output"}
  /\ finish \in {"no", "empty", "broken", "expired"}
  /\ control \in BOOLEAN /\ drain \in 0..Off
  /\ timer \in [{"silence", "signal", "ping"} -> 0..Off]
  /\ count \in 0..CycleLimit /\ idle \in 0..Period
  /\ tethered \in BOOLEAN /\ down \in BOOLEAN
  /\ plan \in {"none", "terminate", "abort"}
  /\ sent \in {"none", "first", "kill"}
  /\ since \in 0..Horizon /\ blocked \in BOOLEAN

Init ==
  /\ \E s \in Scenario : fault = s.fault /\ copy = s.append
  /\ sentry = "running"
  /\ child = "running" /\ latch = "clear"
  /\ tethered \in BOOLEAN
  /\ writers \in IF tethered THEN {{"child"}, {"child", "heir"}} ELSE {{}}
  /\ pipe = 0 /\ out = 0 /\ reader = "open"
  /\ parent \in IF "parent" \in fault THEN {"alive"} ELSE {"none"}
  /\ phase = [t \in Thread |-> "loop"]
  /\ ready = [t \in Thread |-> {}]
  /\ buf = 0 /\ direction = "input"
  /\ finish = "no" /\ control = FALSE /\ drain = Off
  /\ timer = [silence |-> IF tethered THEN Period ELSE Off,
              signal |-> Off, ping |-> Off]
  /\ count = 0 /\ idle = 0 /\ down = FALSE
  /\ plan = "none" /\ sent = "none"
  /\ since = 0 /\ blocked = FALSE

----------------------------------------------------------------------------
\* The poll loops.

Looping(t) == sentry = "running" /\ phase[t] = "loop"

\* The thread has no further use for the control pipe; the monitor knows that
\* the child is dead and that the thread has closed the control pipe.
Complete(t) == IF t = "tether" THEN finish # "no" ELSE down /\ ~tethered

Hangup == writers = {}

Reported(t) ==
  {f \in Pollees[t] :
     CASE f = "control" -> control
       [] f = "input"   -> Hangup \/ (direction = "input" /\ pipe > 0)
       [] f = "output"  -> reader = "closed" \/ (direction = "output" /\ out = 0)
       [] f = "drain"   -> drain = 0
       [] f = "tether"  -> tethered /\ phase["tether"] \in {"closed", "exited"}
       [] f = "parent"  -> parent = "dead"
       [] f = "event"   -> latch = "set" \/ (latch = "disabled" /\ ~down)
       [] OTHER         -> timer[f] = 0}

Poll(t) ==
  /\ Looping(t)
  /\ ready[t] = {} /\ ~Complete(t)
  /\ Reported(t) # {}
  /\ ready' = [ready EXCEPT ![t] = Reported(t)]
  /\ UNCHANGED <<setting, childs, pipe, stdout, parent, phase, drains, watches, idle,
                 history>>

\* Descriptors and then timers are served in the order of their index.
Rank == [control |-> 1, input |-> 2, output |-> 3, drain |-> 4,
         tether |-> 1, parent |-> 2, event |-> 3, silence |-> 4, signal |-> 5,
         ping |-> 6]

Serve(t, f) ==
  /\ Looping(t)
  /\ f \in ready[t] /\ \A g \in ready[t] : Rank[f] <= Rank[g]
  /\ ready' = [ready EXCEPT ![t] = @ \ {f}]

SetTimer(f, n) == timer' = [timer EXCEPT ![f] = n]

----------------------------------------------------------------------------
\* The tether thread.

\* pollFdControl_(): the monitor asks for the flush, and the drain timer starts.
FlushRequested ==
  /\ Serve("tether", "control")
  /\ control' = FALSE
  /\ drain' = DrainTimeout
  /\ UNCHANGED <<setting, childs, pipe, stdout, parent, phase, copy, buf, direction,
                 finish, watches, idle, history>>

\* pollFdDrain_() is called for input and for output, and is activity.
Draining == \E f \in {"input", "output"} : Serve("tether", f)

\* It does nothing once the thread has finished.
DrainIgnored ==
  /\ Draining
  /\ finish # "no"
  /\ UNCHANGED <<setting, childs, pipe, stdout, parent, phase, drains, watches, idle,
                 history>>

DrainSource == IF copy THEN buf ELSE pipe

\* Mutant of InputEmpty: what is in the buffer is forgotten.
InputEmptyBuffered ==
  /\ Draining
  /\ finish = "no" /\ pipe = 0
  /\ finish' = "empty"
  /\ idle' = 0
  /\ UNCHANGED <<setting, childs, pipe, stdout, parent, phase, copy, buf, direction,
                 control, drain, watches, history>>

\* The input is empty, and poll(2) has reported a hangup of either end.
InputEmpty ==
  /\ Draining
  /\ finish = "no" /\ pipe = 0 /\ DrainSource = 0
  /\ finish' = "empty"
  /\ idle' = 0
  /\ UNCHANGED <<setting, childs, pipe, stdout, parent, phase, copy, buf, direction,
                 control, drain, watches, history>>

\* pollFdDrainCopy_() reads when the buffer is empty.
ReadInput ==
  /\ Draining
  /\ finish = "no" /\ copy /\ buf = 0 /\ pipe > 0
  /\ \E n \in 1..BufSize :
       /\ n = pipe \/ (n < pipe /\ n = BufSize)
       /\ buf' = n /\ pipe' = pipe - n
  /\ direction' = "output"
  /\ idle' = 0
  /\ UNCHANGED <<setting, childs, stdout, parent, phase, copy, finish, control, drain,
                 watches, history>>

\* write(2), or splice(2), is called, and may block.
BeginWrite ==
  /\ Draining
  /\ finish = "no" /\ DrainSource > 0
  /\ phase' = [phase EXCEPT !["tether"] = "write"]
  /\ idle' = 0
  /\ UNCHANGED <<setting, childs, pipe, stdout, parent, drains, watches, history>>

Writing == sentry = "running" /\ phase["tether"] = "write"

\* The thread waits for room while it has something to write, and for input
\* otherwise; splice(2) also takes a hangup for input.
EndWrite(left) ==
  /\ phase' = [phase EXCEPT !["tether"] = "loop"]
  /\ direction' = IF left > 0 \/ (~copy /\ Hangup) THEN "output" ELSE "input"

\* splice(2) returns with what stdout takes at once, write(2) when all is written.
WriteSome ==
  /\ Writing
  /\ reader = "open" /\ out = 0
  /\ out' = 1
  /\ IF copy THEN buf' = buf - 1 /\ pipe' = pipe ELSE buf' = buf /\ pipe' = pipe - 1
  /\ IF copy /\ buf > 1 THEN UNCHANGED <<phase, direction>> ELSE EndWrite(DrainSource - 1)
  /\ UNCHANGED <<setting, childs, reader, parent, ready, copy, finish, control, drain,
                 watches, idle, history>>

\* EPIPE: stdout has no reader.
WriteBroken ==
  /\ Writing
  /\ reader = "closed"
  /\ phase' = [phase EXCEPT !["tether"] = "loop"]
  /\ finish' = "broken"
  /\ UNCHANGED <<setting, childs, pipe, stdout, parent, ready, copy, buf, direction,
                 control, drain, watches, idle, history>>

\* pollFdTimerDisconnected_(): what is left is given up.
DrainExpired ==
  /\ Serve("tether", "drain")
  /\ drain' = Off
  /\ finish' = IF finish = "no" THEN "expired" ELSE finish
  /\ UNCHANGED <<setting, childs, pipe, stdout, parent, phase, copy, buf, direction,
                 control, watches, idle, history>>

\* The thread closes its input, then its end of the control pipe, and then waits
\* for closeTetherThread().
LeaveLoop ==
  /\ Looping("tether")
  /\ ready["tether"] = {} /\ Complete("tether")
  /\ phase' = [phase EXCEPT !["tether"] = "left"]
  /\ UNCHANGED <<setting, childs, pipe, stdout, parent, ready, drains, watches, idle,
                 history>>

CloseControl ==
  /\ sentry = "running"
  /\ phase["tether"] = "left"
  /\ phase' = [phase EXCEPT !["tether"] = "closed"]
  /\ UNCHANGED <<setting, childs, pipe, stdout, parent, ready, drains, watches, idle,
                 history>>

ThreadExit ==
  /\ sentry = "running"
  /\ phase["tether"] = "closed" /\ phase["monitor"] = "join"
  /\ phase' = [phase EXCEPT !["tether"] = "exited"]
  /\ UNCHANGED <<setting, childs, pipe, stdout, parent, ready, drains, watches, idle,
                 history>>

----------------------------------------------------------------------------
\* The monitor: handlers of monitorChildProcess().

\* Mutant of Activate: every reason starts the plan afresh.
ActivateAgain(p) ==
  /\ timer' = [timer EXCEPT !["silence"] = Off, !["signal"] = 0]
  /\ plan' = IF plan = "none" THEN p ELSE plan

\* Mutant of Activate: the silence of the tether still matters.
ActivateBeside(p) ==
  /\ timer' = [timer EXCEPT !["signal"] = IF plan = "none" THEN 0 ELSE @]
  /\ plan' = IF plan = "none" THEN p ELSE plan

\* activateFdTimerTermination_(): the first reason to terminate the child chooses
\* the plan, and its timer is triggered; the silence of the tether matters no more.
Activate(p) ==
  /\ timer' = [timer EXCEPT !["silence"] = Off,
                            !["signal"] = IF plan = "none" THEN 0 ELSE @]
  /\ plan' = IF plan = "none" THEN p ELSE plan

\* pollFdTether_(): the thread has closed the control pipe.
TetherClosed ==
  /\ Serve("monitor", "tether")
  /\ tethered' = FALSE
  /\ UNCHANGED <<setting, childs, pipe, stdout, parent, phase, drains, timer, count,
                 down, plan, sent, idle, history>>

ParentLost ==
  /\ Serve("monitor", "parent")
  /\ Activate("terminate")
  /\ parent' = "seen"
  /\ UNCHANGED <<setting, childs, pipe, stdout, phase, drains, count, tethered, down,
                 sent, idle, history>>

\* pollFdCloseUmbilical_(), which Umbilical describes: the umbilical is lost, and
\* may be found lost again by another handler.
UmbilicalLost ==
  /\ "umbilical" \in fault
  /\ Looping("monitor")
  /\ Activate("terminate")
  /\ UNCHANGED <<setting, childs, pipe, stdout, parent, phase, ready, drains, count,
                 tethered, down, sent, idle, history>>

\* Mutant of ChildRuns: the timeout goes on when the child runs again.
ChildRunsOn ==
  /\ Serve("monitor", "event")
  /\ latch = "set"
  /\ latch' = "clear"
  /\ UNCHANGED <<setting, child, writers, pipe, stdout, parent, phase, drains, watches,
                 idle, history>>

\* pollFdReapChildEvent_(): the child runs, or runs again.
ChildRuns ==
  /\ Serve("monitor", "event")
  /\ latch = "set"
  /\ latch' = "clear"
  /\ IF timer["silence"] # Off
     THEN count' = 0 /\ SetTimer("silence", Period)
     ELSE UNCHANGED <<count, timer>>
  /\ UNCHANGED <<setting, child, writers, pipe, stdout, parent, phase, drains, tethered,
                 down, plan, sent, idle, history>>

\* The child is dead: flushTetherThread(), and the pings that follow.
ChildEnded ==
  /\ Serve("monitor", "event")
  /\ latch = "disabled"
  /\ down' = TRUE
  /\ control' = (phase["tether"] \in {"loop", "write", "left"})
  /\ SetTimer("ping", PingPeriod)
  /\ UNCHANGED <<setting, childs, pipe, stdout, parent, phase, copy, buf, direction,
                 finish, drain, count, tethered, plan, sent, idle, history>>

\* pollFdTimerTether_(): a stopped child is not held to the timeout, and recent
\* activity sets the timer by the time of that activity.
SilenceForgiven ==
  /\ Serve("monitor", "silence")
  /\ timer["silence"] = 0
  /\ child = "stopped" \/ idle < Period
  /\ count' = 0
  /\ SetTimer("silence", IF child = "stopped" THEN Period ELSE Period - idle)
  /\ UNCHANGED <<setting, childs, pipe, stdout, parent, phase, drains, tethered, down,
                 plan, sent, idle, history>>

\* Mutant of SilenceCounted: the count starts afresh with the timer.
SilenceCountedAfresh ==
  /\ Serve("monitor", "silence")
  /\ timer["silence"] = 0
  /\ child # "stopped" /\ idle >= Period
  /\ IF count + 1 < CycleLimit
     THEN count' = 0 /\ SetTimer("silence", Period) /\ UNCHANGED plan
     ELSE count' = CycleLimit /\ Activate("abort")
  /\ UNCHANGED <<setting, childs, pipe, stdout, parent, phase, drains, tethered, down,
                 sent, idle, history>>

SilenceCounted ==
  /\ Serve("monitor", "silence")
  /\ timer["silence"] = 0
  /\ child # "stopped" /\ idle >= Period
  /\ count' = count + 1
  /\ IF count + 1 < CycleLimit
     THEN SetTimer("silence", Period) /\ UNCHANGED plan
     ELSE Activate("abort")
  /\ UNCHANGED <<setting, childs, pipe, stdout, parent, phase, drains, tethered, down,
                 sent, idle, history>>

\* The timer was set afresh, or set off, earlier in the turn.
TimerReset ==
  /\ Serve("monitor", "silence")
  /\ timer["silence"] # 0
  /\ UNCHANGED <<setting, childs, pipe, stdout, parent, phase, drains, watches, idle,
                 history>>

\* The child has ended: SIGCHLD, and its files are closed.
Dies ==
  /\ child' = "dead" /\ latch' = "disabled"
  /\ writers' = writers \ {"child"}

\* Mutant of Signal: the plan stays at its first signal.
SignalFirst ==
  /\ Serve("monitor", "signal")
  /\ timer["signal"] = 0
  /\ sent' = "first"
  /\ since' = IF sent = "none" THEN 0 ELSE since
  /\ SetTimer("signal", SignalPeriod)
  /\ \/ child # "dead" /\ (sent' = "kill" \/ child = "running") /\ Dies
     \/ (child = "dead" \/ sent' = "first") /\ UNCHANGED childs
  /\ UNCHANGED <<setting, pipe, stdout, parent, phase, drains, count, tethered, down,
                 plan, idle, blocked>>

\* pollFdTimerTermination_(): a child may handle the first signal, and takes it
\* only when it runs; nothing withstands SIGKILL.
Signal ==
  /\ Serve("monitor", "signal")
  /\ timer["signal"] = 0
  /\ sent' = IF sent = "none" THEN "first" ELSE "kill"
  /\ since' = IF sent = "none" THEN 0 ELSE since
  /\ SetTimer("signal", SignalPeriod)
  /\ \/ child # "dead" /\ (sent' = "kill" \/ child = "running") /\ Dies
     \/ (child = "dead" \/ sent' = "first") /\ UNCHANGED childs
  /\ UNCHANGED <<setting, pipe, stdout, parent, phase, drains, count, tethered, down,
                 plan, idle, blocked>>

\* Mutant of Ping: the tether thread blocks SIGALRM.
PingBlocked ==
  /\ Serve("monitor", "ping")
  /\ SetTimer("ping", PingPeriod)
  /\ UNCHANGED <<setting, childs, pipe, stdout, parent, phase, drains, count, tethered,
                 down, plan, sent, idle, history>>

\* pollFdTimerChild_(): SIGALRM ends a write(2) or splice(2) that blocks, and has
\* no effect on anything else.
Ping ==
  /\ Serve("monitor", "ping")
  /\ SetTimer("ping", PingPeriod)
  /\ phase' = [phase EXCEPT !["tether"] = IF @ = "write" THEN "loop" ELSE @]
  /\ UNCHANGED <<setting, childs, pipe, stdout, parent, drains, count, tethered, down,
                 plan, sent, idle, history>>

\* closeTetherThread() asks the thread to exit, and waits for it.
MonitorDone ==
  /\ Looping("monitor")
  /\ ready["monitor"] = {} /\ Complete("monitor")
  /\ phase' = [phase EXCEPT !["monitor"] = "join"]
  /\ UNCHANGED <<setting, childs, pipe, stdout, parent, ready, drains, watches, idle,
                 history>>

Joined ==
  /\ sentry = "running"
  /\ phase["monitor"] = "join" /\ phase["tether"] = "exited"
  /\ phase' = [phase EXCEPT !["monitor"] = "done"]
  /\ UNCHANGED <<setting, childs, pipe, stdout, parent, ready, drains, watches, idle,
                 history>>

----------------------------------------------------------------------------
\* The child, its heirs, the reader of stdout, the faults and the clock.

\* The tether is written, or the child runs again.
Renewed ==
  IF plan = "none" THEN since' = 0 /\ blocked' = FALSE ELSE UNCHANGED history

\* Nobody writes in a tick in which the thread has copied.
WriteTether(w) ==
  /\ w \in writers /\ (w = "child" => child = "running")
  /\ phase["tether"] \in {"loop", "write"}
  /\ pipe < PipeSize
  /\ idle > 0
  /\ pipe' = pipe + 1
  /\ Renewed
  /\ UNCHANGED <<setting, childs, stdout, parent, phase, ready, drains, watches, idle>>

CloseTether(w) ==
  /\ w \in writers /\ (w = "child" => child = "running")
  /\ writers' = writers \ {w}
  /\ UNCHANGED <<setting, child, latch, pipe, stdout, parent, phase, ready, drains,
                 watches, idle, history>>

ChildExits ==
  /\ child = "running"
  /\ Dies
  /\ UNCHANGED <<setting, pipe, stdout, parent, phase, ready, drains, watches, idle,
                 history>>

ReadStdout ==
  /\ out = 1 /\ reader = "open"
  /\ out' = 0
  /\ UNCHANGED <<setting, childs, pipe, reader, parent, phase, ready, drains, watches,
                 idle, history>>

CloseStdout ==
  /\ reader = "open"
  /\ reader' = "closed" /\ out' = 0
  /\ UNCHANGED <<setting, childs, pipe, parent, phase, ready, drains, watches, idle,
                 history>>

StopChild ==
  /\ "childStops" \in fault
  /\ child = "running"
  /\ child' = "stopped"
  /\ UNCHANGED <<setting, latch, writers, pipe, stdout, parent, phase, ready, drains,
                 watches, idle, history>>

ContinueChild ==
  /\ child = "stopped"
  /\ child' = "running" /\ latch' = "set"
  /\ Renewed
  /\ UNCHANGED <<setting, writers, pipe, stdout, parent, phase, ready, drains, watches,
                 idle>>

\* SIGCHLD of the umbilical makes superviseChildProcess() look at the child too.
Sigchld ==
  /\ "sigchld" \in fault
  /\ child = "running"
  /\ latch' = "set"
  /\ UNCHANGED <<setting, child, writers, pipe, stdout, parent, phase, ready, drains,
                 watches, idle, history>>

ParentDies ==
  /\ parent = "alive"
  /\ parent' = "dead"
  /\ UNCHANGED <<setting, childs, pipe, stdout, phase, ready, drains, watches, idle,
                 history>>

StopSentry ==
  /\ "sentryStops" \in fault
  /\ sentry = "running"
  /\ sentry' = "stopped"
  /\ UNCHANGED <<fault, childs, pipe, stdout, parent, phase, ready, drains, watches, idle,
                 history>>

ContinueSentry ==
  /\ sentry = "stopped"
  /\ sentry' = "running"
  /\ UNCHANGED <<fault, childs, pipe, stdout, parent, phase, ready, drains, watches, idle,
                 history>>

AtRest(t) ==
  \/ sentry = "stopped"
  \/ Looping(t) /\ ready[t] = {} /\ ~Complete(t) /\ Reported(t) = {}
  \/ t = "tether" /\ phase[t] = "write" /\ reader = "open" /\ out = 1
  \/ t = "tether" /\ phase[t] = "closed" /\ phase["monitor"] # "join"
  \/ t = "tether" /\ phase[t] = "exited"
  \/ t = "monitor" /\ phase[t] = "join" /\ phase["tether"] # "exited"
  \/ t = "monitor" /\ phase[t] = "done"

Less(n) == IF n \in {0, Off} THEN n ELSE n - 1
More(n, bound) == IF n = bound THEN n ELSE n + 1

Tick ==
  /\ \A t \in Thread : AtRest(t)
  /\ timer' = [f \in DOMAIN timer |-> Less(timer[f])]
  /\ drain' = Less(drain)
  /\ idle' = More(idle, Period)
  /\ since' = IF plan = "none" /\ child = "stopped" THEN since ELSE More(since, Horizon)
  /\ blocked' = (blocked \/ (plan = "none" /\ sentry = "running" /\ pipe + buf > 0))
  /\ UNCHANGED <<setting, childs, pipe, stdout, parent, phase, ready, copy, buf,
                 direction, finish, control, count, tethered, down, plan, sent>>

TetherStep ==
  \/ Poll("tether") \/ FlushRequested \/ DrainIgnored \/ InputEmpty \/ ReadInput
  \/ BeginWrite \/ WriteSome \/ WriteBroken \/ DrainExpired
  \/ LeaveLoop \/ CloseControl \/ ThreadExit

MonitorStep ==
  \/ Poll("monitor") \/ TetherClosed \/ ParentLost \/ ChildRuns \/ ChildEnded
  \/ SilenceForgiven \/ SilenceCounted \/ TimerReset \/ Signal \/ Ping
  \/ MonitorDone \/ Joined

WorldStep ==
  \/ \E w \in {"child", "heir"} : WriteTether(w) \/ CloseTether(w)
  \/ ChildExits \/ ReadStdout \/ CloseStdout
  \/ StopChild \/ ContinueChild \/ Sigchld \/ ParentDies \/ UmbilicalLost
  \/ StopSentry \/ ContinueSentry

Next == TetherStep \/ MonitorStep \/ WorldStep \/ Tick

Spec == Init /\ [][Next]_vars

\* The threads of a running sentry take their steps, and time passes.  Nothing is
\* assumed of the child, its heirs and the reader of stdout.
Fairness == WF_vars(TetherStep) /\ WF_vars(MonitorStep) /\ WF_vars(Tick)

FairSpec == Spec /\ Fairness

----------------------------------------------------------------------------
\* Properties.

\* "do not exit the event loop until all the IO has been flushed"
\* (childprocess.c:1639): a thread that found its input empty leaves nothing behind
\* that was or will be written to the tether, unless stdout has lost its reader.
NothingLost ==
  finish = "empty" =>
    reader = "closed" \/ (writers = {} /\ pipe = 0 /\ buf = 0)

\* The tether keeps the promise of Relay to the child and to the heirs of the child:
\* what is in the pipe and in the buffer is inside, and the child is the owner.
Output == INSTANCE Relay WITH
  Writer  <- {"child", "heir"},
  Owner   <- "child",
  Room    <- PipeSize + BufSize,
  inside  <- pipe + buf,
  outside <- out,
  told    <- IF down THEN "yes" ELSE "no"
ImplementsRelay == Output!Spec

\* The tether was silent for the whole timeout, since the child last wrote or ran
\* again.  What happens in the very tick of the abort may be too late, as may output in
\* the tick in which the first half of the timeout is counted: the second half forgets
\* what came before it.
Silent == since \in {0, Period} \/ since >= Patience \/ child = "dead"

\* "If stdout of the child process is silent for a timeout interval" (README.md:77)
\* the child is aborted, and otherwise only if its output has no room.  A stoppage of
\* the child is no silence; one of the sentry is another matter.
AbortMeansSilence ==
  [][plan = "none" /\ plan' = "abort"
       => Silent \/ blocked \/ "sentryStops" \in fault]_vars

\* After SIGCONT "timers must be re-synchronised to compensate for the outage"
\* (childprocess.c:1389): a stoppage of the sentry is no silence of the child either.
OutageIsNoSilence ==
  [][plan = "none" /\ plan' = "abort" => Silent \/ blocked]_vars

\* However many reasons there are to terminate the child, and whenever they arise,
\* SIGKILL comes a full period after the first signal (childprocess.c:1860).
GraceIsGiven == [][sent' = "kill" /\ sent = "first" => since >= SignalPeriod]_vars

\* The monitor comes to an end after the child, though stdout may never be read and
\* heirs of the child may keep the tether open: the drain timeout and the pings see
\* to that.
MonitorEnds == child = "dead" ~> phase["monitor"] = "done"

\* A child does not survive the parent that is watched, even when it ignores the
\* first signal.
ParentLossKillsChild == parent = "dead" ~> child = "dead"

\* No child stays silent for ever.
SilenceEnds ==
  ~ <>[](tethered /\ child = "running" /\ since >= Patience)

=============================================================================
