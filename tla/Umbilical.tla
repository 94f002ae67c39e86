----------------------------- MODULE Umbilical -----------------------------
(***************************************************************************)
(* The umbilical: the socket on which the sentry and its umbilical process *)
(* watch each other.  The sentry's end is the umbilical part of the child  *)
(* monitor in childprocess.c, and stopUmbilicalProcess(); the other end is *)
(* umbilical.c, which also holds the references of the pid server.         *)
(*                                                                         *)
(* Each process runs a poll loop: it polls its descriptors, serves those   *)
(* that were ready, and then serves its timer if that is due.  Time passes *)
(* in ticks, and only when no running process has anything left to do, so  *)
(* that lateness comes from the faults alone: a process may be stopped and *)
(* continued by signals, get stuck and recover, or be killed.  How many    *)
(* ticks make a timer period is a parameter.                               *)
(***************************************************************************)
EXTENDS Naturals, Sequences

CONSTANTS
  Client,     \* commands that may hold a reference to the child
  Fault,      \* the faults that may happen, as pairs <<fault, process>>
  HalfPeriod  \* ticks: half of a timer period

Proc == {"sentry", "umbilical"}

Faults == {"stop", "continue", "stick", "kill"} \X Proc

ASSUME UmbilicalAssumption == Fault \subseteq Faults /\ HalfPeriod \in Nat \ {0}

\* Both timers run at half of the umbilical timeout.
CycleLimit == 2
Period     == HalfPeriod + HalfPeriod
Timeout    == CycleLimit * Period
Off        == Timeout + 1   \* a timer whose mPeriod is zero

VARIABLES
  proc,      \* the state of each process
  child,     \* the child process of the sentry
  ready,     \* what poll(2) reported to each process and is still to be served
  timer,     \* what is left of each umbilical timer
  count,     \* mCycleCount of each process
  open,      \* whether each process polls its end of the umbilical
  phase,     \* what each process has come to
  preempt,   \* mPreempt of the sentry
  latch,     \* the event latches set in the sentry
  childDown, \* mChildLatchDisabled of the sentry
  kills,     \* the sentry's termination timer is active
  closed,    \* mClosed of the umbilical
  echo,      \* mEchoRequest of the umbilical
  wire,      \* the bytes sent to the umbilical and not read yet
  echoes,    \* the echoes sent to the sentry and not read yet
  shut,      \* the processes that have shut down their writing end
  client,    \* what each client has of the pid server
  waited,    \* history: ticks since the sentry sent the ping it awaits an echo of
  alarm,     \* history: the processes that declared a timeout
  excused    \* history: the processes that have been given a cause to declare one

Pollees == {"umbilical", "server", "client", "event", "timer"}

sentry    == <<preempt, latch, childDown, kills>>
umbilical == <<closed, echo>>
channel   == <<wire, echoes, shut>>
history   == <<waited, alarm, excused>>
vars == <<proc, child, ready, timer, count, open, phase, sentry,
          umbilical, channel, client, history>>

TypeOK ==
  /\ proc \in [Proc -> {"running", "stopped", "stuck", "dead"}]
  /\ child \in {"running", "dead"}
  /\ ready \in [Proc -> SUBSET Pollees]
  /\ timer \in [Proc -> 0..Off]
  /\ count \in [Proc -> 0..CycleLimit]
  /\ open \in [Proc -> BOOLEAN]
  /\ phase["sentry"] \in {"monitor", "stop", "drain", "wait", "end"}
  /\ phase["umbilical"] \in {"sync", "monitor", "killChild", "killSentry", "end"}
  /\ phase \in [Proc -> {"monitor", "stop", "drain", "wait", "end", "sync",
                         "killChild", "killSentry"}]
  /\ preempt \in BOOLEAN /\ childDown \in BOOLEAN /\ kills \in BOOLEAN
  /\ latch \subseteq {"child", "umbilical", "cont"}
  /\ closed \in BOOLEAN /\ echo \in BOOLEAN
  /\ wire \in Seq({"ping", "close"})
  /\ echoes \in Nat
  /\ shut \subseteq Proc
  /\ client \in [Client -> {"none", "queued", "held", "left", "done"}]
  /\ waited \in 0..Period
  /\ alarm \subseteq Proc
  /\ excused \subseteq Proc

Init ==
  /\ proc = [p \in Proc |-> "running"]
  /\ child = "running"
  /\ ready = [p \in Proc |-> {}]
  /\ timer = [p \in Proc |-> IF p = "sentry" THEN 0 ELSE Period]
  /\ count = [p \in Proc |-> IF p = "sentry" THEN CycleLimit ELSE 0]
  /\ open = [p \in Proc |-> TRUE]
  /\ phase = [p \in Proc |-> IF p = "sentry" THEN "monitor" ELSE "sync"]
  /\ preempt = FALSE /\ latch = {} /\ childDown = FALSE /\ kills = FALSE
  /\ closed = FALSE /\ echo = FALSE
  /\ wire = <<>> /\ echoes = 0 /\ shut = {}
  /\ client = [c \in Client |-> "none"]
  /\ waited = 0 /\ alarm = {} /\ excused = {}

----------------------------------------------------------------------------
\* The socket and the poll loop.

Other(p) == IF p = "sentry" THEN "umbilical" ELSE "sentry"

\* read(2) returns end of file, or ECONNRESET, once the bytes are read.
Hangup(p) == Other(p) \in shut \/ proc[Other(p)] = "dead"
Readable(p) ==
  Hangup(p) \/ (IF p = "sentry" THEN echoes > 0 ELSE wire # <<>>)

Queued == \E c \in Client : client[c] = "queued"
Held   == \E c \in Client : client[c] \in {"held", "left"}
Left   == \E c \in Client : client[c] = "left"

Due(p) == timer[p] = 0

\* What poll(2) reports, and whether the timer has expired by then.
Reported(p) ==
  {f \in Pollees :
     CASE f = "umbilical" -> open[p] /\ Readable(p)
       [] f = "server"    -> p = "umbilical" /\ open[p] /\ Queued
       [] f = "client"    -> p = "umbilical" /\ Left
       [] f = "event"     -> IF p = "sentry" THEN latch # {} ELSE echo
       [] f = "timer"     -> Due(p)}

\* The latches that SIGCHLD sets when the child ends: superviseChildProcess()
\* looks at both processes whenever either one changes.
ChildEnded ==
  IF child = "dead" THEN {}
  ELSE {l \in {"child", "umbilical"} :
          l = "umbilical" => proc["umbilical"] \in {"running", "stuck"}}

Monitoring(p) == proc[p] = "running" /\ phase[p] = "monitor"

\* pollFdCompletion_(): the loop of the sentry ends once the child is known to
\* be dead; that of the umbilical once the connection is closed and no client
\* holds a reference.
Complete(p) ==
  IF p = "sentry" THEN childDown ELSE ~open[p] /\ ~Held

\* poll(2) returns with what is ready at this moment; what becomes ready later
\* waits for the next turn of the loop.
Poll(p) ==
  /\ Monitoring(p)
  /\ ready[p] = {} /\ ~Complete(p)
  /\ Reported(p) # {}
  /\ ready' = [ready EXCEPT ![p] = Reported(p)]
  /\ UNCHANGED <<proc, child, timer, count, open, phase, sentry, umbilical,
                 channel, client, history>>

\* The descriptors are served in the order of their index, and the timer last.
Before(f) ==
  CASE f = "umbilical" -> {}
    [] f = "server"    -> {"umbilical"}
    [] f = "client"    -> {"umbilical", "server"}
    [] f = "event"     -> {"umbilical", "server", "client"}
    [] f = "timer"     -> Pollees \ {"timer"}

Turn(p, f) == Monitoring(p) /\ f \in ready[p] /\ ready[p] \cap Before(f) = {}

Serve(p, f) == Turn(p, f) /\ ready' = [ready EXCEPT ![p] = @ \ {f}]

Timer(p) == Serve(p, "timer") /\ Due(p)

\* Serving a descriptor has set the timer afresh.
TimerReset(p) ==
  /\ Serve(p, "timer")
  /\ ~Due(p)
  /\ UNCHANGED <<proc, child, timer, count, open, phase, sentry, umbilical,
                 channel, client, history>>

SetTimer(p, t) == timer' = [timer EXCEPT ![p] = t]
SetCount(p, n) == count' = [count EXCEPT ![p] = n]

----------------------------------------------------------------------------
\* The sentry: the umbilical part of monitorChildProcess().

Awaiting == count["sentry"] # CycleLimit

\* pollFdCloseUmbilical_(): no more pings, and the child is to be terminated.
GiveUp ==
  /\ open' = [open EXCEPT !["sentry"] = FALSE]
  /\ SetTimer("sentry", Off)
  /\ kills' = TRUE

\* An echo schedules the next ping, at once if that was preempted.
ReadEcho ==
  /\ Turn("sentry", "umbilical")
  /\ ready' = [ready EXCEPT !["sentry"] =
                 (@ \ {"umbilical"}) \cup (IF preempt THEN {"timer"} ELSE {})]
  /\ echoes > 0
  /\ echoes' = echoes - 1
  /\ SetCount("sentry", CycleLimit)
  /\ SetTimer("sentry", IF preempt THEN 0 ELSE Period)
  /\ preempt' = FALSE
  /\ waited' = 0
  /\ UNCHANGED <<proc, child, open, phase, latch, childDown, kills, umbilical,
                 wire, shut, client, alarm, excused>>

UmbilicalLost ==
  /\ Serve("sentry", "umbilical")
  /\ echoes = 0
  /\ GiveUp
  /\ UNCHANGED <<proc, child, count, phase, preempt, latch, childDown, umbilical,
                 channel, client, history>>

\* The event pipe serves every latch that is set before the turn goes on; one of
\* them may trigger the timer.
Event(l, triggered) ==
  /\ Turn("sentry", "event")
  /\ l \in latch
  /\ latch' = latch \ {l}
  /\ ready' = [ready EXCEPT !["sentry"] =
                 (IF latch = {l} THEN @ \ {"event"} ELSE @)
                   \cup (IF triggered THEN {"timer"} ELSE {})]

\* pollFdReapUmbilicalEvent_(): the umbilical process runs, or runs again, and
\* a wait for its echo starts afresh.
UmbilicalRuns ==
  /\ Event("umbilical", FALSE)
  /\ IF Awaiting /\ open["sentry"]
     THEN SetCount("sentry", 0) /\ SetTimer("sentry", Period)
     ELSE UNCHANGED <<count, timer>>
  /\ UNCHANGED <<proc, child, open, phase, preempt, childDown, kills, umbilical,
                 channel, client, history>>

\* pollFdContUmbilical_(), after SIGCONT.
Continued ==
  /\ Event("cont", Awaiting /\ open["sentry"])
  /\ IF Awaiting
     THEN /\ SetTimer("sentry", IF open["sentry"] THEN 0 ELSE Off)
          /\ UNCHANGED preempt
     ELSE /\ preempt' = TRUE
          /\ UNCHANGED timer
  /\ UNCHANGED <<proc, child, count, open, phase, childDown, kills, umbilical,
                 channel, client, history>>

\* pollFdReapChildEvent_(): the child has terminated.
ChildReported ==
  /\ Event("child", FALSE)
  /\ childDown' = TRUE
  /\ UNCHANGED <<proc, child, timer, count, open, phase, preempt, kills,
                 umbilical, channel, client, history>>

\* No echo is awaited, so it is time for a ping.
WritePing ==
  /\ Timer("sentry")
  /\ ~Awaiting
  /\ proc["umbilical"] # "dead"
  /\ wire' = Append(wire, "ping")
  /\ SetCount("sentry", 0)
  /\ SetTimer("sentry", Period)
  /\ UNCHANGED <<proc, child, open, phase, sentry, umbilical, echoes, shut, client,
                 history>>

\* EPIPE: the umbilical process is no more.
WriteFails ==
  /\ Timer("sentry")
  /\ ~Awaiting
  /\ proc["umbilical"] = "dead"
  /\ GiveUp
  /\ UNCHANGED <<proc, child, count, phase, preempt, latch, childDown, umbilical,
                 channel, client, history>>

\* Mutant of UmbilicalStopped: any process that does not run counts as stopped.
UmbilicalAsleep == proc["umbilical"] \in {"stopped", "stuck"}

UmbilicalStopped == proc["umbilical"] = "stopped"

\* A stopped umbilical process cannot answer, and that is not held against it.
DeferTimeout ==
  /\ Timer("sentry")
  /\ Awaiting
  /\ UmbilicalStopped
  /\ SetCount("sentry", 0)
  /\ SetTimer("sentry", Period)
  /\ UNCHANGED <<proc, child, open, phase, sentry, umbilical, channel, client,
                 history>>

CountTimeout ==
  /\ Timer("sentry")
  /\ Awaiting
  /\ ~UmbilicalStopped
  /\ SetCount("sentry", count["sentry"] + 1)
  /\ IF count["sentry"] + 1 = CycleLimit
     THEN GiveUp /\ alarm' = alarm \cup {"sentry"} /\ waited' = 0
     ELSE SetTimer("sentry", Period) /\ UNCHANGED <<open, kills, alarm, waited>>
  /\ UNCHANGED <<proc, child, phase, preempt, latch, childDown, umbilical,
                 channel, client, excused>>

\* The termination plan ends with SIGKILL.
KillChild ==
  /\ Monitoring("sentry")
  /\ kills
  /\ child = "running"
  /\ child' = "dead"
  /\ latch' = latch \cup ChildEnded
  /\ UNCHANGED <<proc, ready, timer, count, open, phase, preempt, childDown,
                 kills, umbilical, channel, client, history>>

----------------------------------------------------------------------------
\* The sentry: stopUmbilicalProcess() and what follows it in runSentry().

MonitorDone ==
  /\ Monitoring("sentry")
  /\ ready["sentry"] = {} /\ Complete("sentry")
  /\ phase' = [phase EXCEPT !["sentry"] = "stop"]
  /\ UNCHANGED <<proc, child, ready, timer, count, open, sentry, umbilical,
                 channel, client, history>>

\* Mutant of SendClose: the request may be sent again.
SendCloseAgain ==
  /\ proc["sentry"] = "running"
  /\ phase["sentry"] = "stop"
  /\ proc["umbilical"] # "dead"
  /\ phase' \in {phase, [phase EXCEPT !["sentry"] = "drain"]}
  /\ wire' = Append(wire, "close")
  /\ shut' = IF phase' = phase THEN shut ELSE shut \cup {"sentry"}
  /\ SetTimer("sentry", Timeout)
  /\ latch' = {}
  /\ UNCHANGED <<proc, child, ready, count, open, preempt, childDown, kills,
                 umbilical, echoes, client, history>>

\* The close request is sent, and nothing after it.
SendClose ==
  /\ proc["sentry"] = "running"
  /\ phase["sentry"] = "stop"
  /\ IF proc["umbilical"] = "dead"
     THEN /\ phase' = [phase EXCEPT !["sentry"] = "end"]
          /\ UNCHANGED <<timer, wire, shut>>
     ELSE /\ phase' = [phase EXCEPT !["sentry"] = "drain"]
          /\ wire' = Append(wire, "close")
          /\ shut' = shut \cup {"sentry"}
          /\ SetTimer("sentry", Timeout)
  /\ latch' = {}
  /\ UNCHANGED <<proc, child, ready, count, open, preempt, childDown, kills,
                 umbilical, echoes, client, history>>

Draining == proc["sentry"] = "running" /\ phase["sentry"] = "drain"

Drain ==
  /\ Draining
  /\ timer["sentry"] > 0
  /\ echoes > 0
  /\ echoes' = echoes - 1
  /\ UNCHANGED <<proc, child, ready, timer, count, open, phase, sentry,
                 umbilical, wire, shut, client, history>>

Drained ==
  /\ Draining
  /\ timer["sentry"] > 0
  /\ echoes = 0 /\ Hangup("sentry")
  /\ phase' = [phase EXCEPT !["sentry"] = "wait"]
  /\ UNCHANGED <<proc, child, ready, timer, count, open, sentry, umbilical,
                 channel, client, history>>

\* The deadline is extended once for every SIGCONT noticed, and then missed.  A wait
\* that found nothing has ended the draining by then.
DrainExpired ==
  /\ Draining
  /\ timer["sentry"] = 0
  /\ IF "cont" \in latch
     THEN /\ SetTimer("sentry", Timeout)
          /\ phase' \in {phase, [phase EXCEPT !["sentry"] = "wait"]}
     ELSE phase' = [phase EXCEPT !["sentry"] = "end"] /\ UNCHANGED timer
  /\ latch' = latch \ {"cont"}
  /\ UNCHANGED <<proc, child, ready, count, open, preempt, childDown, kills,
                 umbilical, channel, client, history>>

\* ert_waitProcessChild() blocks, without a timeout, until the process ends.
Waited ==
  /\ proc["sentry"] = "running"
  /\ phase["sentry"] = "wait"
  /\ proc["umbilical"] = "dead"
  /\ phase' = [phase EXCEPT !["sentry"] = "end"]
  /\ UNCHANGED <<proc, child, ready, timer, count, open, sentry, umbilical,
                 channel, client, history>>

----------------------------------------------------------------------------
\* The umbilical process: umbilical.c.

\* closeFdUmbilical_(): the umbilical and the pid server are polled no more.
CloseEnd ==
  /\ open' = [open EXCEPT !["umbilical"] = FALSE]
  /\ SetTimer("umbilical", Off)
  /\ shut' = shut \cup {"umbilical"}

\* pollFdUmbilical_(): a ping asks for an echo; a close request, once read,
\* makes the end of the connection orderly.  Either one sets the timer half a
\* period out of phase with the pings.
ReadWire ==
  IF wire # <<>>
  THEN /\ wire' = Tail(wire)
       /\ closed' = (closed \/ Head(wire) = "close")
       /\ echo' = (echo \/ Head(wire) = "ping")
       /\ SetTimer("umbilical", HalfPeriod)
       /\ SetCount("umbilical", 0)
       /\ UNCHANGED <<open, shut>>
  ELSE /\ CloseEnd
       /\ UNCHANGED <<wire, closed, echo, count>>

\* synchroniseUmbilicalMonitor(): the timer starts with the first byte.
Synchronise ==
  /\ proc["umbilical"] = "running"
  /\ phase["umbilical"] = "sync"
  /\ Readable("umbilical")
  /\ ReadWire
  /\ phase' = [phase EXCEPT !["umbilical"] = "monitor"]
  /\ UNCHANGED <<proc, child, ready, sentry, echoes, client, history>>

ReadUmbilical ==
  /\ Serve("umbilical", "umbilical")
  /\ ReadWire
  /\ UNCHANGED <<proc, child, phase, sentry, echoes, client, history>>

\* Mutant of SendEcho: the request for an echo is not reset.
SendEchoTwice ==
  /\ Serve("umbilical", "event")
  /\ echoes' = IF open["umbilical"] THEN echoes + 1 ELSE echoes
  /\ UNCHANGED <<proc, child, timer, count, open, phase, sentry, umbilical, wire,
                 shut, client, history>>

\* pollFdSendEcho_(): the connection may have closed since the ping.
SendEcho ==
  /\ Serve("umbilical", "event")
  /\ echo' = FALSE
  /\ echoes' = IF open["umbilical"] /\ proc["sentry"] # "dead" /\ phase["sentry"] # "end"
               THEN echoes + 1 ELSE echoes
  /\ UNCHANGED <<proc, child, timer, count, open, phase, sentry, closed, wire,
                 shut, client, history>>

\* Mutants of SentryStopped: the state of the sentry is not looked at; any process
\* that does not run counts as stopped.
SentryNeverStopped == FALSE
SentryAsleep       == proc["sentry"] \in {"stopped", "stuck"}

SentryStopped == proc["sentry"] = "stopped"

\* Mutant of TooLong: one cycle too many.
LongerThanThat(n) == n > CycleLimit

TooLong(n) == n >= CycleLimit

\* pollFdTimerUmbilical_(): a stopped sentry cannot ping, and that is not held
\* against it; a sentry that is silent for two cycles is taken to be stuck.
SentrySilent ==
  /\ Timer("umbilical")
  /\ IF SentryStopped
     THEN /\ SetCount("umbilical", 0)
          /\ SetTimer("umbilical", Period)
          /\ UNCHANGED <<open, shut, alarm>>
     ELSE /\ SetCount("umbilical", count["umbilical"] + 1)
          /\ IF TooLong(count["umbilical"] + 1)
             THEN CloseEnd /\ alarm' = alarm \cup {"umbilical"}
             ELSE SetTimer("umbilical", Period) /\ UNCHANGED <<open, shut, alarm>>
  /\ UNCHANGED <<proc, child, phase, sentry, umbilical, wire, echoes, client,
                 waited, excused>>

\* acceptPidServerConnection().
Accept(c) ==
  /\ Serve("umbilical", "server")
  /\ client[c] = "queued"
  /\ client' = [client EXCEPT ![c] = "held"]
  /\ UNCHANGED <<proc, child, timer, count, open, phase, sentry, umbilical, channel,
                 history>>

\* Mutant of Clean: the reference stays.
CleanNothing ==
  /\ Serve("umbilical", "client")
  /\ UNCHANGED <<proc, child, timer, count, open, phase, sentry, umbilical, channel,
                 client, history>>

\* cleanPidServer().
Clean ==
  /\ Serve("umbilical", "client")
  /\ client' = [c \in Client |-> IF client[c] = "left" THEN "done" ELSE client[c]]
  /\ UNCHANGED <<proc, child, timer, count, open, phase, sentry, umbilical, channel,
                 history>>

LoopDone ==
  /\ Monitoring("umbilical")
  /\ ready["umbilical"] = {} /\ Complete("umbilical")
  /\ phase' = [phase EXCEPT !["umbilical"] = "killChild"]
  /\ UNCHANGED <<proc, child, ready, timer, count, open, sentry, umbilical,
                 channel, client, history>>

\* Mutant of KillChildGroup: the sentry is always killed as well.
KillBothGroups ==
  /\ proc["umbilical"] = "running"
  /\ phase["umbilical"] = "killChild"
  /\ phase' = [phase EXCEPT !["umbilical"] = "killSentry"]
  /\ child' = "dead"
  /\ latch' = latch \cup ChildEnded
  /\ UNCHANGED <<proc, ready, timer, count, open, preempt, childDown,
                 kills, umbilical, channel, client, history>>

\* The process group of the child is killed in any case ...
KillChildGroup ==
  /\ proc["umbilical"] = "running"
  /\ phase["umbilical"] = "killChild"
  /\ phase' = [phase EXCEPT !["umbilical"] = IF closed THEN "end" ELSE "killSentry"]
  /\ child' = "dead"
  /\ latch' = latch \cup ChildEnded
  /\ UNCHANGED <<proc, ready, timer, count, open, preempt, childDown, kills,
                 umbilical, channel, client, history>>

\* ... and that of the sentry when the shutdown was not orderly.
KillSentryGroup ==
  /\ proc["umbilical"] = "running"
  /\ phase["umbilical"] = "killSentry"
  /\ phase' = [phase EXCEPT !["umbilical"] = "end"]
  /\ proc' = [proc EXCEPT !["sentry"] = "dead"]
  /\ UNCHANGED <<child, ready, timer, count, open, sentry, umbilical, channel,
                 client, history>>

\* A connection that was never accepted ends with the process.
Dropped(p) ==
  IF p = "umbilical"
  THEN client' = [c \in Client |-> IF client[c] = "none" THEN "none" ELSE "done"]
  ELSE UNCHANGED client

Exit ==
  /\ proc["umbilical"] = "running"
  /\ phase["umbilical"] = "end"
  /\ proc' = [proc EXCEPT !["umbilical"] = "dead"]
  /\ Dropped("umbilical")
  /\ UNCHANGED <<child, ready, timer, count, open, phase, sentry, umbilical,
                 channel, history>>

----------------------------------------------------------------------------
\* The child, the clients, the faults and the clock.

ChildEnds ==
  /\ child = "running"
  /\ child' = "dead"
  /\ latch' = latch \cup ChildEnded
  /\ UNCHANGED <<proc, ready, timer, count, open, phase, preempt, childDown,
                 kills, umbilical, channel, client, history>>

Connect(c) ==
  /\ client[c] = "none"
  /\ proc["umbilical"] # "dead"
  /\ client' = [client EXCEPT ![c] = "queued"]
  /\ UNCHANGED <<proc, child, ready, timer, count, open, phase, sentry,
                 umbilical, channel, history>>

Leave(c) ==
  /\ client[c] = "held"
  /\ client' = [client EXCEPT ![c] = "left"]
  /\ UNCHANGED <<proc, child, ready, timer, count, open, phase, sentry,
                 umbilical, channel, history>>

Stop(p) ==
  /\ <<"stop", p>> \in Fault
  /\ proc[p] = "running"
  /\ proc' = [proc EXCEPT ![p] = "stopped"]
  /\ UNCHANGED <<child, ready, timer, count, open, phase, sentry, umbilical,
                 channel, client, history>>

\* SIGCONT reaches the handler of the sentry whether it was stopped or not; the
\* sentry has SIGCHLD when the umbilical process runs again.
Continue(p) ==
  /\ <<"continue", p>> \in Fault
  /\ proc[p] = "stopped" \/ (p = "sentry" /\ proc[p] = "running")
  /\ proc' = [proc EXCEPT ![p] = "running"]
  /\ latch' = latch \cup (IF p = "sentry" THEN {"cont"} ELSE {"umbilical"})
  /\ excused' = IF p = "sentry" THEN Proc ELSE excused
  /\ UNCHANGED <<child, ready, timer, count, open, phase, preempt, childDown,
                 kills, umbilical, channel, client, waited, alarm>>

\* A process that blocks does not serve its loop, and does not look stopped.
Stick(p) ==
  /\ <<"stick", p>> \in Fault
  /\ proc[p] = "running"
  /\ proc' = [proc EXCEPT ![p] = "stuck"]
  /\ UNCHANGED <<child, ready, timer, count, open, phase, sentry, umbilical,
                 channel, client, history>>

Recover(p) ==
  /\ proc[p] = "stuck"
  /\ proc' = [proc EXCEPT ![p] = "running"]
  /\ UNCHANGED <<child, ready, timer, count, open, phase, sentry, umbilical,
                 channel, client, history>>

Kill(p) ==
  /\ <<"kill", p>> \in Fault
  /\ proc[p] # "dead"
  /\ proc' = [proc EXCEPT ![p] = "dead"]
  /\ Dropped(p)
  /\ UNCHANGED <<child, ready, timer, count, open, phase, sentry, umbilical,
                 channel, history>>

SentryStep ==
  \/ Poll("sentry") \/ TimerReset("sentry")
  \/ ReadEcho \/ UmbilicalLost
  \/ UmbilicalRuns \/ Continued \/ ChildReported
  \/ WritePing \/ WriteFails \/ DeferTimeout \/ CountTimeout
  \/ MonitorDone \/ SendClose \/ Drain \/ Drained \/ DrainExpired \/ Waited

UmbilicalStep ==
  \/ Poll("umbilical") \/ TimerReset("umbilical")
  \/ Synchronise \/ ReadUmbilical \/ SendEcho \/ SentrySilent
  \/ (\E c \in Client : Accept(c)) \/ Clean
  \/ LoopDone \/ KillChildGroup \/ KillSentryGroup \/ Exit

\* Nothing is left to do for a process that runs.
AtRest(p) ==
  proc[p] = "running" =>
    \/ /\ phase[p] = "monitor" /\ ready[p] = {}
       /\ Reported(p) = {} /\ ~Complete(p)
    \/ p = "sentry" /\ phase[p] = "drain" /\ ~Readable(p) /\ ~Due(p)
    \/ p = "sentry" /\ phase[p] = "wait" /\ proc["umbilical"] # "dead"
    \/ p = "sentry" /\ phase[p] = "end"
    \/ p = "umbilical" /\ phase[p] = "sync" /\ ~Readable(p)

Tick ==
  /\ \A p \in Proc : AtRest(p)
  /\ timer' = [p \in Proc |-> IF timer[p] \in {0, Off} THEN timer[p] ELSE timer[p] - 1]
  /\ waited' = IF Awaiting /\ waited < Period THEN waited + 1 ELSE waited
  /\ excused' = excused \cup
       {p \in Proc : proc[Other(p)] = "stuck" \/ (p = "umbilical" /\ echo)}
  /\ UNCHANGED <<proc, child, ready, count, open, phase, sentry, umbilical,
                 channel, client, alarm>>

Next ==
  \/ SentryStep \/ KillChild \/ UmbilicalStep \/ Tick
  \/ ChildEnds
  \/ \E c \in Client : Connect(c) \/ Leave(c)
  \/ \E p \in Proc : Stop(p) \/ Continue(p) \/ Stick(p) \/ Recover(p) \/ Kill(p)

Spec == Init /\ [][Next]_vars

\* Running processes take their steps, time passes, and a child that is to be
\* terminated comes to its SIGKILL.  Nothing is assumed of the clients.
Fairness ==
  /\ WF_vars(SentryStep) /\ WF_vars(UmbilicalStep)
  /\ WF_vars(KillChild) /\ WF_vars(Tick)

FairSpec == Spec /\ Fairness

----------------------------------------------------------------------------
\* Properties.

\* ert_ensure() in pollFdUmbilical_() of childprocess.c: an echo comes only while
\* it is awaited, however the processes are stopped, stuck and continued.
EchoIsAwaited ==
  open["sentry"] /\ phase["sentry"] = "monitor" /\ echoes > 0 => Awaiting

\* ert_ensure() in pollFdUmbilical_() of umbilical.c: nothing follows the close
\* request.
CloseIsLast == closed /\ open["umbilical"] => wire = <<>>

\* A timeout has a cause.  The sentry gives up an umbilical only if that was
\* stuck while time passed, or if SIGCONT made the sentry count too fast; the
\* umbilical gives up a sentry only if that was stuck while time passed, was
\* continued just as the umbilical looked at it, was left without its echo for a
\* tick, or had given up or died.  Stopping the sentry is no cause by itself, nor
\* is the end of the child.
TimeoutsHaveCauses ==
  \A p \in alarm :
    p \in excused \/ (p = "umbilical" /\ (~open["sentry"] \/ proc["sentry"] = "dead"))

\* A sentry is killed by its umbilical only after one of the two declared a
\* timeout; an orderly shutdown, a child that ends or a client that stays never
\* leads to it.
OnlyAlarmsKill ==
  [][proc["sentry"] # "dead" /\ phase["umbilical"] = "killSentry"
       /\ phase'["umbilical"] = "end" => alarm # {}]_vars

\* The sentry is to "apply a timeout, and if the timeout is exceeded terminate the
\* child process" (childprocess.c:1287): the sentry declares a timeout only when
\* at least one period has passed since it sent the ping.
TimeoutMeansSilence ==
  [][alarm' = alarm \cup {"sentry"} /\ "sentry" \notin alarm => waited = Period]_vars

\* A child whose sentry is dead or remains stuck is killed by the umbilical, once
\* that has had its first ping and unless a client holds a reference.
SentryLossKillsChild ==
  <>[](/\ proc["sentry"] \in {"dead", "stuck"} /\ proc["umbilical"] = "running"
       /\ phase["umbilical"] # "sync" /\ ~Held)
    => <>(child = "dead")

\* A sentry whose umbilical is dead or remains stuck terminates the child.
UmbilicalLossKillsChild ==
  <>[](proc["umbilical"] \in {"dead", "stuck"} /\ proc["sentry"] = "running")
    => <>(child = "dead")

\* stopUmbilicalProcess() returns, unless a client holds a reference for good or
\* one of the processes gets stuck again and again, or dies.
StopEnds ==
  phase["sentry"] = "drain" ~>
    \/ phase["sentry"] = "end" \/ proc["sentry"] = "dead"
    \/ []<>(proc["sentry"] = "stuck") \/ []<>(proc["umbilical"] = "stuck")
    \/ [](\E c \in Client : client[c] = "held")

\* "If the pidsentry hangs, the pidsentry shall kill itself and all processes in
\* the child process group" (README.md).
HungSentryKillsChild ==
  <>[](proc["sentry"] = "stuck" /\ proc["umbilical"] = "running") => <>(child = "dead")
============================================================================
