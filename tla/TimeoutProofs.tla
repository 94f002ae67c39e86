--------------------------- MODULE TimeoutProofs ---------------------------
(***************************************************************************)
(* Why a timeout on the umbilical has a cause: theorem CausesAreThere, for *)
(* any set of clients and any set of faults; and why it takes its time     *)
(* unless the sentry is continued: theorem TimeoutsTakeTime.               *)
(*                                                                         *)
(* The invariant of UmbilicalProofs says what is on its way between the    *)
(* two processes; Timing adds when it arrives.  A tick passes only when    *)
(* nobody who runs has work left, so that an answer which is still out     *)
(* after a tick shows that somebody was stopped, stuck or gone.            *)
(***************************************************************************)
EXTENDS UmbilicalProofs

USE UmbilicalAssumption
    DEF Proc, Faults, Period, Timeout, CycleLimit, Off, Pollees, Awaiting,
        Other, Hangup, Readable, sentry, umbilical, channel, history

\* Each end is shut down when its process has done with it, and has no timer then;
\* SIGCONT in the sentry is an excuse for everything.
Ending ==
  /\ "umbilical" \in ready["sentry"] => open["sentry"]
  /\ "umbilical" \in ready["umbilical"] => open["umbilical"]
  /\ phase["sentry"] = "monitor" /\ ~open["sentry"] => timer["sentry"] = Off
  /\ phase["umbilical"] = "monitor" /\ ~open["umbilical"] => timer["umbilical"] = Off
  /\ ~open["umbilical"] => "umbilical" \in shut
  /\ phase["umbilical"] = "sync" => ~echo /\ open["umbilical"]
  /\ phase["sentry"] \in {"monitor", "stop"}
       \/ "sentry" \in shut \/ proc["umbilical"] = "dead"
  /\ phase["sentry"] \in {"monitor", "stop"} /\ open["sentry"]
       => timer["sentry"] <= Period
  /\ preempt \/ "cont" \in latch => excused = Proc

\* The sentry waits for an echo.
Waiting ==
  /\ proc["sentry"] # "dead" /\ phase["sentry"] = "monitor"
  /\ open["sentry"] /\ Awaiting

\* What ends its wait, once it looks.
Told == "umbilical" \in latch \/ echoes > 0 \/ Hangup("sentry")

\* A ping is not lost.
Pending == Waiting => wire # <<>> \/ echo \/ echoes > 0 \/ Hangup("sentry")

\* While the sentry has no excuse, time passes only for an umbilical process that is
\* stopped, and a timeout is counted only when the wait is about to end.
Patient ==
  Waiting /\ "sentry" \notin excused =>
    /\ timer["sentry"] < Period => proc["umbilical"] = "stopped" \/ Told
    /\ count["sentry"] = 1 => Told
    /\ count["sentry"] = 1 /\ "timer" \in ready["sentry"] =>
         \/ "umbilical" \in ready["sentry"]
         \/ "event" \in ready["sentry"] /\ "umbilical" \in latch

\* The umbilical expects pings.
Watching ==
  /\ "umbilical" \notin excused
  /\ open["sentry"] /\ proc["sentry"] \notin {"dead", "stopped"}
  /\ open["umbilical"] /\ phase["umbilical"] = "monitor" /\ proc["umbilical"] # "dead"

\* While the umbilical has no excuse, its timer runs half a period out of phase with
\* that of the pings, whatever the delay with which it has read them.
Steady ==
  Watching =>
    /\ wire = <<>> /\ "sentry" \notin shut =>
         /\ Awaiting => count["umbilical"] = 0 /\ timer["umbilical"] = HalfPeriod
         /\ ~Awaiting /\ count["umbilical"] = 0
               => timer["umbilical"] + HalfPeriod >= timer["sentry"]
         /\ ~Awaiting /\ count["umbilical"] # 0 => timer["umbilical"] > timer["sentry"]
    /\ count["umbilical"] = 1 /\ "timer" \in ready["umbilical"]
         => "umbilical" \in ready["umbilical"]

Timing == Ending /\ Pending /\ Patient /\ Steady /\ TimeoutsHaveCauses

----------------------------------------------------------------------------

LEMMA TimingInit == Init => Timing
<1>. SUFFICES ASSUME Init PROVE Timing
  OBVIOUS
<1>1. ~echo /\ ~preempt
  BY Zenon DEF Init
<1>2. /\ ready = [p \in Proc |-> {}] /\ open = [p \in Proc |-> TRUE]
      /\ timer = [p \in Proc |-> IF p = "sentry" THEN 0 ELSE Period]
      /\ count = [p \in Proc |-> IF p = "sentry" THEN CycleLimit ELSE 0]
      /\ phase = [p \in Proc |-> IF p = "sentry" THEN "monitor" ELSE "sync"]
      /\ latch = {} /\ alarm = {}
  BY DEF Init
<1>. QED
  BY <1>1, <1>2 DEF Timing, Ending, Waiting, Pending, Patient, Watching, Steady,
                    TimeoutsHaveCauses

\* Polling, and a timer that was set afresh.
LEMMA TimingPoll ==
  ASSUME IInv, Timing, NEW p \in Proc, Poll(p) \/ TimerReset(p)
  PROVE  Timing'
<1>. USE DEF IInv, TypeOK, Timing
<1>1. CASE Poll(p)
  <2>1. /\ ready' = [ready EXCEPT ![p] = Reported(p)] /\ phase[p] = "monitor"
        /\ UNCHANGED <<proc, child, timer, count, open, phase, sentry, umbilical,
                       channel, client, history>>
    BY <1>1 DEF Poll, Monitoring
  <2>2. Ending' /\ Pending' /\ TimeoutsHaveCauses'
    BY <2>1 DEF Reported, Ending, Pending, Waiting, Told, TimeoutsHaveCauses
  <2>3. Patient'
    <3>1. CASE p = "sentry"
      <4>1. /\ open["sentry"] /\ Readable("sentry") => "umbilical" \in Reported("sentry")
            /\ latch # {} => "event" \in Reported("sentry")
        BY DEF Reported
      <4>. QED  BY <2>1, <3>1, <4>1 DEF Patient, Waiting, Told
    <3>2. CASE p # "sentry"
      BY <2>1, <3>2 DEF Patient, Waiting, Told
    <3>. QED  BY <3>1, <3>2
  <2>4. Steady'
    <3>1. CASE p = "umbilical"
      <4>1. /\ open["umbilical"] /\ Readable("umbilical")
                 => "umbilical" \in Reported("umbilical")
            /\ "timer" \in Reported("umbilical") => timer["umbilical"] = 0
        BY DEF Reported, Due
      <4>. QED  BY <2>1, <3>1, <4>1 DEF Steady, Watching
    <3>2. CASE p # "umbilical"
      BY <2>1, <3>2 DEF Steady, Watching
    <3>. QED  BY <3>1, <3>2
  <2>. QED  BY <2>2, <2>3, <2>4
<1>2. CASE TimerReset(p)
  <2>1. /\ ready' = [ready EXCEPT ![p] = @ \ {"timer"}]
        /\ UNCHANGED <<proc, child, timer, count, open, phase, sentry, umbilical,
                       channel, client, history>>
    BY <1>2 DEF TimerReset, Serve
  <2>. QED
    BY <2>1 DEF Ending, Pending, Waiting, Told, Patient, Steady, Watching,
                TimeoutsHaveCauses
<1>. QED  BY <1>1, <1>2

\* The loop of the sentry, as long as it polls the umbilical.
LEMMA TimingEvents ==
  ASSUME IInv, Timing,
         ReadEcho \/ UmbilicalRuns \/ Continued \/ ChildReported \/ KillChild \/ MonitorDone
  PROVE  Timing'
<1>. USE DEF IInv, TypeOK, Timing, SetTimer, SetCount
<1>1. CASE ReadEcho
  <2>1. ~preempt' /\ preempt' \in BOOLEAN
    BY <1>1, Zenon DEF ReadEcho
  <2>2. /\ "umbilical" \in ready["sentry"] /\ phase["sentry"] = "monitor"
        /\ echoes > 0 /\ count' = [count EXCEPT !["sentry"] = CycleLimit]
        /\ timer' \in [Proc -> 0..Off] /\ timer'["umbilical"] = timer["umbilical"]
        /\ timer'["sentry"] \in {0, Period}
        /\ ready'["umbilical"] = ready["umbilical"]
        /\ UNCHANGED <<proc, child, open, phase, latch, childDown, kills, umbilical,
                       wire, shut, client, alarm, excused>>
    BY <1>1 DEF ReadEcho, Turn, Monitoring
  <2>3. open["sentry"] /\ Awaiting
    BY <2>2 DEF Outstanding, Ending
  <2>4. Ending'
    BY <2>1, <2>2, <2>3 DEF Ending
  <2>5. Pending' /\ Patient' /\ TimeoutsHaveCauses'
    BY <2>2 DEF Pending, Patient, Waiting, TimeoutsHaveCauses
  <2>6. Steady'
    BY <2>2, <2>3 DEF Steady, Watching
  <2>. QED  BY <2>4, <2>5, <2>6
<1>2. CASE UmbilicalRuns
  <2>1. /\ latch' = latch \ {"umbilical"}
        /\ ready'["umbilical"] = ready["umbilical"] /\ ready'["sentry"] \subseteq ready["sentry"]
        /\ timer' \in [Proc -> 0..Off] /\ timer'["umbilical"] = timer["umbilical"]
        /\ count' \in [Proc -> 0..CycleLimit] /\ count'["umbilical"] = count["umbilical"]
        /\ IF Awaiting /\ open["sentry"]
           THEN count'["sentry"] = 0 /\ timer'["sentry"] = Period
           ELSE count'["sentry"] = count["sentry"] /\ timer'["sentry"] = timer["sentry"]
        /\ UNCHANGED <<proc, child, open, phase, preempt, childDown, kills, umbilical,
                       channel, client, history>>
    BY <1>2 DEF UmbilicalRuns, Event
  <2>2. Ending' /\ TimeoutsHaveCauses'
    BY <2>1 DEF Ending, TimeoutsHaveCauses
  <2>3. Pending' /\ Patient'
    <3>1. Waiting' => count'["sentry"] = 0 /\ timer'["sentry"] = Period
      BY <2>1 DEF Waiting
    <3>2. Pending'
      <4>1. Waiting' => Waiting /\ count["sentry"] # CycleLimit
        BY <2>1 DEF Waiting
      <4>. QED  BY <2>1, <4>1 DEF Pending
    <3>3. ~Waiting' \/ (timer'["sentry"] = Period /\ count'["sentry"] # 1)
      BY <3>1
    <3>4. Patient'
      BY <3>3 DEF Patient
    <3>. QED  BY <3>2, <3>4
  <2>4. Steady'
    BY <2>1 DEF Steady, Watching
  <2>. QED  BY <2>2, <2>3, <2>4
<1>3. CASE Continued
  <2>1. "cont" \in latch /\ latch' = latch \ {"cont"} /\ excused = Proc
    BY <1>3 DEF Continued, Event, Ending
  <2>2. /\ timer' \in [Proc -> 0..Off] /\ timer'["umbilical"] = timer["umbilical"]
        /\ timer'["sentry"] \in {timer["sentry"], IF open["sentry"] THEN 0 ELSE Off}
        /\ "umbilical" \in ready'["sentry"] => "umbilical" \in ready["sentry"]
        /\ ready'["umbilical"] = ready["umbilical"]
        /\ UNCHANGED <<proc, child, count, open, phase, childDown, kills, umbilical,
                       channel, client, history>>
    BY <1>3 DEF Continued, Event
  <2>3. Ending'
    BY <2>1, <2>2 DEF Ending
  <2>4. Pending' /\ TimeoutsHaveCauses'
    BY <2>1, <2>2 DEF Pending, Waiting, Told, TimeoutsHaveCauses
  <2>5. Patient' /\ Steady'
    BY <2>1, <2>2 DEF Patient, Steady, Watching
  <2>. QED  BY <2>3, <2>4, <2>5
<1>4. CASE ChildReported
  <2>1. /\ "child" \in latch /\ latch' = latch \ {"child"}
        /\ ready' = [ready EXCEPT !["sentry"] = IF latch = {"child"} THEN @ \ {"event"} ELSE @]
        /\ UNCHANGED <<proc, child, timer, count, open, phase, preempt, kills,
                       umbilical, channel, client, history>>
    BY <1>4 DEF ChildReported, Event
  <2>2. Ending' /\ Pending' /\ TimeoutsHaveCauses'
    BY <2>1 DEF Ending, Pending, Waiting, Told, TimeoutsHaveCauses
  <2>3. Patient' /\ Steady'
    BY <2>1 DEF Patient, Waiting, Told, Steady, Watching
  <2>. QED  BY <2>2, <2>3
<1>5. CASE KillChild
  <2>1. /\ latch \subseteq latch' /\ latch' \subseteq latch \cup {"child", "umbilical"}
        /\ UNCHANGED <<proc, ready, timer, count, open, phase, preempt, childDown,
                       kills, umbilical, channel, client, history>>
    BY <1>5, EndedLatches DEF KillChild
  <2>. QED
    BY <2>1 DEF Ending, Pending, Waiting, Told, Patient, Steady, Watching, TimeoutsHaveCauses
<1>6. CASE MonitorDone
  <2>1. /\ phase["sentry"] = "monitor" /\ phase' = [phase EXCEPT !["sentry"] = "stop"]
        /\ UNCHANGED <<proc, child, ready, timer, count, open, sentry, umbilical,
                       channel, client, history>>
    BY <1>6 DEF MonitorDone, Monitoring
  <2>. QED
    BY <2>1 DEF Ending, Pending, Waiting, Told, Patient, Steady, Watching, TimeoutsHaveCauses
<1>. QED  BY <1>1, <1>2, <1>3, <1>4, <1>5, <1>6

\* A sentry that has given up has nothing to wait for.
LEMMA TimingGiveUp ==
  ASSUME IInv, Timing, GiveUp, "umbilical" \notin ready'["sentry"],
         ready'["umbilical"] = ready["umbilical"],
         alarm' \in {alarm, alarm \cup {"sentry"}},
         "sentry" \in alarm' => "sentry" \in excused,
         UNCHANGED <<proc, phase, preempt, latch, umbilical, channel, excused>>
  PROVE  Timing'
<1>1. /\ open' = [open EXCEPT !["sentry"] = FALSE]
      /\ timer' = [timer EXCEPT !["sentry"] = Off]
  BY DEF GiveUp, SetTimer
<1>. QED
  BY <1>1 DEF IInv, TypeOK, Timing, Ending, Pending, Waiting, Told, Patient, Steady, Watching,
              TimeoutsHaveCauses

\* The timer of the sentry, and the end of file.
LEMMA TimingTimer ==
  ASSUME IInv, Timing,
         WritePing \/ DeferTimeout \/ CountTimeout \/ WriteFails \/ UmbilicalLost
  PROVE  Timing'
<1>. USE DEF IInv, TypeOK, Timing, SetTimer, SetCount
<1>1. CASE WritePing
  <2>1. /\ wire' = Append(wire, "ping") /\ wire \in Seq({"ping", "close"})
        /\ phase["sentry"] = "monitor" /\ ~Awaiting /\ timer["sentry"] = 0
        /\ count' = [count EXCEPT !["sentry"] = 0]
        /\ timer' = [timer EXCEPT !["sentry"] = Period]
        /\ ready' = [ready EXCEPT !["sentry"] = @ \ {"timer"}]
        /\ UNCHANGED <<proc, child, open, phase, sentry, umbilical, echoes, shut, client,
                       history>>
    BY <1>1 DEF WritePing, Timer, Due, Serve, Turn, Monitoring
  <2>2. wire' # <<>>
    BY <2>1, PingAppended
  <2>3. Ending' /\ Pending' /\ TimeoutsHaveCauses'
    BY <2>1, <2>2 DEF Ending, Pending, TimeoutsHaveCauses
  <2>4. Patient' /\ Steady'
    BY <2>1, <2>2 DEF Patient, Steady, Watching
  <2>. QED  BY <2>3, <2>4
<1>2. CASE DeferTimeout
  <2>1. /\ Awaiting /\ timer["sentry"] = 0
        /\ count' = [count EXCEPT !["sentry"] = 0]
        /\ timer' = [timer EXCEPT !["sentry"] = Period]
        /\ ready' = [ready EXCEPT !["sentry"] = @ \ {"timer"}]
        /\ UNCHANGED <<proc, child, open, phase, sentry, umbilical, channel, client,
                       history>>
    BY <1>2 DEF DeferTimeout, Timer, Due, Serve
  <2>. QED
    BY <2>1 DEF Ending, Pending, Waiting, Told, Patient, Steady, Watching, TimeoutsHaveCauses
<1>3. CASE CountTimeout
  <2>1. /\ Awaiting /\ count' = [count EXCEPT !["sentry"] = @ + 1]
        /\ timer["sentry"] = 0 /\ proc["umbilical"] # "stopped"
        /\ proc["sentry"] = "running" /\ phase["sentry"] = "monitor"
        /\ "timer" \in ready["sentry"] /\ ready["sentry"] \cap (Pollees \ {"timer"}) = {}
        /\ ready' = [ready EXCEPT !["sentry"] = @ \ {"timer"}]
        /\ UNCHANGED <<proc, child, phase, preempt, latch, childDown, umbilical,
                       channel, client, excused>>
    BY <1>3 DEF CountTimeout, UmbilicalStopped, Timer, Due, Serve, Turn, Monitoring, Before
  <2>2. Waiting
    BY <2>1 DEF Waiting, Ending
  <2>3. CASE count["sentry"] + 1 = CycleLimit
    <3>1. GiveUp /\ alarm' = alarm \cup {"sentry"}
      BY <1>3, <2>3 DEF CountTimeout
    <3>2. "sentry" \in excused
      BY <2>1, <2>2, <2>3 DEF Patient
    <3>. QED  BY <2>1, <3>1, <3>2, TimingGiveUp
  <2>4. CASE count["sentry"] + 1 # CycleLimit
    <3>1. /\ timer' = [timer EXCEPT !["sentry"] = Period]
          /\ UNCHANGED <<open, alarm>>
      BY <1>3, <2>4 DEF CountTimeout
    <3>2. Ending' /\ Pending' /\ TimeoutsHaveCauses'
      BY <2>1, <2>2, <3>1 DEF Ending, Pending, Waiting, Told, TimeoutsHaveCauses
    <3>3. Patient'
      BY <2>1, <2>2, <3>1 DEF Patient, Waiting, Told
    <3>4. Steady'
      BY <2>1, <2>4, <3>1 DEF Steady, Watching
    <3>. QED  BY <3>2, <3>3, <3>4
  <2>. QED  BY <2>3, <2>4
<1>4. CASE WriteFails
  <2>1. GiveUp /\ UNCHANGED <<proc, phase, preempt, latch, umbilical, channel, history>>
    BY <1>4 DEF WriteFails
  <2>2. "umbilical" \notin ready'["sentry"] /\ ready'["umbilical"] = ready["umbilical"]
    BY <1>4 DEF WriteFails, Timer, Serve, Turn, Before
  <2>3. Timing
    OBVIOUS
  <2>. QED  BY <2>1, <2>2, <2>3, TimingGiveUp DEF TimeoutsHaveCauses
<1>5. CASE UmbilicalLost
  <2>1. GiveUp /\ UNCHANGED <<proc, phase, preempt, latch, umbilical, channel, history>>
    BY <1>5 DEF UmbilicalLost
  <2>2. "umbilical" \notin ready'["sentry"] /\ ready'["umbilical"] = ready["umbilical"]
    BY <1>5 DEF UmbilicalLost, Serve
  <2>. QED  BY <2>1, <2>2, TimingGiveUp DEF TimeoutsHaveCauses
<1>. QED  BY <1>1, <1>2, <1>3, <1>4, <1>5

\* stopUmbilicalProcess().
LEMMA TimingStop ==
  ASSUME IInv, Timing, SendClose \/ Drain \/ Drained \/ DrainExpired \/ Waited
  PROVE  Timing'
<1>. USE DEF IInv, TypeOK, Timing, SetTimer, Draining
<1>1. CASE SendClose
  <2>1. /\ phase["sentry"] = "stop" /\ latch' = {}
        /\ UNCHANGED <<proc, child, ready, count, open, preempt, childDown, kills,
                       umbilical, echoes, client, history>>
    BY <1>1 DEF SendClose
  <2>2. \/ /\ proc["umbilical"] = "dead" /\ phase' = [phase EXCEPT !["sentry"] = "end"]
           /\ UNCHANGED <<timer, shut>>
        \/ /\ phase' = [phase EXCEPT !["sentry"] = "drain"]
           /\ timer' = [timer EXCEPT !["sentry"] = Timeout]
           /\ shut' = shut \cup {"sentry"}
    BY <1>1 DEF SendClose
  <2>3. Ending' /\ TimeoutsHaveCauses'
    BY <2>1, <2>2 DEF Ending, TimeoutsHaveCauses
  <2>4. Pending' /\ Patient'
    BY <2>2 DEF Pending, Patient, Waiting
  <2>5. Steady'
    BY <2>1, <2>2 DEF Steady, Watching
  <2>. QED  BY <2>3, <2>4, <2>5
<1>2. CASE Drain \/ Drained \/ DrainExpired \/ Waited
  <2>1. /\ phase["sentry"] \in {"drain", "wait"} /\ phase'["sentry"] \in {"drain", "wait", "end"}
        /\ phase'["umbilical"] = phase["umbilical"]
        /\ phase' \in [Proc -> {"monitor", "stop", "drain", "wait", "end", "sync",
                         "killChild", "killSentry"}]
        /\ timer' \in [Proc -> 0..Off] /\ timer'["umbilical"] = timer["umbilical"]
        /\ latch' \subseteq latch
        /\ UNCHANGED <<proc, child, ready, count, open, preempt, childDown, kills,
                       umbilical, wire, shut, client, history>>
    BY <1>2 DEF Drain, Drained, DrainExpired, Waited
  <2>2. Ending' /\ TimeoutsHaveCauses'
    BY <2>1 DEF Ending, TimeoutsHaveCauses
  <2>3. Pending' /\ Patient'
    BY <2>1 DEF Pending, Patient, Waiting
  <2>4. Steady'
    BY <2>1 DEF Steady, Watching, Ending
  <2>. QED  BY <2>2, <2>3, <2>4
<1>. QED  BY <1>1, <1>2

\* Reading from the umbilical.
LEMMA TimingReadWire ==
  ASSUME IInv, Timing, ReadWire, phase["umbilical"] \in {"sync", "monitor"},
         phase["umbilical"] = "monitor" => "umbilical" \in ready["umbilical"],
         ready'["sentry"] = ready["sentry"],
         ready'["umbilical"] = ready["umbilical"] \ {"umbilical"},
         phase' = [phase EXCEPT !["umbilical"] = "monitor"],
         UNCHANGED <<proc, child, sentry, echoes, client, history>>
  PROVE  Timing'
<1>. USE DEF IInv, TypeOK, Timing, SetTimer, SetCount
<1>1. CASE wire # <<>>
  <2>1. /\ wire' = Tail(wire) /\ Head(wire) \in {"ping", "close"}
        /\ timer' = [timer EXCEPT !["umbilical"] = HalfPeriod]
        /\ count' = [count EXCEPT !["umbilical"] = 0]
        /\ UNCHANGED <<open, shut>>
    BY <1>1 DEF ReadWire
  <2>2. echo' \in BOOLEAN /\ (echo' <=> echo \/ Head(wire) = "ping")
    BY <1>1, Zenon DEF ReadWire
  <2>3. Ending' /\ TimeoutsHaveCauses'
    BY <2>1 DEF Ending, TimeoutsHaveCauses
  <2>4. phase["sentry"] = "monitor" => Head(wire) = "ping"
    <3>1. Head(wire) = wire[1] /\ 1 \in 1..Len(wire)
      BY <1>1
    <3>. QED  BY <2>1, <3>1 DEF Closing
  <2>5. Pending'
    BY <2>1, <2>2, <2>4 DEF Pending, Waiting
  <2>6. Patient'
    BY <2>1 DEF Patient, Waiting, Told
  <2>7. Steady'
    BY <2>1 DEF Steady, Watching, Ending
  <2>. QED  BY <2>3, <2>5, <2>6, <2>7
<1>2. CASE wire = <<>>
  <2>1. /\ open' = [open EXCEPT !["umbilical"] = FALSE]
        /\ timer' = [timer EXCEPT !["umbilical"] = Off]
        /\ shut' = shut \cup {"umbilical"}
        /\ UNCHANGED <<wire, closed, echo, count>>
    BY <1>2 DEF ReadWire, CloseEnd
  <2>2. Ending' /\ TimeoutsHaveCauses'
    BY <2>1 DEF Ending, TimeoutsHaveCauses
  <2>3. Pending' /\ Patient'
    BY <2>1 DEF Pending, Patient, Waiting, Told
  <2>4. Steady'
    BY <2>1 DEF Steady, Watching
  <2>. QED  BY <2>2, <2>3, <2>4
<1>. QED  BY <1>1, <1>2

\* The umbilical process.
LEMMA TimingUmbilical ==
  ASSUME IInv, Timing,
         \/ Synchronise \/ ReadUmbilical \/ SendEcho \/ SentrySilent
         \/ (\E c \in Client : Accept(c)) \/ Clean
         \/ LoopDone \/ KillChildGroup \/ KillSentryGroup \/ Exit
  PROVE  Timing'
<1>. USE DEF IInv, TypeOK, Timing, SetTimer, SetCount
<1>1. CASE Synchronise
  <2>1. /\ ReadWire /\ ready' = ready /\ phase["umbilical"] = "sync"
        /\ phase' = [phase EXCEPT !["umbilical"] = "monitor"]
        /\ UNCHANGED <<proc, child, sentry, echoes, client, history>>
    BY <1>1 DEF Synchronise
  <2>2. ready'["umbilical"] = ready["umbilical"] \ {"umbilical"}
    BY <2>1 DEF Heard
  <2>. QED  BY <2>1, <2>2, TimingReadWire
<1>2. CASE ReadUmbilical
  <2>1. /\ ReadWire /\ phase["umbilical"] = "monitor" /\ "umbilical" \in ready["umbilical"]
        /\ ready' = [ready EXCEPT !["umbilical"] = @ \ {"umbilical"}]
        /\ UNCHANGED <<proc, child, phase, sentry, echoes, client, history>>
    BY <1>2 DEF ReadUmbilical, Serve, Turn, Monitoring
  <2>2. phase' = [phase EXCEPT !["umbilical"] = "monitor"]
    BY <2>1
  <2>. QED  BY <2>1, <2>2, TimingReadWire
<1>3. CASE SendEcho
  <2>1. echo' \in BOOLEAN /\ ~echo'
    BY <1>3, Zenon DEF SendEcho
  <2>2. /\ ready' = [ready EXCEPT !["umbilical"] = @ \ {"event"}]
        /\ echoes' = IF open["umbilical"] /\ proc["sentry"] # "dead"
                          /\ phase["sentry"] # "end"
                     THEN echoes + 1 ELSE echoes
        /\ UNCHANGED <<proc, child, timer, count, open, phase, sentry, closed, wire,
                       shut, client, history>>
    BY <1>3 DEF SendEcho, Serve
  <2>3. Ending' /\ TimeoutsHaveCauses'
    BY <2>1, <2>2 DEF Ending, TimeoutsHaveCauses
  <2>4. Pending'
    BY <2>2 DEF Pending, Waiting, Ending
  <2>5. Patient' /\ Steady'
    BY <2>2 DEF Patient, Waiting, Told, Steady, Watching
  <2>. QED  BY <2>3, <2>4, <2>5
<1>4. CASE SentrySilent
  <2>1. /\ timer["umbilical"] = 0 /\ phase["umbilical"] = "monitor"
        /\ proc["umbilical"] = "running" /\ "timer" \in ready["umbilical"]
        /\ ready["umbilical"] \cap (Pollees \ {"timer"}) = {}
        /\ ready' = [ready EXCEPT !["umbilical"] = @ \ {"timer"}]
        /\ UNCHANGED <<proc, child, phase, sentry, umbilical, wire, echoes, client,
                       waited, excused>>
    BY <1>4 DEF SentrySilent, Timer, Due, Serve, Turn, Monitoring, Before
  <2>2. CASE SentryStopped
    <3>1. /\ proc["sentry"] = "stopped"
          /\ count' = [count EXCEPT !["umbilical"] = 0]
          /\ timer' = [timer EXCEPT !["umbilical"] = Period]
          /\ UNCHANGED <<open, shut, alarm>>
      BY <1>4, <2>2 DEF SentrySilent, SentryStopped
    <3>2. Ending' /\ TimeoutsHaveCauses' /\ Pending' /\ Patient'
      BY <2>1, <3>1 DEF Ending, TimeoutsHaveCauses, Pending, Patient, Waiting, Told
    <3>3. Steady'
      BY <2>1, <3>1 DEF Watching, Steady
    <3>. QED  BY <3>2, <3>3
  <2>3. CASE ~SentryStopped /\ TooLong(count["umbilical"] + 1)
    <3>1. /\ proc["sentry"] # "stopped" /\ count["umbilical"] + 1 >= CycleLimit
          /\ count' = [count EXCEPT !["umbilical"] = @ + 1]
          /\ open' = [open EXCEPT !["umbilical"] = FALSE]
          /\ timer' = [timer EXCEPT !["umbilical"] = Off]
          /\ shut' = shut \cup {"umbilical"}
          /\ alarm' = alarm \cup {"umbilical"}
      BY <1>4, <2>3 DEF SentrySilent, SentryStopped, TooLong, CloseEnd
    <3>2. "umbilical" \in excused \/ ~open["sentry"] \/ proc["sentry"] = "dead"
      <4>1. count["umbilical"] = 1
        BY <2>1, <3>1 DEF Counted
      <4>. QED  BY <2>1, <3>1, <4>1 DEF Steady, Watching, Ending
    <3>3. Ending' /\ TimeoutsHaveCauses'
      BY <2>1, <3>1, <3>2 DEF Ending, TimeoutsHaveCauses
    <3>4. Pending' /\ Patient' /\ Steady'
      BY <2>1, <3>1 DEF Pending, Patient, Waiting, Told, Steady, Watching
    <3>. QED  BY <3>3, <3>4
  <2>4. CASE ~SentryStopped /\ ~TooLong(count["umbilical"] + 1)
    <3>1. /\ count' = [count EXCEPT !["umbilical"] = @ + 1]
          /\ timer' = [timer EXCEPT !["umbilical"] = Period]
          /\ UNCHANGED <<open, shut, alarm>>
      BY <1>4, <2>4 DEF SentrySilent
    <3>2. open["umbilical"] /\ count["umbilical"] = 0
      BY <2>1, <2>4 DEF TooLong, Ending
    <3>3. Ending' /\ TimeoutsHaveCauses' /\ Pending' /\ Patient'
      BY <2>1, <3>1, <3>2 DEF Ending, TimeoutsHaveCauses, Pending, Patient, Waiting, Told
    <3>4. Steady'
      BY <2>1, <3>1, <3>2 DEF Steady, Watching, Ending
    <3>. QED  BY <3>3, <3>4
  <2>. QED  BY <2>2, <2>3, <2>4
<1>5. CASE (\E c \in Client : Accept(c)) \/ Clean
  <2>1. /\ \/ ready' = [ready EXCEPT !["umbilical"] = @ \ {"server"}]
           \/ ready' = [ready EXCEPT !["umbilical"] = @ \ {"client"}]
        /\ UNCHANGED <<proc, child, timer, count, open, phase, sentry, umbilical, channel,
                       history>>
    BY <1>5 DEF Accept, Clean, Serve
  <2>. QED
    BY <2>1 DEF Ending, Pending, Waiting, Told, Patient, Steady, Watching, TimeoutsHaveCauses
<1>6. CASE LoopDone
  <2>1. /\ phase' = [phase EXCEPT !["umbilical"] = "killChild"]
        /\ UNCHANGED <<proc, child, ready, timer, count, open, sentry, umbilical,
                       channel, client, history>>
    BY <1>6 DEF LoopDone
  <2>. QED
    BY <2>1 DEF Ending, Pending, Waiting, Told, Patient, Steady, Watching, TimeoutsHaveCauses
<1>7. CASE KillChildGroup
  <2>1. /\ phase["umbilical"] = "killChild" /\ phase'["umbilical"] \in {"end", "killSentry"}
        /\ phase'["sentry"] = phase["sentry"]
        /\ latch \subseteq latch' /\ latch' \subseteq latch \cup {"child", "umbilical"}
        /\ UNCHANGED <<proc, ready, timer, count, open, preempt, childDown, kills,
                       umbilical, channel, client, history>>
    BY <1>7, EndedLatches DEF KillChildGroup
  <2>. QED
    BY <2>1 DEF Ending, Pending, Waiting, Told, Patient, Steady, Watching, TimeoutsHaveCauses
<1>8. CASE KillSentryGroup
  <2>1. /\ phase' = [phase EXCEPT !["umbilical"] = "end"]
        /\ proc' = [proc EXCEPT !["sentry"] = "dead"]
        /\ UNCHANGED <<child, ready, timer, count, open, sentry, umbilical, channel,
                       client, history>>
    BY <1>8 DEF KillSentryGroup
  <2>. QED
    BY <2>1 DEF Ending, Pending, Waiting, Told, Patient, Steady, Watching, TimeoutsHaveCauses
<1>9. CASE Exit
  <2>1. /\ proc' = [proc EXCEPT !["umbilical"] = "dead"]
        /\ UNCHANGED <<child, ready, timer, count, open, phase, sentry, umbilical,
                       channel, history>>
    BY <1>9 DEF Exit
  <2>. QED
    BY <2>1 DEF Ending, Pending, Waiting, Told, Patient, Steady, Watching, TimeoutsHaveCauses
<1>. QED  BY <1>1, <1>2, <1>3, <1>4, <1>5, <1>6, <1>7, <1>8, <1>9

\* The child, the clients and the faults.
LEMMA TimingWorld ==
  ASSUME IInv, Timing,
         \/ ChildEnds
         \/ \E c \in Client : Connect(c) \/ Leave(c)
         \/ \E p \in Proc : Stop(p) \/ Continue(p) \/ Stick(p) \/ Recover(p) \/ Kill(p)
  PROVE  Timing'
<1>. USE DEF IInv, TypeOK, Timing
<1>1. CASE ChildEnds \/ \E c \in Client : Connect(c) \/ Leave(c)
  <2>1. /\ latch \subseteq latch' /\ latch' \subseteq latch \cup {"child", "umbilical"}
        /\ UNCHANGED <<proc, ready, timer, count, open, phase, preempt, childDown,
                       kills, umbilical, channel, history>>
    BY <1>1, EndedLatches DEF ChildEnds, Connect, Leave
  <2>. QED
    BY <2>1 DEF Ending, Pending, Waiting, Told, Patient, Steady, Watching, TimeoutsHaveCauses
<1>2. ASSUME NEW p \in Proc, Stop(p) \/ Stick(p) \/ Recover(p)
      PROVE  Timing'
  <2>1. /\ proc[p] \in {"running", "stuck"}
        /\ \/ proc' = [proc EXCEPT ![p] = "stopped"]
           \/ proc' = [proc EXCEPT ![p] = "stuck"]
           \/ proc' = [proc EXCEPT ![p] = "running"]
        /\ UNCHANGED <<child, ready, timer, count, open, phase, sentry, umbilical,
                       channel, client, history>>
    BY <1>2 DEF Stop, Stick, Recover
  <2>. QED
    BY <2>1 DEF Ending, Pending, Waiting, Told, Patient, Steady, Watching, TimeoutsHaveCauses
<1>3. ASSUME NEW p \in Proc, Continue(p)
      PROVE  Timing'
  <2>1. /\ proc[p] \in {"stopped", "running"} /\ proc' = [proc EXCEPT ![p] = "running"]
        /\ latch' = latch \cup (IF p = "sentry" THEN {"cont"} ELSE {"umbilical"})
        /\ excused' = IF p = "sentry" THEN Proc ELSE excused
        /\ UNCHANGED <<child, ready, timer, count, open, phase, preempt, childDown,
                       kills, umbilical, channel, client, waited, alarm>>
    BY <1>3 DEF Continue
  <2>2. CASE p = "sentry"
    BY <2>1, <2>2 DEF Ending, Pending, Waiting, Told, Patient, Steady, Watching,
                      TimeoutsHaveCauses
  <2>3. CASE p = "umbilical"
    <3>1. "umbilical" \in latch' /\ latch \subseteq latch' /\ excused' = excused
      BY <2>1, <2>3
    <3>2. Ending' /\ TimeoutsHaveCauses'
      BY <2>1, <2>3, <3>1 DEF Ending, TimeoutsHaveCauses
    <3>3. Pending' /\ Patient'
      BY <2>1, <2>3, <3>1 DEF Pending, Patient, Waiting, Told
    <3>4. Steady'
      BY <1>3, <2>1, <2>3, <3>1 DEF Steady, Watching, Continue
    <3>. QED  BY <3>2, <3>3, <3>4
  <2>. QED  BY <2>2, <2>3
<1>4. ASSUME NEW p \in Proc, Kill(p)
      PROVE  Timing'
  <2>1. /\ proc' = [proc EXCEPT ![p] = "dead"]
        /\ UNCHANGED <<child, ready, timer, count, open, phase, sentry, umbilical,
                       channel, history>>
    BY <1>4 DEF Kill
  <2>. QED
    BY <2>1 DEF Ending, Pending, Waiting, Told, Patient, Steady, Watching, TimeoutsHaveCauses
<1>. QED  BY <1>1, <1>2, <1>3, <1>4

\* What is at rest has nothing to read, and no timer has expired.
LEMMA RestIsSilence ==
  ASSUME IInv, Ending, NEW p \in Proc, proc[p] = "running", AtRest(p)
  PROVE  /\ phase[p] = "monitor" =>
              /\ ready[p] = {} /\ timer[p] # 0
              /\ open[p] => ~Readable(p)
              /\ p = "umbilical" => ~echo
         /\ phase["umbilical"] = "sync" /\ p = "umbilical" => ~Readable(p)
         /\ p = "sentry" => phase[p] # "stop"
         /\ p = "umbilical" => phase[p] \in {"sync", "monitor"}
<1>1. phase[p] = "monitor" => ready[p] = {} /\ Reported(p) = {}
  BY DEF AtRest
<1>2. "timer" \notin Reported(p) => timer[p] # 0
  BY DEF Reported, Due
<1>3. "umbilical" \notin Reported(p) => (open[p] => ~Readable(p))
  BY DEF Reported
<1>4. p = "umbilical" /\ "event" \notin Reported(p) => ~echo
  BY DEF Reported
<1>5. /\ phase["umbilical"] = "sync" /\ p = "umbilical" => ~Readable(p)
      /\ p = "sentry" => phase[p] # "stop"
      /\ p = "umbilical" => phase[p] \in {"sync", "monitor"}
  BY DEF AtRest
<1>. QED  BY <1>1, <1>2, <1>3, <1>4, <1>5

\* Time passes only for those who are at rest, or have or give an excuse.
LEMMA TimingTick ==
  ASSUME IInv, Timing, Tick
  PROVE  Timing'
<1>. USE DEF IInv, TypeOK, Timing
<1>1. /\ \A p \in Proc : timer'[p] = IF timer[p] \in {0, Off} THEN timer[p] ELSE timer[p] - 1
      /\ \A p \in Proc : AtRest(p)
      /\ UNCHANGED <<proc, child, ready, count, open, phase, sentry, umbilical,
                     channel, client, alarm>>
  BY DEF Tick
<1>2. /\ excused \subseteq excused' /\ excused' \subseteq Proc
      /\ proc["umbilical"] = "stuck" => "sentry" \in excused'
      /\ proc["sentry"] = "stuck" => "umbilical" \in excused'
      /\ echo => "umbilical" \in excused'
  BY DEF Tick
<1>3. timer["sentry"] \in 0..Off /\ timer["umbilical"] \in 0..Off
  OBVIOUS
<1>4. Ending' /\ Pending' /\ TimeoutsHaveCauses'
  <2>1. /\ timer'["sentry"] <= timer["sentry"]
        /\ \A p \in Proc : timer[p] = Off => timer'[p] = Off
    BY <1>1, <1>3
  <2>2. excused = Proc => excused' = Proc
    BY <1>2
  <2>3. timer["sentry"] <= Period => timer'["sentry"] <= Period
    BY <1>1, <1>3
  <2>4. Ending'
    BY <1>1, <2>1, <2>2, <2>3 DEF Ending
  <2>5. Pending' /\ TimeoutsHaveCauses'
    BY <1>1, <1>2 DEF Pending, Waiting, TimeoutsHaveCauses
  <2>. QED  BY <2>4, <2>5
<1>5. Patient'
  <2>. SUFFICES ASSUME Waiting', "sentry" \notin excused'
                PROVE  Patient'
    BY DEF Patient
  <2>1. Waiting /\ "sentry" \notin excused /\ proc["umbilical"] # "stuck"
    BY <1>1, <1>2 DEF Waiting
  <2>2. CASE proc["umbilical"] \in {"stopped", "dead"}
    BY <1>1, <2>1, <2>2 DEF Patient, Told
  <2>3. CASE proc["umbilical"] = "running"
    <3>1. (wire = <<>> /\ ~echo) \/ ~open["umbilical"]
      BY <1>1, <2>3, RestIsSilence DEF Ending
    <3>2. echoes > 0 \/ Hangup("sentry")
      BY <2>1, <3>1 DEF Pending, Ending
    <3>. QED  BY <1>1, <2>1, <3>2 DEF Patient, Told
  <2>. QED  BY <2>1, <2>2, <2>3
<1>6. Steady'
  <2>. SUFFICES ASSUME Watching'
                PROVE  Steady'
    BY DEF Steady
  <2>1. Watching /\ proc["sentry"] = "running" /\ ~echo
    BY <1>1, <1>2 DEF Watching
  <2>2. ASSUME wire = <<>>, "sentry" \notin shut
        PROVE  /\ Awaiting => FALSE
               /\ count["umbilical"] = 0 => timer'["umbilical"] + HalfPeriod >= timer'["sentry"]
               /\ count["umbilical"] # 0 => timer'["umbilical"] > timer'["sentry"]
    <3>1. phase["sentry"] = "monitor"
      BY <1>1, <2>1, <2>2, RestIsSilence DEF Ending, Watching
    <3>2. timer["sentry"] # 0 /\ echoes = 0 /\ ~Hangup("sentry")
      BY <1>1, <2>1, <3>1, RestIsSilence DEF Watching
    <3>3. ~Awaiting
      BY <2>1, <2>2, <3>1, <3>2 DEF Pending, Waiting, Watching
    <3>4. /\ count["umbilical"] = 0 => timer["umbilical"] + HalfPeriod >= timer["sentry"]
          /\ count["umbilical"] # 0 => timer["umbilical"] > timer["sentry"]
      BY <2>1, <2>2, <3>3 DEF Steady
    <3>5. timer["sentry"] \in 1..Period
      BY <2>1, <3>1, <3>2, <1>3 DEF Ending, Watching
    <3>6. timer'["sentry"] = timer["sentry"] - 1
      BY <1>1, <3>5
    <3>7. timer'["umbilical"] \in {timer["umbilical"], timer["umbilical"] - 1}
          /\ (timer["umbilical"] = 0 => timer'["umbilical"] = 0)
      BY <1>1
    <3>. QED  BY <1>3, <3>3, <3>4, <3>5, <3>6, <3>7
  <2>3. count["umbilical"] = 1 /\ "timer" \in ready["umbilical"]
          => "umbilical" \in ready["umbilical"]
    BY <2>1 DEF Steady
  <2>. QED  BY <1>1, <2>2, <2>3 DEF Steady
<1>. QED  BY <1>4, <1>5, <1>6

LEMMA TimingStep == IInv /\ Timing /\ [Next]_vars => Timing'
<1>1. CASE UNCHANGED vars /\ Timing
  BY <1>1 DEF vars, Timing, Ending, Pending, Waiting, Told, Patient, Steady, Watching,
              TimeoutsHaveCauses
<1>2. CASE IInv /\ Timing /\ SentryStep
  BY <1>2, TimingPoll, TimingEvents, TimingTimer, TimingStop DEF SentryStep
<1>3. CASE IInv /\ Timing /\ UmbilicalStep
  BY <1>3, TimingPoll, TimingUmbilical DEF UmbilicalStep
<1>. QED
  BY <1>1, <1>2, <1>3, TimingEvents, TimingWorld, TimingTick DEF Next

\* A timeout has a cause, whatever the clients and the faults.
THEOREM CausesAreThere == Spec => []TimeoutsHaveCauses
<1>1. Init => Timing
  BY TimingInit
<1>2. IInv /\ Timing /\ [Next]_vars => Timing'
  BY TimingStep
<1>3. Timing => TimeoutsHaveCauses
  BY DEF Timing
<1>. QED  BY <1>1, <1>2, <1>3, Invariance, PTL DEF Spec

----------------------------------------------------------------------------
\* SIGCONT is what breaks TimeoutMeansSilence.  Unless the sentry is continued, a wait
\* for an echo has lasted as long as its timer has run, whatever else happens.
Unhurried ==
  /\ ~preempt /\ "cont" \notin latch
  /\ phase["sentry"] = "monitor" /\ Awaiting => waited + timer["sentry"] >= Period

\* What a step leaves alone that keeps the age of the wait, and the timer with it.
LEMMA UnhurriedKeeps ==
  ASSUME IInv, Unhurried, UNCHANGED <<preempt, waited>>,
         latch' \subseteq latch \cup {"child", "umbilical"},
         phase'["sentry"] = "monitor" => phase["sentry"] = "monitor",
         \/ timer'["sentry"] \in {Period, Off}
         \/ timer'["sentry"] = timer["sentry"] /\ count'["sentry"] = count["sentry"]
  PROVE  Unhurried'
BY DEF IInv, TypeOK, Unhurried

LEMMA SentryUnhurried ==
  ASSUME IInv, Unhurried, SentryStep \/ KillChild
  PROVE  Unhurried'
<1>. USE DEF SetTimer, SetCount, GiveUp, Serve, Turn, Monitoring, Draining
<1>. USE DEF IInv, TypeOK
<1>1. CASE \/ Poll("sentry") \/ TimerReset("sentry") \/ ChildReported \/ MonitorDone
           \/ UmbilicalRuns
  BY <1>1, UnhurriedKeeps DEF Poll, TimerReset, ChildReported, MonitorDone, UmbilicalRuns, Event
<1>2. CASE KillChild
  BY <1>2, UnhurriedKeeps, EndedLatches DEF KillChild
<1>3. CASE ReadEcho
  <2>1. ~preempt'
    BY <1>3, Zenon DEF ReadEcho
  <2>2. latch' = latch /\ count'["sentry"] = CycleLimit
    BY <1>3 DEF ReadEcho
  <2>. QED  BY <2>1, <2>2 DEF Unhurried
<1>4. CASE Continued
  BY <1>4 DEF Continued, Event, Unhurried
<1>5. CASE UmbilicalLost \/ WritePing \/ WriteFails \/ DeferTimeout
  BY <1>5, UnhurriedKeeps DEF UmbilicalLost, WritePing, WriteFails, DeferTimeout, Timer
<1>6. CASE CountTimeout
  <2>1. UNCHANGED <<preempt, latch, phase>> /\ timer'["sentry"] \in {Period, Off}
    BY <1>6 DEF CountTimeout
  <2>2. waited' \in 0..Period
    BY <1>6 DEF CountTimeout
  <2>. QED  BY <2>1, <2>2 DEF Unhurried
<1>7. CASE SendClose \/ Drain \/ Drained \/ DrainExpired \/ Waited
  <2>1. /\ UNCHANGED <<preempt, waited>> /\ latch' \subseteq latch
        /\ phase'["sentry"] # "monitor"
    BY <1>7 DEF SendClose, Drain, Drained, DrainExpired, Waited
  <2>. QED  BY <2>1 DEF Unhurried
<1>. QED
  BY <1>1, <1>2, <1>3, <1>4, <1>5, <1>6, <1>7 DEF SentryStep

LEMMA UmbilicalUnhurried ==
  ASSUME IInv, Unhurried, UmbilicalStep
  PROVE  Unhurried'
<1>. USE DEF SetTimer, SetCount, Serve, Turn, Monitoring
<1>. USE DEF IInv, TypeOK
<1>1. CASE Poll("umbilical") \/ TimerReset("umbilical") \/ LoopDone \/ KillSentryGroup \/ Exit
  BY <1>1, UnhurriedKeeps DEF Poll, TimerReset, LoopDone, KillSentryGroup, Exit
<1>2. CASE Synchronise \/ ReadUmbilical
  BY <1>2, UnhurriedKeeps DEF Synchronise, ReadUmbilical, ReadWire, CloseEnd
<1>3. CASE SendEcho \/ SentrySilent
  BY <1>3, UnhurriedKeeps DEF SendEcho, SentrySilent, Timer, CloseEnd
<1>4. CASE (\E c \in Client : Accept(c)) \/ Clean
  BY <1>4, UnhurriedKeeps DEF Accept, Clean
<1>5. CASE KillChildGroup
  BY <1>5, UnhurriedKeeps, EndedLatches DEF KillChildGroup
<1>. QED
  BY <1>1, <1>2, <1>3, <1>4, <1>5 DEF UmbilicalStep

LEMMA UnhurriedStep ==
  ASSUME IInv, Unhurried, <<"continue", "sentry">> \notin Fault, [Next]_vars
  PROVE  Unhurried'
<1>. USE DEF IInv, TypeOK
<1>1. CASE UNCHANGED vars
  BY <1>1 DEF vars, Unhurried
<1>2. CASE Tick
  <2>1. /\ UNCHANGED <<preempt, latch, phase, count>>
        /\ timer'["sentry"] = IF timer["sentry"] \in {0, Off} THEN timer["sentry"]
                                                               ELSE timer["sentry"] - 1
        /\ waited' = IF Awaiting /\ waited < Period THEN waited + 1 ELSE waited
    BY <1>2 DEF Tick
  <2>2. timer["sentry"] \in 0..Off /\ waited \in 0..Period
    OBVIOUS
  <2>. QED  BY <2>1, <2>2 DEF Unhurried
<1>3. CASE ChildEnds \/ \E c \in Client : Connect(c) \/ Leave(c)
  BY <1>3, UnhurriedKeeps, EndedLatches DEF ChildEnds, Connect, Leave
<1>4. CASE \E p \in Proc : Stop(p) \/ Stick(p) \/ Recover(p) \/ Kill(p)
  BY <1>4, UnhurriedKeeps DEF Stop, Stick, Recover, Kill
<1>5. CASE \E p \in Proc : Continue(p)
  BY <1>5, UnhurriedKeeps DEF Continue
<1>. QED
  BY <1>1, <1>2, <1>3, <1>4, <1>5, SentryUnhurried, UmbilicalUnhurried DEF Next

\* Only CountTimeout declares a timeout of the sentry.
LEMMA AlarmIsCounted ==
  ASSUME IInv, Next, "sentry" \notin alarm, "sentry" \in alarm'
  PROVE  CountTimeout
<1>1. CASE SentryStep
  BY <1>1 DEF SentryStep, Poll, TimerReset, ReadEcho, UmbilicalLost, UmbilicalRuns, Continued,
              ChildReported, WritePing, WriteFails, DeferTimeout, MonitorDone, SendClose, Drain,
              Drained, DrainExpired, Waited
<1>2. CASE UmbilicalStep
  BY <1>2 DEF UmbilicalStep, Poll, TimerReset, Synchronise, ReadUmbilical, SendEcho,
              SentrySilent, Accept, Clean, LoopDone, KillChildGroup, KillSentryGroup, Exit
<1>3. CASE KillChild \/ Tick \/ ChildEnds
  BY <1>3 DEF KillChild, Tick, ChildEnds
<1>4. CASE \E c \in Client : Connect(c) \/ Leave(c)
  BY <1>4 DEF Connect, Leave
<1>5. CASE \E p \in Proc : Stop(p) \/ Continue(p) \/ Stick(p) \/ Recover(p) \/ Kill(p)
  BY <1>5 DEF Stop, Continue, Stick, Recover, Kill
<1>. QED  BY <1>1, <1>2, <1>3, <1>4, <1>5 DEF Next

\* SIGCONT is the only way in which the sentry times out early: unless it is continued,
\* at least a period has passed since the ping when it gives up the umbilical.
THEOREM TimeoutsTakeTime ==
  ASSUME <<"continue", "sentry">> \notin Fault
  PROVE  Spec => TimeoutMeansSilence
<1>1. Init => Unhurried
  BY Zenon DEF Init, Unhurried
<1>2. IInv /\ Unhurried /\ [Next]_vars => Unhurried'
  BY UnhurriedStep
<1>3. IInv /\ Unhurried /\ [Next]_vars =>
        [alarm' = alarm \cup {"sentry"} /\ "sentry" \notin alarm => waited = Period]_vars
  <2>. SUFFICES ASSUME IInv, Unhurried, Next, "sentry" \notin alarm, "sentry" \in alarm'
                PROVE  waited = Period
    BY DEF vars
  <2>1. CountTimeout
    BY AlarmIsCounted
  <2>2. phase["sentry"] = "monitor" /\ Awaiting /\ timer["sentry"] = 0
    BY <2>1 DEF CountTimeout, Timer, Serve, Turn, Monitoring, Due
  <2>3. waited \in 0..Period
    BY DEF IInv, TypeOK
  <2>. QED  BY <2>2, <2>3 DEF Unhurried
<1>. QED  BY <1>1, <1>2, <1>3, Invariance, PTL DEF Spec, TimeoutMeansSilence
=============================================================================
