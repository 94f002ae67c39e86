--------------------------- MODULE SilenceProofs ---------------------------
(***************************************************************************)
(* Why the monitor aborts only a silent child: theorem AbortsAreDeserved,  *)
(* for any scenario, any sizes of pipe and buffer, and any periods.        *)
(*                                                                         *)
(* The invariant relates three clocks: the age of the last output, the     *)
(* age of the thread's last activity, and the timer of the monitor with    *)
(* its count.                                                              *)
(***************************************************************************)
EXTENDS TetherProofs

USE DEF Thread, Faults, CycleLimit, Patience, Horizon, Hangup, DrainSource,
        setting, childs, stdout, drains, watches, history

\* The sentry stops only in a scenario in which it may; who is known to be dead is
\* dead; and the monitor leaves its loop after the child.
Ordered ==
  /\ sentry = "stopped" => "sentryStops" \in fault
  /\ latch = "disabled" \/ down => child = "dead"
  /\ phase["monitor"] # "loop" => down
  /\ timer["silence"] <= Period \/ timer["silence"] = Off

\* The child is held to its timeout.
Held ==
  /\ plan = "none" /\ child = "running" /\ ~blocked
  /\ timer["silence"] # Off /\ "sentryStops" \notin fault

\* What was written in this tick is or will be noticed in it.
Noticed == idle = 0 \/ pipe > 1 \/ (pipe > 0 /\ ~(phase["tether"] = "write" /\ ~copy))

\* The silence starts afresh with output, and when the child runs again.
Renewal ==
  Held /\ since = 0 =>
    latch = "set" \/ (count = 0 /\ timer["silence"] = Period) \/ Noticed

\* The thread has been active since, or the timer was set since.
Aged ==
  Held /\ since # 0 =>
    idle <= since \/ (count = 0 /\ timer["silence"] + since >= Period)

\* Half of the timeout was counted before the last output, or a period after it.
Halved ==
  Held /\ count = 1 =>
    \/ since + timer["silence"] <= Period
    \/ since + timer["silence"] >= Period + Period

Silence == Ordered /\ Renewal /\ Aged /\ Halved

----------------------------------------------------------------------------

LEMMA SilenceInit == Init => Silence
<1>. SUFFICES ASSUME Init PROVE Silence
  OBVIOUS
<1>1. ~down
  BY Zenon DEF Init
<1>2. /\ sentry = "running" /\ latch = "clear" /\ phase = [t \in Thread |-> "loop"]
      /\ count = 0 /\ idle = 0 /\ since = 0
  BY DEF Init
<1>3. timer["silence"] = Period \/ timer["silence"] = Off
  BY DEF Init
<1>. QED
  BY <1>1, <1>2, <1>3, Sizes DEF Silence, Ordered, Renewal, Noticed, Aged, Halved

\* Most steps leave the clocks alone, and begin no write.
LEMMA SilenceStays ==
  ASSUME IInv, Silence,
         phase'["monitor"] = phase["monitor"] \/ down',
         phase'["tether"] = "write" => phase["tether"] = "write",
         timer'["silence"] = timer["silence"],
         UNCHANGED <<setting, child, latch, pipe, copy, down, count, plan, idle, since,
                     blocked>>
  PROVE  Silence'
BY DEF Silence, Ordered, Held, Noticed, Renewal, Aged, Halved

\* The thread is active.
LEMMA SilenceBroken ==
  ASSUME IInv, Silence, idle' = 0,
         UNCHANGED <<setting, child, latch, down, timer, count, plan, since, blocked>>,
         phase'["monitor"] = phase["monitor"]
  PROVE  Silence'
<1>1. since \in Nat
  BY Sizes DEF IInv, Typed, TypeOK
<1>. QED  BY <1>1 DEF Silence, Ordered, Held, Noticed, Renewal, Aged, Halved

\* There is no silence to be counted.
LEMMA SilenceForgotten ==
  ASSUME IInv, Ordered', timer'["silence"] = Off \/ plan' # "none" \/ child' # "running"
  PROVE  Silence'
BY DEF Silence, Held, Renewal, Aged, Halved

LEMMA SilenceTether ==
  ASSUME IInv, Silence, TetherStep
  PROVE  Silence'
<1>. USE DEF IInv, Typed, TypeOK
<1>1. CASE Poll("tether") \/ FlushRequested \/ DrainIgnored \/ WriteBroken \/ DrainExpired
  BY <1>1, SilenceStays
  DEF Poll, FlushRequested, DrainIgnored, WriteBroken, DrainExpired
<1>2. CASE LeaveLoop \/ CloseControl \/ ThreadExit
  BY <1>2, SilenceStays DEF LeaveLoop, CloseControl, ThreadExit
<1>3. CASE InputEmpty \/ ReadInput \/ BeginWrite
  BY <1>3, SilenceBroken DEF InputEmpty, ReadInput, BeginWrite
<1>4. CASE WriteSome
  <2>1. /\ phase["tether"] = "write" /\ DrainSource > 0
        /\ phase'["monitor"] = phase["monitor"]
        /\ phase'["tether"] \in {"write", "loop"}
        /\ ~copy => phase'["tether"] = "loop" /\ pipe' = pipe - 1
        /\ copy => pipe' = pipe
        /\ UNCHANGED <<setting, childs, copy, watches, idle, history>>
    BY <1>4 DEF WriteSome, Writing, EndWrite, Buffered
  <2>2. Noticed => Noticed'
    BY <2>1 DEF Noticed
  <2>. QED  BY <2>1, <2>2 DEF Silence, Ordered, Held, Renewal, Aged, Halved
<1>. QED  BY <1>1, <1>2, <1>3, <1>4 DEF TetherStep

LEMMA SilenceMonitor ==
  ASSUME IInv, Silence, MonitorStep
  PROVE  Silence'
<1>. USE DEF IInv, Typed, TypeOK
<1>1. CASE Poll("monitor") \/ TetherClosed \/ TimerReset \/ Joined \/ MonitorDone
  BY <1>1, SilenceStays
  DEF Poll, TetherClosed, TimerReset, Joined, MonitorDone, Complete, Silence, Ordered
<1>2. CASE Ping
  BY <1>2, SilenceStays DEF Ping, SetTimer
<1>3. CASE ParentLost
  <2>1. timer'["silence"] = Off
    BY <1>3 DEF ParentLost, Activate
  <2>2. Ordered'
    BY <1>3, <2>1 DEF ParentLost, Silence, Ordered
  <2>. QED  BY <2>1, <2>2, SilenceForgotten
<1>4. CASE ChildRuns
  <2>1. /\ latch' = "clear"
        /\ UNCHANGED <<setting, child, writers, pipe, stdout, parent, phase, drains, tethered,
                       down, plan, sent, idle, history>>
    BY <1>4 DEF ChildRuns
  <2>2. CASE timer["silence"] # Off
    <3>1. count' = 0 /\ timer'["silence"] = Period
      BY <1>4, <2>2 DEF ChildRuns, SetTimer
    <3>. QED
      BY <2>1, <3>1, Sizes DEF Silence, Ordered, Held, Renewal, Aged, Halved
  <2>3. CASE timer["silence"] = Off
    <3>1. UNCHANGED <<count, timer>>
      BY <1>4, <2>3 DEF ChildRuns
    <3>2. Ordered'
      BY <2>1, <3>1 DEF Silence, Ordered
    <3>. QED  BY <2>3, <3>1, <3>2, SilenceForgotten
  <2>. QED  BY <2>2, <2>3
<1>5. CASE ChildEnded
  <2>1. /\ latch = "disabled" /\ down' /\ timer'["silence"] = timer["silence"]
        /\ UNCHANGED <<setting, childs, pipe, stdout, parent, phase, copy, buf, direction,
                       finish, drain, count, tethered, plan, sent, idle, history>>
    BY <1>5 DEF ChildEnded, SetTimer
  <2>2. child = "dead"
    BY <2>1 DEF Silence, Ordered
  <2>3. Ordered'
    BY <2>1, <2>2 DEF Silence, Ordered
  <2>. QED  BY <2>1, <2>2, <2>3, SilenceForgotten
<1>6. CASE SilenceForgiven
  <2>1. /\ timer["silence"] = 0 /\ count' = 0
        /\ timer'["silence"] = IF child = "stopped" THEN Period ELSE Period - idle
        /\ UNCHANGED <<setting, childs, pipe, stdout, parent, phase, drains, tethered, down,
                       plan, sent, idle, history>>
    BY <1>6 DEF SilenceForgiven, SetTimer
  <2>. QED
    BY <2>1, Sizes DEF Silence, Ordered, Held, Noticed, Renewal, Aged, Halved
<1>7. CASE SilenceCounted
  <2>1. /\ timer["silence"] = 0 /\ idle = Period /\ count' = count + 1
        /\ UNCHANGED <<setting, childs, pipe, stdout, parent, phase, drains, tethered, down,
                       sent, idle, history>>
    BY <1>7, Sizes DEF SilenceCounted
  <2>2. CASE count + 1 < CycleLimit
    <3>1. timer'["silence"] = Period /\ plan' = plan
      BY <1>7, <2>2 DEF SilenceCounted, SetTimer
    <3>2. count = 0 /\ since \in Nat
      BY <2>2, Sizes
    <3>3. Ordered' /\ Renewal'
      BY <2>1, <3>1, <3>2, Sizes DEF Silence, Ordered, Held, Noticed, Renewal
    <3>4. Held' /\ since # 0 => since >= Period
      BY <2>1, <3>1, <3>2, Sizes DEF Silence, Held, Aged
    <3>5. Aged' /\ Halved'
      BY <2>1, <3>1, <3>2, <3>4, Sizes DEF Aged, Halved
    <3>. QED  BY <3>3, <3>5 DEF Silence
  <2>3. CASE ~(count + 1 < CycleLimit)
    <3>1. timer'["silence"] = Off
      BY <1>7, <2>3 DEF SilenceCounted, Activate
    <3>2. Ordered'
      BY <2>1, <3>1 DEF Silence, Ordered
    <3>. QED  BY <3>1, <3>2, SilenceForgotten
  <2>. QED  BY <2>2, <2>3
<1>8. CASE Signal
  <2>1. timer["signal"] = 0
    BY <1>8 DEF Signal
  <2>2. plan' # "none"
    BY <1>8, <2>1, Sizes DEF Planned, Signal
  <2>3. Ordered'
    BY <1>8 DEF Signal, SetTimer, Dies, Silence, Ordered
  <2>. QED  BY <2>2, <2>3, SilenceForgotten
<1>. QED
  BY <1>1, <1>2, <1>3, <1>4, <1>5, <1>6, <1>7, <1>8 DEF MonitorStep

\* Who writes into a pipe that the thread drains is noticed.
LEMMA SilenceWritten ==
  ASSUME IInv, Silence, NEW w \in {"child", "heir"}, WriteTether(w)
  PROVE  Silence'
<1>1. /\ pipe' = pipe + 1
      /\ UNCHANGED <<setting, childs, stdout, parent, phase, ready, drains, watches, idle>>
  BY DEF WriteTether
<1>2. pipe \in Nat
  BY Sizes DEF IInv, Typed, TypeOK
<1>3. Ordered'
  BY <1>1 DEF Silence, Ordered
<1>4. Noticed'
  BY <1>1, <1>2 DEF Noticed, IInv, Buffered
<1>5. CASE plan = "none"
  <2>1. Renewing
    BY RenewedIs DEF WriteTether, IInv, Typed
  <2>2. since' = 0
    BY <2>1, <1>5 DEF Renewing
  <2>. QED
    BY <1>1, <1>3, <1>4, <2>2, Sizes
    DEF Silence, Ordered, Held, Renewal, Aged, Halved, IInv, Typed, TypeOK
<1>. QED  BY <1>1, <1>3, <1>5, SilenceForgotten

LEMMA SilenceWorld ==
  ASSUME IInv, Silence, WorldStep
  PROVE  Silence'
<1>1. ASSUME NEW w \in {"child", "heir"}, CloseTether(w)
      PROVE  Silence'
  BY <1>1, SilenceStays DEF CloseTether
<1>2. CASE ReadStdout \/ CloseStdout \/ ParentDies
  BY <1>2, SilenceStays DEF ReadStdout, CloseStdout, ParentDies
<1>3. CASE ChildExits \/ StopChild
  <2>1. Ordered' /\ child' # "running"
    BY <1>3 DEF ChildExits, StopChild, Dies, Silence, Ordered
  <2>. QED  BY <2>1, SilenceForgotten
<1>4. CASE ContinueChild
  <2>1. /\ child = "stopped" /\ child' = "running" /\ latch' = "set"
        /\ UNCHANGED <<setting, writers, pipe, stdout, parent, phase, ready, drains,
                       watches, idle>>
    BY <1>4 DEF ContinueChild
  <2>2. Ordered'
    BY <2>1 DEF Silence, Ordered
  <2>3. CASE plan = "none"
    <3>1. Renewing
      BY <1>4, RenewedIs DEF ContinueChild, IInv, Typed
    <3>2. since' = 0
      BY <3>1, <2>3 DEF Renewing
    <3>. QED
      BY <2>1, <2>2, <3>2, Sizes
      DEF Silence, Ordered, Held, Renewal, Aged, Halved, IInv, Typed, TypeOK
  <2>. QED  BY <2>1, <2>2, <2>3, SilenceForgotten
<1>5. CASE Sigchld
  <2>1. /\ child = "running" /\ latch' = "set"
        /\ UNCHANGED <<setting, child, writers, pipe, stdout, parent, phase, ready, drains,
                       watches, idle, history>>
    BY <1>5 DEF Sigchld
  <2>. QED  BY <2>1 DEF Silence, Ordered, Held, Renewal, Aged, Halved
<1>6. CASE UmbilicalLost
  <2>1. timer'["silence"] = Off
    BY <1>6 DEF UmbilicalLost, Activate, IInv, Typed, TypeOK
  <2>2. Ordered'
    BY <1>6, <2>1 DEF UmbilicalLost, Silence, Ordered
  <2>. QED  BY <2>1, <2>2, SilenceForgotten
<1>7. CASE StopSentry \/ ContinueSentry
  <2>1. /\ sentry' = "stopped" => "sentryStops" \in fault
        /\ UNCHANGED <<fault, childs, pipe, stdout, parent, phase, ready, drains, watches,
                       idle, history>>
    BY <1>7 DEF StopSentry, ContinueSentry
  <2>. QED  BY <2>1 DEF Silence, Ordered, Held, Noticed, Renewal, Aged, Halved
<1>. QED
  BY <1>1, <1>2, <1>3, <1>4, <1>5, <1>6, <1>7, SilenceWritten DEF WorldStep

\* A tick moves the three clocks together.
LEMMA SilenceTick ==
  ASSUME IInv, Silence, Tick
  PROVE  Silence'
<1>. USE DEF IInv, Typed, TypeOK
<1>1. /\ timer'["silence"] = Less(timer["silence"])
      /\ UNCHANGED <<setting, childs, pipe, stdout, parent, phase, ready, copy, buf,
                     direction, finish, control, count, tethered, down, plan, sent>>
  BY DEF Tick
<1>2. Ordered'
  BY <1>1, Sizes DEF Silence, Ordered, Less
<1>3. CASE ~Held'
  BY <1>2, <1>3 DEF Silence, Renewal, Aged, Halved
<1>4. CASE Held'
  <2>1. plan = "none" /\ child = "running" /\ sentry = "running" /\ phase["monitor"] = "loop"
    BY <1>1, <1>4 DEF Held, Silence, Ordered
  <2>2. blocked \in BOOLEAN /\ ~(blocked \/ pipe + buf > 0)
    <3>1. ~blocked'
      BY <1>4, Zenon DEF Held
    <3>2. blocked' = (blocked \/ (plan = "none" /\ sentry = "running" /\ pipe + buf > 0))
      BY Zenon DEF Tick
    <3>. QED  BY <2>1, <3>1, <3>2
  <2>3. Held
    BY <1>1, <1>4, <2>2 DEF Held, Less
  <2>4. Reported("monitor") = {}
    BY <2>1, PolleesAre DEF Tick, AtRest
  <2>5. latch # "set" /\ timer["silence"] # 0
    BY <2>4, PolleesAre DEF Reported
  <2>6. /\ timer["silence"] \in 1..Period /\ timer'["silence"] = timer["silence"] - 1
        /\ idle' = More(idle, Period) /\ since' = More(since, Horizon)
    BY <1>1, <2>1, <2>3, <2>5, Sizes DEF Held, Silence, Ordered, Less, Tick
  <2>7. pipe = 0
    BY <2>2, Sizes
  <2>8. Renewal' /\ since' # 0
    BY <2>6, Sizes DEF Renewal, More
  <2>9. Aged'
    <3>1. CASE since = 0
      BY <1>1, <2>3, <2>5, <2>6, <2>7, <3>1, Sizes DEF Silence, Renewal, Noticed, Aged, More
    <3>2. CASE since # 0
      BY <1>1, <2>3, <2>6, <3>2, Sizes DEF Silence, Aged, More
    <3>. QED  BY <3>1, <3>2
  <2>10. Halved'
    BY <1>1, <2>3, <2>6, Sizes DEF Silence, Halved, More
  <2>. QED  BY <1>2, <2>8, <2>9, <2>10 DEF Silence
<1>. QED  BY <1>3, <1>4

LEMMA SilenceStep == IInv /\ Silence /\ [Next]_vars => Silence'
<1>1. CASE UNCHANGED vars
  BY <1>1 DEF vars, Silence, Ordered, Held, Noticed, Renewal, Aged, Halved
<1>. QED
  BY <1>1, SilenceTether, SilenceMonitor, SilenceWorld, SilenceTick DEF Next

\* Only a count of the silence plans an abort, and it has counted all of it.
LEMMA AbortIsDeserved ==
  ASSUME IInv, Silence, [Next]_vars, plan = "none", plan' = "abort"
  PROVE  Silent \/ blocked \/ "sentryStops" \in fault
<1>1. SilenceCounted
  BY DEF vars, Next, TetherStep, MonitorStep, WorldStep, Tick, Activate,
         Poll, FlushRequested, DrainIgnored, InputEmpty, ReadInput, BeginWrite, WriteSome,
         WriteBroken, DrainExpired, LeaveLoop, CloseControl, ThreadExit,
         TetherClosed, ParentLost, ChildRuns, ChildEnded, SilenceForgiven,
         TimerReset, Signal, Ping, MonitorDone, Joined,
         WriteTether, CloseTether, ChildExits, ReadStdout, CloseStdout, StopChild,
         ContinueChild, Sigchld, ParentDies, UmbilicalLost, StopSentry, ContinueSentry
<1>2. timer["silence"] = 0 /\ child # "stopped" /\ idle = Period /\ ~(count + 1 < CycleLimit)
  BY <1>1, Sizes DEF SilenceCounted, IInv, Typed, TypeOK
<1>3. count = 1
  BY <1>2, Sizes DEF IInv, Typed, TypeOK, Timed
<1>4. CASE Held
  <2>1. since # 0 => since >= Period
    BY <1>2, <1>3, <1>4, Sizes DEF Silence, Aged, IInv, Typed, TypeOK
  <2>2. since <= Period \/ since >= Period + Period
    BY <1>2, <1>3, <1>4, Sizes DEF Silence, Halved, IInv, Typed, TypeOK
  <2>. QED  BY <2>1, <2>2, Sizes DEF Silent, IInv, Typed, TypeOK
<1>5. CASE ~Held
  BY <1>2, <1>5, Sizes DEF Held, Silent, IInv, Typed, TypeOK
<1>. QED  BY <1>4, <1>5

\* The monitor aborts the child only when the tether was silent for the whole timeout
\* since it was last written or the child ran again, when output had no room, or when
\* the sentry itself may have been stopped.
THEOREM AbortsAreDeserved == Spec => AbortMeansSilence
<1>1. Init => Silence
  BY SilenceInit
<1>2. IInv /\ Silence /\ [Next]_vars => Silence'
  BY SilenceStep
<1>3. IInv /\ Silence /\ [Next]_vars
        => [plan = "none" /\ plan' = "abort"
              => Silent \/ blocked \/ "sentryStops" \in fault]_vars
  BY AbortIsDeserved
<1>. QED  BY <1>1, <1>2, <1>3, Invariance, PTL DEF Spec, AbortMeansSilence
=============================================================================
