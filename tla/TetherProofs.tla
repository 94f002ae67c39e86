---------------------------- MODULE TetherProofs ----------------------------
(***************************************************************************)
(* Proofs about Tether for any scenario, any sizes of the pipe and of the  *)
(* buffer, and any periods the timers can be set to.                       *)
(*                                                                         *)
(* Nothing is lost because the thread looks at an empty pipe only when     *)
(* poll(2) has told it of a hangup: it waits for room on stdout only while *)
(* it has something to write, and serves its input first.                  *)
(***************************************************************************)
EXTENDS Tether, TLAPS

USE DEF Thread, Faults, CycleLimit, Patience, Horizon, Hangup, DrainSource,
        setting, childs, stdout, drains, watches, history

\* The places and the pollees of either thread.
Typed ==
  /\ TypeOK
  /\ phase \in [Thread -> {"loop", "write", "left", "closed", "exited", "join", "done"}]
  /\ ready \in [Thread -> SUBSET (Pollees["tether"] \cup Pollees["monitor"])]

\* A timer that runs has not counted to its limit.
Timed == timer["silence"] # Off => count < CycleLimit

\* Signals are sent by a plan, and the time since the first one shows in its timer.
Planned ==
  /\ timer["signal"] # Off => plan # "none"
  /\ sent # "none" => plan # "none"
  /\ sent = "first" => /\ timer["signal"] \in 0..SignalPeriod
                       /\ since + timer["signal"] >= SignalPeriod

\* The thread writes, or waits for room on stdout, when it has something to write.
Buffered ==
  /\ ~copy => buf = 0
  /\ phase["tether"] = "write" =>
       finish = "no" /\ DrainSource > 0 /\ "input" \notin ready["tether"]
  /\ direction = "output" => IF copy THEN buf > 0 ELSE pipe > 0 \/ Hangup

\* What poll(2) has reported to the thread is still so when it is served.
Awake ==
  /\ "input" \in ready["tether"] => Hangup \/ pipe > 0
  /\ "output" \in ready["tether"] =>
       \/ reader = "closed" \/ Hangup
       \/ DrainSource > 0 /\ "input" \notin ready["tether"] /\ phase["tether"] # "write"

IInv == Typed /\ Timed /\ Planned /\ Buffered /\ Awake /\ NothingLost

----------------------------------------------------------------------------

LEMMA Sizes ==
  /\ Off \in Nat /\ Period \in 1..Off /\ DrainTimeout \in 1..Off
  /\ SignalPeriod \in 1..(Off - 1) /\ PingPeriod \in 1..(Off - 1)
  /\ PipeSize \in Nat \ {0} /\ BufSize \in Nat \ {0}
<1>1. /\ Off \in Nat
      /\ Period \in 1..Off /\ DrainTimeout \in 1..Off
      /\ SignalPeriod \in 1..(Off - 1) /\ PingPeriod \in 1..(Off - 1)
      /\ PipeSize \in Nat \ {0} /\ BufSize \in Nat \ {0}
  BY TetherAssumption, Zenon DEF TetherAssumption
<1>. QED  BY <1>1

LEMMA PolleesAre ==
  /\ Pollees["tether"] = {"control", "input", "output", "drain"}
  /\ Pollees["monitor"] = {"tether", "parent", "event", "silence", "signal", "ping"}
BY DEF Pollees

\* The input is served before the output.
LEMMA InputIsFirst ==
  ASSUME Typed, Serve("tether", "output")
  PROVE  "input" \notin ready["tether"]
BY DEF Serve, Rank

\* What Renewed says, in terms that do not compare truth values.
Renewing ==
  /\ blocked' \in BOOLEAN
  /\ since' = IF plan = "none" THEN 0 ELSE since

LEMMA RenewedIs ==
  ASSUME TypeOK, Renewed
  PROVE  Renewing
<1>1. blocked' \in BOOLEAN
  BY Zenon DEF Renewed, TypeOK
<1>2. since' = IF plan = "none" THEN 0 ELSE since
  BY Zenon DEF Renewed
<1>. QED  BY <1>1, <1>2 DEF Renewing

LEMMA InitKeeps == Init => IInv
<1>. SUFFICES ASSUME Init PROVE IInv
  OBVIOUS
<1>1. PICK s \in Scenario : fault = s.fault /\ copy = s.append
  BY DEF Init
<1>2. fault \subseteq Faults /\ copy \in BOOLEAN
  BY <1>1, TetherAssumption, Zenon DEF TetherAssumption
<1>3. control \in BOOLEAN /\ tethered \in BOOLEAN /\ down \in BOOLEAN /\ blocked \in BOOLEAN
  BY Zenon DEF Init
<1>4. writers \subseteq {"child", "heir"} /\ parent \in {"none", "alive", "dead", "seen"}
  BY Zenon DEF Init
<1>5. /\ sentry = "running" /\ child = "running" /\ latch = "clear"
      /\ pipe = 0 /\ out = 0 /\ reader = "open"
      /\ phase = [t \in Thread |-> "loop"] /\ ready = [t \in Thread |-> {}]
      /\ buf = 0 /\ direction = "input" /\ finish = "no" /\ drain = Off
      /\ count = 0 /\ idle = 0 /\ plan = "none" /\ sent = "none" /\ since = 0
  BY DEF Init
<1>6. timer["signal"] = Off /\ timer \in [{"silence", "signal", "ping"} -> 0..Off]
  <2>1. \E n \in 0..Off : timer = [silence |-> n, signal |-> Off, ping |-> Off]
    BY Sizes DEF Init
  <2>. QED  BY <2>1, Sizes
<1>. QED
  BY <1>2, <1>3, <1>4, <1>5, <1>6, PolleesAre, Sizes
  DEF IInv, Typed, TypeOK, Timed, Planned, Buffered, Awake, NothingLost

\* The thread.
LEMMA TetherKeeps ==
  ASSUME IInv, TetherStep
  PROVE  IInv'
<1>. USE PolleesAre, Sizes DEF IInv, Typed, TypeOK, Timed, Planned, Buffered, Awake, NothingLost
<1>1. CASE Poll("tether")
  BY <1>1 DEF Poll, Reported, Looping, Complete
<1>2. CASE FlushRequested
  <2>1. /\ Serve("tether", "control")
        /\ control' \in BOOLEAN /\ drain' = DrainTimeout
        /\ UNCHANGED <<setting, childs, pipe, stdout, parent, phase, copy, buf, direction,
                       finish, watches, idle, history>>
    BY <1>2, Zenon DEF FlushRequested
  <2>. QED  BY <2>1 DEF Serve, Looping
<1>3. CASE DrainIgnored
  BY <1>3 DEF DrainIgnored, Draining, Serve, Looping
<1>4. CASE InputEmpty
  BY <1>4, InputIsFirst DEF InputEmpty, Draining, Serve, Looping
<1>5. CASE ReadInput
  <2>1. PICK n \in 1..BufSize : n <= pipe /\ buf' = n /\ pipe' = pipe - n
    BY <1>5 DEF ReadInput
  <2>2. /\ finish = "no" /\ copy /\ buf = 0 /\ pipe > 0
        /\ direction' = "output" /\ idle' = 0
        /\ UNCHANGED <<setting, childs, stdout, parent, phase, copy, finish, control, drain,
                       watches, history>>
    BY <1>5 DEF ReadInput
  <2>3. PICK f \in {"input", "output"} : Serve("tether", f)
    BY <1>5 DEF ReadInput, Draining
  <2>4. /\ phase["tether"] = "loop" /\ ready' = [ready EXCEPT !["tether"] = @ \ {f}]
        /\ "input" \notin ready'["tether"]
    BY <2>3, InputIsFirst DEF Serve, Looping
  <2>. QED  BY <2>1, <2>2, <2>3, <2>4
<1>6. CASE BeginWrite
  <2>1. PICK f \in {"input", "output"} : Serve("tether", f)
    BY <1>6 DEF BeginWrite, Draining
  <2>2. /\ phase["tether"] = "loop" /\ ready' = [ready EXCEPT !["tether"] = @ \ {f}]
        /\ f \in ready["tether"] /\ "input" \notin ready'["tether"]
    BY <2>1, InputIsFirst DEF Serve, Looping
  <2>3. /\ finish = "no" /\ DrainSource > 0
        /\ phase' = [phase EXCEPT !["tether"] = "write"] /\ idle' = 0
        /\ UNCHANGED <<setting, childs, pipe, stdout, parent, drains, watches, history>>
    BY <1>6 DEF BeginWrite
  <2>. QED  BY <2>1, <2>2, <2>3
<1>7. CASE WriteSome
  BY <1>7 DEF WriteSome, Writing, EndWrite
<1>8. CASE WriteBroken
  BY <1>8 DEF WriteBroken, Writing
<1>9. CASE DrainExpired
  BY <1>9 DEF DrainExpired, Serve, Looping
<1>10. CASE LeaveLoop
  BY <1>10 DEF LeaveLoop, Looping, Complete
<1>11. CASE CloseControl
  BY <1>11 DEF CloseControl
<1>12. CASE ThreadExit
  BY <1>12 DEF ThreadExit
<1>. QED
  BY <1>1, <1>2, <1>3, <1>4, <1>5, <1>6, <1>7, <1>8, <1>9, <1>10, <1>11, <1>12
  DEF TetherStep

\* The monitor.
LEMMA MonitorKeeps ==
  ASSUME IInv, MonitorStep
  PROVE  IInv'
<1>. USE PolleesAre, Sizes DEF IInv, Typed, TypeOK, Timed, Planned, Buffered, Awake, NothingLost
<1>1. CASE Poll("monitor")
  BY <1>1 DEF Poll, Reported, Looping, Complete
<1>2. CASE TetherClosed
  <2>1. /\ Serve("monitor", "tether")
        /\ tethered' \in BOOLEAN
        /\ UNCHANGED <<setting, childs, pipe, stdout, parent, phase, drains, timer, count,
                       down, plan, sent, idle, history>>
    BY <1>2, Zenon DEF TetherClosed
  <2>. QED  BY <2>1 DEF Serve, Looping
<1>3. CASE ParentLost
  BY <1>3 DEF ParentLost, Serve, Looping, Activate
<1>4. CASE ChildRuns
  BY <1>4 DEF ChildRuns, Serve, Looping, SetTimer
<1>5. CASE ChildEnded
  BY <1>5 DEF ChildEnded, Serve, Looping, SetTimer
<1>6. CASE SilenceForgiven
  BY <1>6 DEF SilenceForgiven, Serve, Looping, SetTimer
<1>7. CASE SilenceCounted
  BY <1>7 DEF SilenceCounted, Serve, Looping, SetTimer, Activate
<1>8. CASE TimerReset
  BY <1>8 DEF TimerReset, Serve, Looping
<1>9. CASE Signal
  <2>1. /\ sent' = IF sent = "none" THEN "first" ELSE "kill"
        /\ since' = IF sent = "none" THEN 0 ELSE since
        /\ timer["signal"] = 0 /\ timer' = [timer EXCEPT !["signal"] = SignalPeriod]
        /\ ready' = [ready EXCEPT !["monitor"] = @ \ {"signal"}]
        /\ UNCHANGED <<setting, pipe, stdout, parent, phase, drains, count, tethered, down,
                       plan, idle, blocked>>
    BY <1>9 DEF Signal, Serve, SetTimer
  <2>2. /\ child' \in {"running", "stopped", "dead"} /\ writers' \subseteq writers
        /\ latch' \in {"clear", "set", "disabled"}
    BY <1>9 DEF Signal, Dies
  <2>. QED  BY <2>1, <2>2
<1>10. CASE Ping
  BY <1>10 DEF Ping, Serve, Looping, SetTimer
<1>11. CASE MonitorDone
  BY <1>11 DEF MonitorDone, Looping
<1>12. CASE Joined
  BY <1>12 DEF Joined
<1>. QED
  BY <1>1, <1>2, <1>3, <1>4, <1>5, <1>6, <1>7, <1>8, <1>9, <1>10, <1>11, <1>12
  DEF MonitorStep

\* The child, its heirs, the reader of stdout and the faults.
LEMMA WorldKeeps ==
  ASSUME IInv, WorldStep
  PROVE  IInv'
<1>. USE PolleesAre, Sizes DEF IInv, Typed, TypeOK, Timed, Planned, Buffered, Awake, NothingLost
<1>1. ASSUME NEW w \in {"child", "heir"}, WriteTether(w)
      PROVE  IInv'
  <2>1. Renewing
    BY <1>1, RenewedIs DEF WriteTether
  <2>2. /\ w \in writers /\ pipe < PipeSize /\ pipe' = pipe + 1
        /\ UNCHANGED <<setting, childs, stdout, parent, phase, ready, drains, watches, idle>>
    BY <1>1 DEF WriteTether
  <2>. QED  BY <2>1, <2>2 DEF Renewing
<1>2. ASSUME NEW w \in {"child", "heir"}, CloseTether(w)
      PROVE  IInv'
  BY <1>2 DEF CloseTether
<1>3. CASE ChildExits
  BY <1>3 DEF ChildExits, Dies
<1>4. CASE ReadStdout
  BY <1>4 DEF ReadStdout
<1>5. CASE CloseStdout
  BY <1>5 DEF CloseStdout
<1>6. CASE StopChild
  BY <1>6 DEF StopChild
<1>7. CASE ContinueChild
  <2>1. Renewing
    BY <1>7, RenewedIs DEF ContinueChild
  <2>2. /\ child' = "running" /\ latch' = "set"
        /\ UNCHANGED <<setting, writers, pipe, stdout, parent, phase, ready, drains,
                       watches, idle>>
    BY <1>7 DEF ContinueChild
  <2>. QED  BY <2>1, <2>2 DEF Renewing
<1>8. CASE Sigchld
  BY <1>8 DEF Sigchld
<1>9. CASE ParentDies
  BY <1>9 DEF ParentDies
<1>10. CASE UmbilicalLost
  BY <1>10 DEF UmbilicalLost, Activate
<1>11. CASE StopSentry
  BY <1>11 DEF StopSentry
<1>12. CASE ContinueSentry
  BY <1>12 DEF ContinueSentry
<1>. QED
  BY <1>1, <1>2, <1>3, <1>4, <1>5, <1>6, <1>7, <1>8, <1>9, <1>10, <1>11, <1>12
  DEF WorldStep

LEMMA TickKeeps ==
  ASSUME IInv, Tick
  PROVE  IInv'
<1>. USE Sizes
<1>1. /\ timer' = [f \in DOMAIN timer |-> Less(timer[f])] /\ drain' = Less(drain)
      /\ idle' = More(idle, Period)
      /\ since' = IF plan = "none" /\ child = "stopped" THEN since ELSE More(since, Horizon)
      /\ UNCHANGED <<setting, childs, pipe, stdout, parent, phase, ready, copy, buf,
                     direction, finish, control, count, tethered, down, plan, sent>>
  BY DEF Tick
<1>2. blocked' \in BOOLEAN
  BY Zenon DEF Tick
<1>3. /\ timer \in [{"silence", "signal", "ping"} -> 0..Off] /\ drain \in 0..Off
      /\ idle \in 0..Period /\ since \in 0..Horizon
  BY DEF IInv, Typed, TypeOK
<1>4. \A n \in 0..Off : Less(n) \in 0..Off /\ (Less(n) # Off => n # Off)
  BY DEF Less
<1>5. timer' \in [{"silence", "signal", "ping"} -> 0..Off] /\ drain' \in 0..Off
  BY <1>1, <1>3, <1>4
<1>6. idle' \in 0..Period /\ since' \in 0..Horizon
  BY <1>1, <1>3 DEF More
<1>7. Typed'
  BY <1>1, <1>2, <1>5, <1>6, PolleesAre DEF IInv, Typed, TypeOK
<1>8. Timed'
  BY <1>1, <1>3, <1>4 DEF IInv, Timed
<1>9. Planned'
  BY <1>1, <1>3 DEF IInv, Planned, Less, More
<1>. QED
  BY <1>1, <1>7, <1>8, <1>9 DEF IInv, Buffered, Awake, NothingLost

LEMMA StepKeeps == IInv /\ [Next]_vars => IInv'
<1>1. CASE UNCHANGED vars
  BY <1>1 DEF vars, IInv, Typed, TypeOK, Timed, Planned, Buffered, Awake, NothingLost
<1>. QED
  BY <1>1, TetherKeeps, MonitorKeeps, WorldKeeps, TickKeeps DEF Next

\* The conjunction of the invariants is inductive.
THEOREM Invariance == Spec => []IInv
<1>1. Init => IInv
  BY InitKeeps
<1>2. IInv /\ [Next]_vars => IInv'
  BY StepKeeps
<1>. QED  BY <1>1, <1>2, PTL DEF Spec

\* Every variable has its type, whatever the scenario.
THEOREM TypeCorrect == Spec => []TypeOK
<1>1. IInv => TypeOK
  BY DEF IInv, Typed
<1>. QED  BY <1>1, Invariance, PTL

\* A thread that finishes because its input is empty has copied everything that was
\* written, and nothing more can be written, or stdout has lost its reader.
THEOREM AllIsCopied == Spec => []NothingLost
<1>1. IInv => NothingLost
  BY DEF IInv
<1>. QED  BY <1>1, Invariance, PTL

\* SIGKILL keeps its distance from the first signal.
LEMMA GraceHolds ==
  ASSUME IInv, [Next]_vars, sent' = "kill", sent = "first"
  PROVE  since >= SignalPeriod
<1>1. Signal
  BY DEF vars, Next, TetherStep, MonitorStep, WorldStep, Tick,
         Poll, FlushRequested, DrainIgnored, InputEmpty, ReadInput, BeginWrite, WriteSome,
         WriteBroken, DrainExpired, LeaveLoop, CloseControl, ThreadExit,
         TetherClosed, ParentLost, ChildRuns, ChildEnded, SilenceForgiven, SilenceCounted,
         TimerReset, Ping, MonitorDone, Joined,
         WriteTether, CloseTether, ChildExits, ReadStdout, CloseStdout, StopChild,
         ContinueChild, Sigchld, ParentDies, UmbilicalLost, StopSentry, ContinueSentry
<1>. QED  BY <1>1, Sizes DEF IInv, Typed, TypeOK, Planned, Signal

\* However many reasons there are to terminate the child, SIGKILL comes a full period
\* after the first signal.
THEOREM Grace == Spec => GraceIsGiven
<1>1. IInv /\ [Next]_vars => [sent' = "kill" /\ sent = "first" => since >= SignalPeriod]_vars
  BY GraceHolds
<1>. QED  BY <1>1, Invariance, PTL DEF Spec, GraceIsGiven

----------------------------------------------------------------------------
\* The tether implements Relay.

\* The thread hears of the end of the child from the monitor, who has it from SIGCHLD,
\* which comes when the child has lost its end of the tether.
Asked ==
  /\ latch = "disabled" => "child" \notin writers
  /\ control \/ drain # Off => down
  /\ "control" \in ready["tether"] \/ "drain" \in ready["tether"] => down

Inside == pipe + buf
Told   == IF down THEN "yes" ELSE "no"

\* A step that Relay does not see.
Unseen == UNCHANGED <<writers, Inside, out, reader, Told, finish>>

LEMMA AskedInit == Init => Asked
<1>. SUFFICES ASSUME Init PROVE Asked
  OBVIOUS
<1>1. ~control
  BY Zenon DEF Init
<1>2. latch = "clear" /\ drain = Off /\ ready = [t \in Thread |-> {}]
  BY DEF Init
<1>. QED  BY <1>1, <1>2 DEF Asked

\* Once the monitor knows of the end of the child, it does not forget it.
LEMMA DownStays ==
  ASSUME IInv, [Next]_vars, down
  PROVE  down'
<1>1. CASE ChildEnded
  BY <1>1, Zenon DEF ChildEnded
<1>2. CASE ~ChildEnded
  <2>1. down' = down
    BY <1>2, Zenon DEF vars, Next, TetherStep, MonitorStep, WorldStep, Tick,
         Poll, FlushRequested, DrainIgnored, InputEmpty, ReadInput, BeginWrite, WriteSome,
         WriteBroken, DrainExpired, LeaveLoop, CloseControl, ThreadExit,
         TetherClosed, ParentLost, ChildRuns, SilenceForgiven, SilenceCounted,
         TimerReset, Signal, Ping, MonitorDone, Joined,
         WriteTether, CloseTether, ChildExits, ReadStdout, CloseStdout, StopChild,
         ContinueChild, Sigchld, ParentDies, UmbilicalLost, StopSentry, ContinueSentry
  <2>. QED  BY <2>1, Zenon
<1>. QED  BY <1>1, <1>2

LEMMA AskedKeeps ==
  ASSUME IInv, Asked, [Next]_vars
  PROVE  Asked'
<1>1. down => down'
  BY DownStays
<1>2. latch' = "disabled" => "child" \notin writers'
  BY PolleesAre
     DEF IInv, Typed, TypeOK, Asked, vars, Next, TetherStep, MonitorStep, WorldStep, Tick,
         Poll, FlushRequested, DrainIgnored, InputEmpty, ReadInput, BeginWrite, WriteSome,
         WriteBroken, DrainExpired, LeaveLoop, CloseControl, ThreadExit, Dies,
         TetherClosed, ParentLost, ChildRuns, ChildEnded, SilenceForgiven, SilenceCounted,
         TimerReset, Signal, Ping, MonitorDone, Joined,
         WriteTether, CloseTether, ChildExits, ReadStdout, CloseStdout, StopChild,
         ContinueChild, Sigchld, ParentDies, UmbilicalLost, StopSentry, ContinueSentry
<1>3. control' \/ drain' # Off \/ "control" \in ready'["tether"] \/ "drain" \in ready'["tether"]
        => down \/ down'
  <2>1. CASE Poll("tether") \/ Poll("monitor")
    BY <2>1, Sizes, PolleesAre DEF Asked, Poll, Reported, IInv, Typed
  <2>2. CASE FlushRequested
    <3>1. "control" \in ready["tether"]
      BY <2>2 DEF FlushRequested, Serve
    <3>. QED  BY <3>1 DEF Asked
  <2>3. CASE ChildEnded
    BY <2>3, Zenon DEF ChildEnded
  <2>4. CASE Tick
    <3>1. control' = control /\ drain' = Less(drain) /\ ready' = ready
      BY <2>4, Zenon DEF Tick
    <3>2. drain' # Off => drain # Off
      BY <3>1, Sizes DEF Less
    <3>. QED  BY <3>1, <3>2, Zenon DEF Asked
  <2>5. CASE DrainExpired
    <3>1. "drain" \in ready["tether"]
      BY <2>5 DEF DrainExpired, Serve
    <3>. QED  BY <3>1 DEF Asked
  <2>6. CASE ~(\/ Poll("tether") \/ Poll("monitor") \/ FlushRequested \/ ChildEnded \/ Tick
               \/ DrainExpired)
    <3>1. control' = control /\ drain' = drain
      BY <2>6, Zenon DEF vars, Next, TetherStep, MonitorStep, WorldStep,
         DrainIgnored, InputEmpty, ReadInput, BeginWrite, WriteSome,
         WriteBroken, LeaveLoop, CloseControl, ThreadExit,
         TetherClosed, ParentLost, ChildRuns, SilenceForgiven, SilenceCounted,
         TimerReset, Signal, Ping, MonitorDone, Joined,
         WriteTether, CloseTether, ChildExits, ReadStdout, CloseStdout, StopChild,
         ContinueChild, Sigchld, ParentDies, UmbilicalLost, StopSentry, ContinueSentry
    <3>2. ready'["tether"] \subseteq ready["tether"]
      BY <2>6 DEF IInv, Typed, vars, Next, TetherStep, MonitorStep, WorldStep, Serve, Draining,
         DrainIgnored, InputEmpty, ReadInput, BeginWrite, WriteSome,
         WriteBroken, LeaveLoop, CloseControl, ThreadExit,
         TetherClosed, ParentLost, ChildRuns, SilenceForgiven, SilenceCounted,
         TimerReset, Signal, Ping, MonitorDone, Joined,
         WriteTether, CloseTether, ChildExits, ReadStdout, CloseStdout, StopChild,
         ContinueChild, Sigchld, ParentDies, UmbilicalLost, StopSentry, ContinueSentry
    <3>. QED  BY <3>1, <3>2, Zenon DEF Asked
  <2>. QED  BY <2>1, <2>2, <2>3, <2>4, <2>5, <2>6
<1>. QED  BY <1>1, <1>2, <1>3, Zenon DEF Asked

\* The thread: what it copies is forwarded, and it ends for one of the three reasons.
LEMMA TetherRelays ==
  ASSUME IInv, IInv', Asked, TetherStep
  PROVE  Unseen \/ Output!Next
<1>. USE PolleesAre, Sizes DEF Unseen, Inside, Told
<1>1. CASE ReadInput
  <2>1. PICK n \in 1..BufSize : buf' = n /\ pipe' = pipe - n
    BY <1>1 DEF ReadInput
  <2>2. buf = 0 /\ pipe \in Nat /\ UNCHANGED <<writers, out, reader, down, finish>>
    BY <1>1 DEF ReadInput, IInv, Typed, TypeOK
  <2>. QED  BY <2>1, <2>2
<1>2. CASE WriteSome
  <2>1. /\ reader = "open" /\ out = 0 /\ out' = out + 1
        /\ finish = "no" /\ DrainSource > 0
        /\ UNCHANGED <<writers, reader, down, finish>>
    BY <1>2 DEF WriteSome, Writing, IInv, Buffered
  <2>2. /\ IF copy THEN buf' = buf - 1 /\ pipe' = pipe ELSE buf' = buf /\ pipe' = pipe - 1
        /\ pipe \in Nat /\ buf \in Nat
    BY <1>2 DEF WriteSome, IInv, Typed, TypeOK
  <2>3. (pipe + buf)' = (pipe + buf) - 1 /\ pipe + buf > 0
    BY <2>1, <2>2
  <2>4. Output!Forward
    BY <2>1, <2>3 DEF Output!Forward
  <2>. QED  BY <2>4 DEF Output!Next
<1>3. CASE InputEmpty
  <2>1. /\ finish = "no" /\ finish' = "empty"
        /\ UNCHANGED <<writers, pipe, buf, out, reader, down>>
    BY <1>3 DEF InputEmpty
  <2>2. reader = "closed" \/ (writers = {} /\ pipe + buf = 0)
    BY <2>1 DEF IInv, NothingLost
  <2>3. Output!Finish("empty")
    BY <2>1, <2>2 DEF Output!Finish
  <2>. QED  BY <2>3 DEF Output!Next
<1>4. CASE WriteBroken
  <2>1. /\ finish = "no" /\ finish' = "broken" /\ reader = "closed"
        /\ UNCHANGED <<writers, pipe, buf, out, reader, down>>
    BY <1>4 DEF WriteBroken, Writing, IInv, Buffered
  <2>2. Output!Finish("broken")
    BY <2>1 DEF Output!Finish
  <2>. QED  BY <2>2 DEF Output!Next
<1>5. CASE DrainExpired
  <2>1. /\ finish' = IF finish = "no" THEN "expired" ELSE finish
        /\ "drain" \in ready["tether"]
        /\ UNCHANGED <<writers, pipe, buf, out, reader, down>>
    BY <1>5 DEF DrainExpired, Serve
  <2>2. down
    BY <2>1 DEF Asked
  <2>3. finish = "no" => Output!Finish("expired")
    BY <2>1, <2>2 DEF Output!Finish
  <2>. QED  BY <2>1, <2>3 DEF Output!Next
<1>6. CASE \/ Poll("tether") \/ FlushRequested \/ DrainIgnored \/ BeginWrite
           \/ LeaveLoop \/ CloseControl \/ ThreadExit
  BY <1>6 DEF Poll, FlushRequested, DrainIgnored, BeginWrite, LeaveLoop, CloseControl,
              ThreadExit
<1>. QED  BY <1>1, <1>2, <1>3, <1>4, <1>5, <1>6 DEF TetherStep

\* A child that ends leaves the tether.
LEMMA EndIsSeen ==
  ASSUME IInv, Dies \/ UNCHANGED childs, UNCHANGED <<pipe, buf, out, reader, down, finish>>
  PROVE  Unseen \/ Output!Close("child")
BY DEF Dies, Unseen, Inside, Told, Output!Close

\* The monitor.
LEMMA MonitorRelays ==
  ASSUME IInv, Asked, MonitorStep
  PROVE  Unseen \/ Output!Next
<1>1. CASE ChildEnded
  <2>1. down'
    BY <1>1, Zenon DEF ChildEnded
  <2>2. /\ "child" \notin writers
        /\ UNCHANGED <<writers, pipe, buf, out, reader, finish>>
    BY <1>1 DEF ChildEnded, Asked
  <2>3. Output!Tell
    BY <2>1, <2>2 DEF Output!Tell
  <2>. QED  BY <2>3 DEF Output!Next
<1>2. CASE Signal
  <2>1. Dies \/ UNCHANGED childs
    BY <1>2 DEF Signal
  <2>2. UNCHANGED <<pipe, buf, out, reader, down, finish>>
    BY <1>2 DEF Signal
  <2>. QED  BY <2>1, <2>2, EndIsSeen DEF Output!Next
<1>3. CASE ~ChildEnded /\ ~Signal
  BY <1>3
  DEF Unseen, Inside, Told, MonitorStep, Poll, TetherClosed, ParentLost, ChildRuns, SilenceForgiven,
      SilenceCounted, TimerReset, Ping, MonitorDone, Joined
<1>. QED  BY <1>1, <1>2, <1>3

\* The child, its heirs and the reader of stdout.
LEMMA WorldRelays ==
  ASSUME IInv, WorldStep
  PROVE  Unseen \/ Output!Next
<1>. USE Sizes DEF IInv, Typed, TypeOK
<1>1. ASSUME NEW w \in {"child", "heir"}, WriteTether(w)
      PROVE  Output!Next
  <2>1. /\ w \in writers /\ pipe < PipeSize /\ pipe' = pipe + 1
        /\ UNCHANGED <<writers, buf, out, reader, down, finish>>
    BY <1>1 DEF WriteTether
  <2>2. pipe + buf < PipeSize + BufSize /\ (pipe + buf)' = pipe + buf + 1
    BY <2>1
  <2>3. Output!Put
    BY <2>1, <2>2 DEF Output!Put
  <2>. QED  BY <2>3 DEF Output!Next
<1>2. ASSUME NEW w \in {"child", "heir"}, CloseTether(w)
      PROVE  Output!Next
  <2>1. Output!Close(w)
    BY <1>2 DEF CloseTether, Output!Close
  <2>. QED  BY <2>1 DEF Output!Next
<1>3. CASE ChildExits
  <2>1. Dies /\ UNCHANGED <<pipe, buf, out, reader, down, finish>>
    BY <1>3 DEF ChildExits
  <2>. QED  BY <2>1, EndIsSeen DEF Output!Next
<1>4. CASE ReadStdout
  <2>1. Output!Take
    BY <1>4 DEF ReadStdout, Output!Take
  <2>. QED  BY <2>1 DEF Output!Next
<1>5. CASE CloseStdout
  <2>1. Output!ReaderLeaves
    BY <1>5 DEF CloseStdout, Output!ReaderLeaves
  <2>. QED  BY <2>1 DEF Output!Next
<1>6. CASE \/ StopChild \/ ContinueChild \/ Sigchld \/ ParentDies \/ UmbilicalLost
           \/ StopSentry \/ ContinueSentry
  BY <1>6 DEF Unseen, Inside, Told, StopChild, ContinueChild, Sigchld, ParentDies, UmbilicalLost,
              StopSentry, ContinueSentry
<1>. QED  BY <1>1, <1>2, <1>3, <1>4, <1>5, <1>6 DEF WorldStep

\* Step by step the tether does what Relay does, or what Relay does not see: whatever
\* reaches the tether comes out, and is given up only once the child is known to be dead.
THEOREM Relays == Spec => ImplementsRelay
<1>1. Init => Output!Init
  <2>. SUFFICES ASSUME Init PROVE Output!Init
    OBVIOUS
  <2>1. ~down /\ writers \subseteq {"child", "heir"}
    BY Zenon DEF Init
  <2>2. pipe = 0 /\ buf = 0 /\ out = 0 /\ reader = "open" /\ finish = "no"
    BY DEF Init
  <2>. QED  BY <2>1, <2>2 DEF Output!Init
<1>2. IInv /\ IInv' /\ Asked /\ [Next]_vars => [Output!Next]_(Output!relay)
  <2>. SUFFICES ASSUME IInv, IInv', Asked, [Next]_vars
                PROVE  Unseen \/ Output!Next
    BY DEF Unseen, Inside, Told, Output!relay
  <2>1. CASE Tick
    BY <2>1 DEF Tick, Unseen, Inside, Told
  <2>2. CASE UNCHANGED vars
    BY <2>2 DEF vars, Unseen, Inside, Told
  <2>. QED
    BY <2>1, <2>2, TetherRelays, MonitorRelays, WorldRelays DEF Next
<1>. QED
  BY <1>1, <1>2, Invariance, AskedInit, AskedKeeps, PTL DEF Spec, ImplementsRelay, Output!Spec
=============================================================================
