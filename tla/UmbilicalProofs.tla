--------------------------- MODULE UmbilicalProofs ---------------------------
(***************************************************************************)
(* Proofs about Umbilical for any set of clients and any set of faults.    *)
(*                                                                         *)
(* The sentry has at most one ping out, which is in the wire, with the     *)
(* umbilical or on its way back; the close request follows the last ping;  *)
(* and the umbilical stops listening only when it was asked to, when there *)
(* is nobody to listen to, or after it or the sentry declared a timeout.   *)
(***************************************************************************)
EXTENDS Umbilical, TLAPS

USE UmbilicalAssumption
    DEF Proc, Faults, Period, Timeout, CycleLimit, Off, Pollees, Awaiting,
        Other, Hangup, Readable, sentry, umbilical, channel, history

\* At most one ping is out, and none when no echo is awaited.
Outstanding ==
  open["sentry"] /\ phase["sentry"] = "monitor" =>
    /\ wire \in {<<>>, <<"ping">>} /\ echoes <= 1
    /\ wire # <<>> => ~echo /\ echoes = 0
    /\ echo => echoes = 0
    /\ ~Awaiting => wire = <<>> /\ ~echo /\ echoes = 0

\* The echo that poll(2) has reported as requested is still requested.
Requested == "event" \in ready["umbilical"] => echo

\* The timer of the umbilical has not counted to its limit while it runs.
Counted == timer["umbilical"] # Off => count["umbilical"] < CycleLimit

\* The close request is sent when the sentry has done monitoring, and ends the wire.
Closing ==
  /\ \A i \in 1..Len(wire) : wire[i] = "close" => i = Len(wire)
  /\ phase["sentry"] \in {"monitor", "stop"} =>
       ~closed /\ "sentry" \notin shut /\ \A i \in 1..Len(wire) : wire[i] # "close"
  /\ closed => wire = <<>>
  /\ "sentry" \in shut => closed \/ \E i \in 1..Len(wire) : wire[i] = "close"

\* The umbilical reads only what is there.
Heard ==
  /\ phase["umbilical"] = "sync" => ready["umbilical"] = {}
  /\ "umbilical" \in ready["umbilical"] => Readable("umbilical")

\* The umbilical has a reason to stop listening, and kills the sentry only without a
\* close request.
Caused ==
  /\ ~open["umbilical"] => closed \/ proc["sentry"] = "dead" \/ alarm # {}
  /\ phase["umbilical"] \in {"killChild", "killSentry", "end"} => ~open["umbilical"]
  /\ phase["umbilical"] = "killSentry" => ~closed

IInv == TypeOK /\ Outstanding /\ Requested /\ Counted /\ Closing /\ Heard /\ Caused

----------------------------------------------------------------------------

LEMMA PingAppended ==
  ASSUME NEW s \in Seq({"ping", "close"})
  PROVE  Append(s, "ping") # <<>> /\ (s = <<>> => Append(s, "ping") = <<"ping">>)
<1>1. Len(Append(s, "ping")) = Len(s) + 1 /\ Len(s) \in Nat
  OBVIOUS
<1>2. Append(s, "ping") # <<>>
  BY <1>1
<1>3. Append(<<>>, "ping") = <<"ping">>
  <2>1. Len(Append(<<>>, "ping")) = 1 /\ Append(<<>>, "ping")[1] = "ping"
    OBVIOUS
  <2>2. Append(<<>>, "ping") \in Seq({"ping"}) /\ <<"ping">> \in Seq({"ping"})
    OBVIOUS
  <2>. QED  BY <2>1, <2>2
<1>. QED  BY <1>2, <1>3

LEMMA EndedLatches == ChildEnded \subseteq {"child", "umbilical"}
BY DEF ChildEnded

LEMMA InitKeeps == Init => IInv
<1>. SUFFICES ASSUME Init PROVE IInv
  OBVIOUS
<1>1. /\ preempt \in BOOLEAN /\ childDown \in BOOLEAN /\ kills \in BOOLEAN
      /\ closed \in BOOLEAN /\ echo \in BOOLEAN /\ ~echo /\ ~closed
  BY Zenon DEF Init
<1>2. /\ proc = [p \in Proc |-> "running"] /\ child = "running"
      /\ ready = [p \in Proc |-> {}] /\ open = [p \in Proc |-> TRUE]
      /\ timer = [p \in Proc |-> IF p = "sentry" THEN 0 ELSE Period]
      /\ count = [p \in Proc |-> IF p = "sentry" THEN CycleLimit ELSE 0]
      /\ phase = [p \in Proc |-> IF p = "sentry" THEN "monitor" ELSE "sync"]
      /\ latch = {} /\ wire = <<>> /\ echoes = 0 /\ shut = {}
      /\ client = [c \in Client |-> "none"]
      /\ waited = 0 /\ alarm = {} /\ excused = {}
  BY DEF Init
<1>. QED
  BY <1>1, <1>2 DEF IInv, TypeOK, Outstanding, Requested, Counted, Closing, Heard, Caused

\* Polling, and a timer that was set afresh, are alike for both.
LEMMA PollKeeps ==
  ASSUME IInv, NEW p \in Proc, Poll(p) \/ TimerReset(p)
  PROVE  IInv'
<1>. USE DEF IInv, TypeOK, Outstanding, Requested, Counted, Closing, Heard, Caused
<1>1. CASE Poll(p)
  <2>1. /\ ready' = [ready EXCEPT ![p] = Reported(p)] /\ phase[p] = "monitor"
        /\ UNCHANGED <<proc, child, timer, count, open, phase, sentry, umbilical,
                       channel, client, history>>
    BY <1>1 DEF Poll, Monitoring
  <2>2. Reported(p) \subseteq Pollees
    BY DEF Reported
  <2>3. "event" \in Reported("umbilical") => echo
    BY DEF Reported
  <2>4. "umbilical" \in Reported("umbilical") => Readable("umbilical")
    BY DEF Reported
  <2>. QED  BY <2>1, <2>2, <2>3, <2>4
<1>2. CASE TimerReset(p)
  BY <1>2 DEF TimerReset, Serve, Turn, Monitoring
<1>. QED  BY <1>1, <1>2

\* The loop of the sentry.
LEMMA MonitorKeeps ==
  ASSUME IInv,
         \/ ReadEcho \/ UmbilicalLost \/ UmbilicalRuns \/ Continued \/ ChildReported
         \/ WritePing \/ WriteFails \/ DeferTimeout \/ CountTimeout \/ KillChild
         \/ MonitorDone
  PROVE  IInv'
<1>. USE DEF IInv, TypeOK, Outstanding, Requested, Counted, Closing, Heard, Caused, SetTimer,
             SetCount
<1>1. CASE ReadEcho
  <2>1. preempt' \in BOOLEAN
    BY <1>1, Zenon DEF ReadEcho
  <2>2. /\ echoes > 0 /\ echoes' = echoes - 1
        /\ count' = [count EXCEPT !["sentry"] = CycleLimit] /\ waited' = 0
    BY <1>1 DEF ReadEcho
  <2>3. /\ timer' \in [Proc -> 0..Off] /\ timer'["umbilical"] = timer["umbilical"]
        /\ ready' \in [Proc -> SUBSET Pollees] /\ ready'["umbilical"] = ready["umbilical"]
    BY <1>1 DEF ReadEcho
  <2>4. UNCHANGED <<proc, child, open, phase, latch, childDown, kills, umbilical,
                    wire, shut, client, alarm, excused>>
    BY <1>1 DEF ReadEcho
  <2>. QED  BY <2>1, <2>2, <2>3, <2>4
<1>2. CASE UmbilicalLost
  BY <1>2 DEF UmbilicalLost, GiveUp, Serve, Turn, Monitoring
<1>3. CASE UmbilicalRuns
  BY <1>3 DEF UmbilicalRuns, Event, Turn, Monitoring
<1>4. CASE Continued
  <2>1. preempt' \in BOOLEAN
    BY <1>4, Zenon DEF Continued, TypeOK
  <2>2. /\ timer' \in [Proc -> 0..Off] /\ timer'["umbilical"] = timer["umbilical"]
        /\ ready' \in [Proc -> SUBSET Pollees] /\ ready'["umbilical"] = ready["umbilical"]
        /\ latch' \subseteq latch
    BY <1>4 DEF Continued, Event
  <2>3. UNCHANGED <<proc, child, count, open, phase, childDown, kills, umbilical,
                    channel, client, history>>
    BY <1>4 DEF Continued
  <2>. QED  BY <2>1, <2>2, <2>3
<1>5. CASE ChildReported
  BY <1>5 DEF ChildReported, Event, Turn, Monitoring
<1>6. CASE WritePing
  <2>1. /\ wire' = Append(wire, "ping") /\ phase["sentry"] = "monitor"
        /\ ~Awaiting
        /\ count' = [count EXCEPT !["sentry"] = 0]
        /\ timer' = [timer EXCEPT !["sentry"] = Period]
        /\ ready' = [ready EXCEPT !["sentry"] = @ \ {"timer"}]
        /\ UNCHANGED <<proc, child, open, phase, sentry, umbilical, echoes, shut, client,
                       history>>
    BY <1>6 DEF WritePing, Timer, Serve, Turn, Monitoring
  <2>2. TypeOK'
    <3>1. wire' \in Seq({"ping", "close"})
      BY <2>1
    <3>. QED  BY <2>1, <3>1
  <2>6. Requested' /\ Counted'
    BY <2>1
  <2>7. Caused'
    BY <2>1
  <2>3. wire' # <<>> /\ (wire = <<>> => wire' = <<"ping">>)
    BY <2>1, PingAppended
  <2>4. Outstanding' /\ Heard'
    BY <2>1, <2>3
  <2>5. Closing'
    BY <2>1
  <2>. QED  BY <2>2, <2>4, <2>5, <2>6, <2>7
<1>7. CASE WriteFails
  BY <1>7 DEF WriteFails, GiveUp, Timer, Due, Serve, Turn, Monitoring
<1>8. CASE DeferTimeout
  BY <1>8 DEF DeferTimeout, Timer, Due, Serve, Turn, Monitoring
<1>9. CASE CountTimeout
  <2>1. /\ Awaiting /\ count' = [count EXCEPT !["sentry"] = @ + 1]
        /\ ready' = [ready EXCEPT !["sentry"] = @ \ {"timer"}]
        /\ UNCHANGED <<proc, child, phase, preempt, latch, childDown, umbilical,
                       channel, client, excused>>
    BY <1>9 DEF CountTimeout, Timer, Serve, Turn, Monitoring
  <2>2. CASE count["sentry"] + 1 = CycleLimit
    <3>1. /\ GiveUp /\ alarm' = alarm \cup {"sentry"} /\ waited' = 0
      BY <1>9, <2>2 DEF CountTimeout
    <3>2. kills' \in BOOLEAN /\ open' = [open EXCEPT !["sentry"] = FALSE]
          /\ timer' = [timer EXCEPT !["sentry"] = Off]
      BY <3>1, Zenon DEF GiveUp
    <3>. QED  BY <2>1, <3>1, <3>2
  <2>3. CASE count["sentry"] + 1 # CycleLimit
    <3>1. /\ timer' = [timer EXCEPT !["sentry"] = Period]
          /\ UNCHANGED <<open, kills, alarm, waited>>
      BY <1>9, <2>3 DEF CountTimeout
    <3>. QED  BY <2>1, <2>3, <3>1
  <2>. QED  BY <2>2, <2>3
<1>10. CASE KillChild
  <2>1. /\ child' = "dead" /\ latch' \subseteq latch \cup {"child", "umbilical"}
        /\ UNCHANGED <<proc, ready, timer, count, open, phase, preempt, childDown,
                       kills, umbilical, channel, client, history>>
    BY <1>10, EndedLatches DEF KillChild
  <2>. QED  BY <2>1
<1>11. CASE MonitorDone
  BY <1>11 DEF MonitorDone, Monitoring
<1>. QED  BY <1>1, <1>2, <1>3, <1>4, <1>5, <1>6, <1>7, <1>8, <1>9, <1>10, <1>11

\* stopUmbilicalProcess().
LEMMA StopKeeps ==
  ASSUME IInv, SendClose \/ Drain \/ Drained \/ DrainExpired \/ Waited
  PROVE  IInv'
<1>. USE DEF IInv, TypeOK, Outstanding, Requested, Counted, Closing, Heard, Caused, SetTimer,
             Draining
<1>1. CASE SendClose
  <2>1. /\ phase["sentry"] = "stop" /\ latch' = {}
        /\ UNCHANGED <<proc, child, ready, count, open, preempt, childDown, kills,
                       umbilical, echoes, client, history>>
    BY <1>1 DEF SendClose
  <2>2. CASE proc["umbilical"] = "dead"
    <3>1. /\ phase' = [phase EXCEPT !["sentry"] = "end"]
          /\ UNCHANGED <<timer, wire, shut>>
      BY <1>1, <2>2 DEF SendClose
    <3>. QED  BY <2>1, <3>1
  <2>3. CASE proc["umbilical"] # "dead"
    <3>1. /\ phase' = [phase EXCEPT !["sentry"] = "drain"]
          /\ wire' = Append(wire, "close") /\ shut' = shut \cup {"sentry"}
          /\ timer' = [timer EXCEPT !["sentry"] = Timeout]
      BY <1>1, <2>3 DEF SendClose
    <3>2. TypeOK' /\ Outstanding' /\ Requested' /\ Counted' /\ Heard' /\ Caused'
      BY <2>1, <3>1
    <3>3. Len(wire') = Len(wire) + 1 /\ wire'[Len(wire')] = "close"
          /\ \A i \in 1..Len(wire) : wire'[i] = wire[i]
      BY <3>1
    <3>4. Closing'
      BY <2>1, <3>1, <3>3
    <3>. QED  BY <3>2, <3>4
  <2>. QED  BY <2>2, <2>3
<1>2. CASE Drain
  BY <1>2 DEF Drain
<1>3. CASE Drained
  BY <1>3 DEF Drained
<1>4. CASE DrainExpired
  BY <1>4 DEF DrainExpired
<1>5. CASE Waited
  BY <1>5 DEF Waited
<1>. QED  BY <1>1, <1>2, <1>3, <1>4, <1>5

\* Reading from the umbilical, at first and in the loop.
LEMMA ReadWireKeeps ==
  ASSUME IInv, ReadWire, Readable("umbilical"), phase["umbilical"] \in {"sync", "monitor"},
         ready' \in [Proc -> SUBSET Pollees], ready'["sentry"] = ready["sentry"],
         ready'["umbilical"] = ready["umbilical"] \ {"umbilical"},
         phase' = [phase EXCEPT !["umbilical"] = "monitor"],
         UNCHANGED <<proc, child, sentry, echoes, client, history>>
  PROVE  IInv'
<1>. USE DEF IInv, TypeOK, SetTimer, SetCount
<1>1. CASE wire # <<>>
  <2>1. /\ wire' = Tail(wire)
        /\ timer' = [timer EXCEPT !["umbilical"] = HalfPeriod]
        /\ count' = [count EXCEPT !["umbilical"] = 0]
        /\ UNCHANGED <<open, shut>>
    BY <1>1 DEF ReadWire
  <2>2. closed' \in BOOLEAN /\ (closed' <=> closed \/ Head(wire) = "close")
    BY <1>1, Zenon DEF ReadWire
  <2>3. echo' \in BOOLEAN /\ (echo' <=> echo \/ Head(wire) = "ping")
    BY <1>1, Zenon DEF ReadWire
  <2>4. /\ wire' \in Seq({"ping", "close"}) /\ Head(wire) = wire[1]
        /\ Len(wire) \in Nat \ {0} /\ Len(wire') = Len(wire) - 1
        /\ \A i \in 1..Len(wire') : wire'[i] = wire[i + 1]
    BY <1>1, <2>1
  <2>5. TypeOK'
    BY <2>1, <2>2, <2>3, <2>4
  <2>6. Outstanding'
    BY <1>1, <2>1, <2>2, <2>3, <2>4 DEF Outstanding
  <2>7. Requested' /\ Counted' /\ Heard'
    BY <1>1, <2>1, <2>2, <2>3, <2>4 DEF Requested, Counted, Heard
  <2>8. Closing'
    <3>1. \A i \in 1..Len(wire') : i + 1 \in 1..Len(wire) /\ wire'[i] = wire[i + 1]
      BY <2>4
    <3>2. \A i \in 1..Len(wire') : wire'[i] = "close" => i = Len(wire')
      BY <2>4, <3>1 DEF Closing
    <3>3. closed' => wire' = <<>>
      <4>1. closed' => Len(wire) = 1
        <5>1. closed => wire = <<>>
          BY DEF Closing
        <5>2. 1 \in 1..Len(wire) /\ (wire[1] = "close" => 1 = Len(wire))
          BY <2>4 DEF Closing
        <5>3. wire[1] = "close" => Len(wire) = 1
          BY <5>2
        <5>4. closed' => wire[1] = "close"
          BY <1>1, <2>2, <2>4, <5>1, Zenon
        <5>. QED  BY <5>3, <5>4, Zenon
      <4>. QED  BY <2>4, <4>1
    <3>4. phase'["sentry"] \in {"monitor", "stop"} =>
            ~closed' /\ "sentry" \notin shut' /\ \A i \in 1..Len(wire') : wire'[i] # "close"
      <4>. SUFFICES ASSUME phase'["sentry"] \in {"monitor", "stop"}
                    PROVE  /\ ~closed' /\ "sentry" \notin shut'
                           /\ \A i \in 1..Len(wire') : wire'[i] # "close"
        OBVIOUS
      <4>1. phase["sentry"] \in {"monitor", "stop"}
        OBVIOUS
      <4>2. ~closed /\ "sentry" \notin shut /\ \A i \in 1..Len(wire) : wire[i] # "close"
        BY <4>1 DEF Closing
      <4>3. 1 \in 1..Len(wire)
        BY <2>4
      <4>4. ~closed'
        BY <2>2, <2>4, <4>2, <4>3, Zenon
      <4>. QED  BY <2>1, <3>1, <4>2, <4>4
    <3>5. "sentry" \in shut' => closed' \/ \E i \in 1..Len(wire') : wire'[i] = "close"
      <4>1. CASE closed
        BY <2>2, <4>1
      <4>2. CASE \E i \in 1..Len(wire) : wire[i] = "close"
        <5>1. PICK i \in 1..Len(wire) : wire[i] = "close"
          BY <4>2
        <5>2. CASE i = 1
          BY <2>2, <2>4, <5>1, <5>2
        <5>3. CASE i # 1
          <6>1. i - 1 \in 1..Len(wire') /\ wire'[i - 1] = wire[i]
            BY <2>4, <5>1, <5>3
          <6>. QED  BY <5>1, <6>1
        <5>. QED  BY <5>2, <5>3
      <4>. QED  BY <2>1, <4>1, <4>2 DEF Closing
    <3>. QED  BY <3>2, <3>3, <3>4, <3>5 DEF Closing
  <2>9. Caused'
    BY <1>1, <2>1, <2>2 DEF Caused
  <2>. QED  BY <2>5, <2>6, <2>7, <2>8, <2>9
<1>2. CASE wire = <<>>
  <2>1. /\ open' = [open EXCEPT !["umbilical"] = FALSE]
        /\ timer' = [timer EXCEPT !["umbilical"] = Off]
        /\ shut' = shut \cup {"umbilical"}
        /\ UNCHANGED <<wire, closed, echo, count>>
    BY <1>2 DEF ReadWire, CloseEnd
  <2>2. proc["sentry"] = "dead" \/ closed
    BY <1>2 DEF Closing
  <2>3. TypeOK' /\ Outstanding' /\ Requested' /\ Counted'
    BY <2>1 DEF Outstanding, Requested, Counted
  <2>4. Closing'
    BY <2>1 DEF Closing
  <2>5. Heard' /\ Caused'
    BY <2>1, <2>2 DEF Heard, Caused
  <2>. QED  BY <2>3, <2>4, <2>5
<1>. QED  BY <1>1, <1>2

\* The umbilical process.
LEMMA UmbilicalKeeps ==
  ASSUME IInv,
         \/ Synchronise \/ ReadUmbilical \/ SendEcho \/ SentrySilent
         \/ (\E c \in Client : Accept(c)) \/ Clean
         \/ LoopDone \/ KillChildGroup \/ KillSentryGroup \/ Exit
  PROVE  IInv'
<1>. USE DEF IInv, TypeOK, Outstanding, Requested, Counted, Closing, Heard, Caused, SetTimer,
             SetCount
<1>1. CASE Synchronise
  <2>1. /\ ReadWire /\ Readable("umbilical") /\ ready' = ready
        /\ phase["umbilical"] = "sync"
        /\ phase' = [phase EXCEPT !["umbilical"] = "monitor"]
        /\ UNCHANGED <<proc, child, sentry, echoes, client, history>>
    BY <1>1 DEF Synchronise
  <2>. QED  BY <2>1, ReadWireKeeps
<1>2. CASE ReadUmbilical
  <2>1. /\ ReadWire /\ "umbilical" \in ready["umbilical"]
        /\ ready' = [ready EXCEPT !["umbilical"] = @ \ {"umbilical"}]
        /\ phase["umbilical"] = "monitor"
        /\ UNCHANGED <<proc, child, phase, sentry, echoes, client, history>>
    BY <1>2 DEF ReadUmbilical, Serve, Turn, Monitoring
  <2>2. phase' = [phase EXCEPT !["umbilical"] = "monitor"]
    BY <2>1
  <2>. QED  BY <2>1, <2>2, ReadWireKeeps
<1>3. CASE SendEcho
  <2>1. echo' \in BOOLEAN /\ ~echo'
    BY <1>3, Zenon DEF SendEcho
  <2>2. /\ ready' = [ready EXCEPT !["umbilical"] = @ \ {"event"}]
        /\ "event" \in ready["umbilical"]
        /\ echoes' \in {echoes, echoes + 1}
        /\ UNCHANGED <<proc, child, timer, count, open, phase, sentry, closed, wire,
                       shut, client, history>>
    BY <1>3 DEF SendEcho, Serve, Turn
  <2>. QED  BY <2>1, <2>2
<1>4. CASE SentrySilent
  <2>1. /\ timer["umbilical"] = 0 /\ phase["umbilical"] = "monitor"
        /\ ready' = [ready EXCEPT !["umbilical"] = @ \ {"timer"}]
        /\ UNCHANGED <<proc, child, phase, sentry, umbilical, wire, echoes, client,
                       waited, excused>>
    BY <1>4 DEF SentrySilent, Timer, Due, Serve, Turn, Monitoring
  <2>2. CASE SentryStopped
    <3>1. /\ count' = [count EXCEPT !["umbilical"] = 0]
          /\ timer' = [timer EXCEPT !["umbilical"] = Period]
          /\ UNCHANGED <<open, shut, alarm>>
      BY <1>4, <2>2 DEF SentrySilent
    <3>. QED  BY <2>1, <3>1
  <2>3. CASE ~SentryStopped /\ TooLong(count["umbilical"] + 1)
    <3>1. /\ count' = [count EXCEPT !["umbilical"] = @ + 1]
          /\ CloseEnd /\ alarm' = alarm \cup {"umbilical"}
      BY <1>4, <2>3 DEF SentrySilent
    <3>. QED  BY <2>1, <3>1 DEF CloseEnd
  <2>4. CASE ~SentryStopped /\ ~TooLong(count["umbilical"] + 1)
    <3>1. /\ count' = [count EXCEPT !["umbilical"] = @ + 1]
          /\ timer' = [timer EXCEPT !["umbilical"] = Period]
          /\ UNCHANGED <<open, shut, alarm>>
      BY <1>4, <2>4 DEF SentrySilent
    <3>. QED  BY <2>1, <2>4, <3>1 DEF TooLong
  <2>. QED  BY <2>2, <2>3, <2>4
<1>5. ASSUME NEW c \in Client, Accept(c)
      PROVE  IInv'
  BY <1>5 DEF Accept, Serve, Turn, Monitoring
<1>6. CASE Clean
  BY <1>6 DEF Clean, Serve, Turn, Monitoring
<1>7. CASE LoopDone
  BY <1>7 DEF LoopDone, Complete, Monitoring
<1>8. CASE KillChildGroup
  <2>1. /\ phase["umbilical"] = "killChild"
        /\ phase' = [phase EXCEPT !["umbilical"] = IF closed THEN "end" ELSE "killSentry"]
        /\ child' = "dead" /\ latch' \subseteq latch \cup {"child", "umbilical"}
        /\ UNCHANGED <<proc, ready, timer, count, open, preempt, childDown, kills,
                       umbilical, channel, client, history>>
    BY <1>8, EndedLatches DEF KillChildGroup
  <2>. QED  BY <2>1
<1>9. CASE KillSentryGroup
  BY <1>9 DEF KillSentryGroup
<1>10. CASE Exit
  BY <1>10 DEF Exit, Dropped
<1>. QED  BY <1>1, <1>2, <1>3, <1>4, <1>5, <1>6, <1>7, <1>8, <1>9, <1>10

\* The child, the clients, the faults and the clock.
LEMMA WorldKeeps ==
  ASSUME IInv,
         \/ ChildEnds \/ Tick
         \/ \E c \in Client : Connect(c) \/ Leave(c)
         \/ \E p \in Proc : Stop(p) \/ Continue(p) \/ Stick(p) \/ Recover(p) \/ Kill(p)
  PROVE  IInv'
<1>. USE DEF IInv, TypeOK, Outstanding, Requested, Counted, Closing, Heard, Caused
<1>1. CASE ChildEnds
  <2>1. /\ child' = "dead" /\ latch' \subseteq latch \cup {"child", "umbilical"}
        /\ UNCHANGED <<proc, ready, timer, count, open, phase, preempt, childDown,
                       kills, umbilical, channel, client, history>>
    BY <1>1, EndedLatches DEF ChildEnds
  <2>. QED  BY <2>1
<1>2. CASE Tick
  <2>1. /\ \A p \in Proc : timer'[p] = IF timer[p] \in {0, Off} THEN timer[p] ELSE timer[p] - 1
        /\ timer' \in [Proc -> 0..Off]
        /\ UNCHANGED <<proc, child, ready, count, open, phase, sentry, umbilical,
                       channel, client, alarm>>
    BY <1>2 DEF Tick
  <2>2. waited' \in 0..Period
    BY <1>2 DEF Tick
  <2>3. excused' \subseteq Proc
    BY <1>2, Zenon DEF Tick, TypeOK
  <2>. QED  BY <2>1, <2>2, <2>3
<1>3. ASSUME NEW c \in Client, Connect(c) \/ Leave(c)
      PROVE  IInv'
  <2>1. /\ client' \in [Client -> {"none", "queued", "held", "left", "done"}]
        /\ UNCHANGED <<proc, child, ready, timer, count, open, phase, sentry,
                       umbilical, channel, history>>
    BY <1>3 DEF Connect, Leave
  <2>. QED  BY <2>1
<1>4. ASSUME NEW p \in Proc, Stop(p) \/ Stick(p) \/ Recover(p)
      PROVE  IInv'
  <2>1. /\ proc' \in [Proc -> {"running", "stopped", "stuck", "dead"}]
        /\ \A q \in Proc : proc'[q] = "dead" <=> proc[q] = "dead"
        /\ UNCHANGED <<child, ready, timer, count, open, phase, sentry, umbilical,
                       channel, client, history>>
    BY <1>4 DEF Stop, Stick, Recover
  <2>. QED  BY <2>1
<1>5. ASSUME NEW p \in Proc, Continue(p)
      PROVE  IInv'
  BY <1>5 DEF Continue
<1>6. ASSUME NEW p \in Proc, Kill(p)
      PROVE  IInv'
  BY <1>6 DEF Kill, Dropped
<1>. QED  BY <1>1, <1>2, <1>3, <1>4, <1>5, <1>6

LEMMA StepKeeps == IInv /\ [Next]_vars => IInv'
<1>1. CASE UNCHANGED vars
  BY <1>1 DEF vars, IInv, TypeOK, Outstanding, Requested, Counted, Closing, Heard, Caused
<1>2. CASE IInv /\ SentryStep
  BY <1>2, PollKeeps, MonitorKeeps, StopKeeps DEF SentryStep
<1>3. CASE IInv /\ UmbilicalStep
  BY <1>3, PollKeeps, UmbilicalKeeps DEF UmbilicalStep
<1>. QED
  BY <1>1, <1>2, <1>3, MonitorKeeps, WorldKeeps DEF Next

\* The conjunction of the invariants is inductive.
THEOREM Invariance == Spec => []IInv
<1>1. Init => IInv
  BY InitKeeps
<1>2. IInv /\ [Next]_vars => IInv'
  BY StepKeeps
<1>. QED  BY <1>1, <1>2, PTL DEF Spec

\* Every variable has its type, whatever the clients and the faults.
THEOREM TypeCorrect == Spec => []TypeOK
<1>1. IInv => TypeOK
  BY DEF IInv
<1>. QED  BY <1>1, Invariance, PTL

\* No echo comes that the sentry does not await.
THEOREM EchoesAreAwaited == Spec => []EchoIsAwaited
<1>1. IInv => EchoIsAwaited
  BY DEF IInv, TypeOK, Outstanding, EchoIsAwaited
<1>. QED  BY <1>1, Invariance, PTL

\* Nothing follows the close request.
THEOREM CloseComesLast == Spec => []CloseIsLast
<1>1. IInv => CloseIsLast
  BY DEF IInv, Closing, CloseIsLast
<1>. QED  BY <1>1, Invariance, PTL

\* The only step with which the umbilical comes from killing the sentry to its end.
LEMMA KillHasAlarm ==
  ASSUME IInv, [Next]_vars, proc["sentry"] # "dead",
         phase["umbilical"] = "killSentry"
  PROVE  alarm # {}
BY DEF IInv, Caused

\* The umbilical kills the sentry only after one of the two has declared a timeout.
THEOREM AlarmsKill == Spec => OnlyAlarmsKill
<1>1. IInv /\ [Next]_vars =>
        [proc["sentry"] # "dead" /\ phase["umbilical"] = "killSentry"
           /\ phase'["umbilical"] = "end" => alarm # {}]_vars
  BY KillHasAlarm
<1>. QED  BY <1>1, Invariance, PTL DEF Spec, OnlyAlarmsKill
=============================================================================
