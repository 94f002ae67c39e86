--------------------------- MODULE CustodyProofs ---------------------------
(***************************************************************************)
(* The family of processes implements Custody: theorem Custodies, for any  *)
(* of the modes of Launch and any number of faults.                        *)
(*                                                                         *)
(* What the invariant of LaunchProofs does not say is how the pidfile      *)
(* follows the places of the sentry.  With that, each action is one step   *)
(* of Custody, or one that Custody does not see.                           *)
(***************************************************************************)
EXTENDS LaunchProofs

USE LaunchAssumption
    DEF Proc, Faults, Modes, AgentPlace, SentryPlace, ChildPlace, UmbilicalPlace, Place, Deadly,
        Status, processes, held, sync, umbilical, setting, Ended, Alive

\* The pidfile is there from its announcement to its removal, whichever way the sentry
\* takes, and one that is left behind tells of a failure, a dump or a signal.  No program
\* runs without it, and nobody is reaped or harmed who has not ended.
Titled ==
  /\ at["sentry"] \in {"absent", "create", "record", "watch", "announce"}
       => pidfile = "none"
  /\ at["sentry"] \in {"fork", "forking", "adopt", "ring", "hear", "release", "exec",
                       "monitor", "stop", "drain", "group", "remove"}
       => pidfile = "named"
  /\ at["sentry"] \in {"unwatch", "reap", "finish", "detach", "slay", "bury"}
       => pidfile # "named"
  /\ Ended("sentry") /\ "sentry" \notin harmed /\ status["sentry"] \notin {"fail", "dump"}
       => pidfile # "named"
  /\ at["child"] = "program" => pidfile # "none"
  /\ "child" \in reaped => Ended("child")
  /\ \A p \in harmed : Ended(p)

LEMMA TitledInit == Init => Titled
BY DEF Init, Titled

\* The sentry ends.
LEMMA TitledEnd ==
  ASSUME IInv, Titled, NEW s \in Status, End("sentry", s), pidfile' = pidfile,
         harmed' \in {harmed, harmed \cup {"sentry"}}, "child" \in reaped' => Ended("child"),
         s \in {"fail", "dump"} \/ "sentry" \in harmed' \/ at["sentry"] = "finish"
  PROVE  Titled'
<1>1. EndsAs("sentry", s)
  BY EndIs DEF IInv
<1>. QED  BY <1>1 DEF EndsAs, Titled, IInv, TypeOK

\* The sentry goes on, and leaves the pidfile as it is.
LEMMA TitledMove ==
  ASSUME IInv, Titled, NEW a \in Place, NEW b \in Place, Move("sentry", a, b), a # "ended",
         UNCHANGED <<pidfile, harmed>>,
         \/ b = a
         \/ <<a, b>> \in {<<"create", "record">>, <<"record", "watch">>, <<"watch", "announce">>,
              <<"announce", "abandon">>, <<"forking", "adopt">>, <<"adopt", "ring">>,
              <<"ring", "hear">>, <<"hear", "release">>, <<"release", "exec">>,
              <<"exec", "monitor">>, <<"monitor", "stop">>, <<"stop", "group">>,
              <<"stop", "drain">>, <<"drain", "group">>, <<"unwatch", "reap">>,
              <<"detach", "slay">>}
         \/ b = "abandon"
  PROVE  Titled'
BY DEF Move, Titled, IInv, TypeOK

LEMMA TitledSentry ==
  ASSUME IInv, Titled, SentryStep \/ CallFails \/ Ping \/ NoticeLoss \/ Supervise
  PROVE  Titled'
<1>. USE DEF IInv, TypeOK
<1>1. ASSUME NEW S, NEW from \in Place, NEW to \in Place, Supervised(S, to), at["sentry"] = from,
             from # "ended", <<from, to>> \in {<<"record", "watch">>, <<"adopt", "ring">>},
             UNCHANGED <<pidfile, setting>>
      PROVE  Titled'
  <2>1. CASE "child" \in S /\ status["child"] = "dump"
    BY <1>1, <2>1, TitledEnd DEF Supervised, Titled
  <2>2. CASE ~("child" \in S /\ status["child"] = "dump")
    BY <1>1, <2>2, TitledMove DEF Supervised
  <2>. QED  BY <2>1, <2>2
<1>2. CASE RecordChild \/ AdoptUmbilical
  BY <1>1, <1>2 DEF RecordChild, AdoptUmbilical
<1>3. CASE \/ SentryWatches \/ FindActive \/ UmbilicalForked \/ RingChild \/ HearChild
           \/ ReleaseChild \/ ChildExecuted \/ MonitorDone \/ UmbilicalStopped
           \/ SentryUnwatches \/ Detach
  BY <1>3, TitledMove DEF SentryWatches, FindActive, UmbilicalForked, RingChild, HearChild,
       ReleaseChild, Ring, ChildExecuted, MonitorDone, UmbilicalStopped, SentryUnwatches, Detach
<1>4. CASE StopUmbilical
  BY <1>4, TitledMove DEF StopUmbilical
<1>5. CASE CallFails
  BY <1>5, TitledMove DEF CallFails
<1>6. CASE ForkChild \/ ForkUmbilical \/ CleanGroup \/ Slay
  <2>1. CASE ForkChild
    BY <2>1 DEF ForkChild, Titled, Order, Holding
  <2>2. CASE ForkUmbilical
    BY <2>2 DEF ForkUmbilical, Titled, Order
  <2>3. CASE CleanGroup
    BY <2>3 DEF CleanGroup, Titled
  <2>4. CASE Slay
    BY <2>4 DEF Slay, Titled
  <2>. QED  BY <1>6, <2>1, <2>2, <2>3, <2>4
<1>7. CASE AnnouncePidFile \/ RemovePidFile \/ Abandon
  <2>1. CASE AnnouncePidFile
    BY <2>1 DEF AnnouncePidFile, Move, Titled
  <2>2. CASE RemovePidFile
    BY <2>2 DEF RemovePidFile, Move, Titled
  <2>3. CASE Abandon
    BY <2>3 DEF Abandon, Move, Titled
  <2>. QED  BY <1>7, <2>1, <2>2, <2>3
<1>8. CASE SentryReaps
  BY <1>8 DEF SentryReaps, ReapChild, Titled
<1>9. CASE UmbilicalFails
  BY <1>9, TitledEnd DEF UmbilicalFails, Titled
<1>10. CASE SentryExits
  BY <1>10, TitledEnd DEF SentryExits, Titled
<1>11. CASE Bury
  BY <1>11, TitledEnd DEF Bury
<1>12. CASE Ping \/ NoticeLoss
  BY <1>12 DEF Ping, NoticeLoss, Titled
<1>13. CASE Supervise
  <2>1. CASE "child" \in known /\ status["child"] = "dump"
    BY <1>13, <2>1, TitledEnd DEF Supervise, Titled
  <2>2. CASE ~("child" \in known /\ status["child"] = "dump")
    BY <1>13, <2>2 DEF Supervise, Titled
  <2>. QED  BY <2>1, <2>2
<1>. QED
  BY <1>2, <1>3, <1>4, <1>5, <1>6, <1>7, <1>8, <1>9, <1>10, <1>11, <1>12, <1>13 DEF SentryStep

LEMMA TitledOthers ==
  ASSUME IInv, Titled,
         \/ AgentStep \/ AgentOrphaned \/ ChildStep \/ ProgramForks \/ ProgramEnds
         \/ UmbilicalStep
  PROVE  Titled'
<1>. USE DEF IInv, TypeOK
<1>1. ASSUME NEW p \in Proc \ {"sentry"}, NEW b, at' = [at EXCEPT ![p] = b], ~Ended(p),
             b = "program" => pidfile # "none",
             UNCHANGED <<pidfile, harmed>>, status'["sentry"] = status["sentry"],
             "child" \in reaped' => "child" \in reaped
      PROVE  Titled'
  BY <1>1 DEF Titled
<1>2. ASSUME NEW p \in Proc \ {"sentry"}, NEW s, End(p, s), ~Ended(p),
             UNCHANGED <<pidfile, harmed, reaped>>
      PROVE  Titled'
  BY <1>1, <1>2 DEF End
<1>3. ASSUME NEW p \in Proc \ {"sentry"}, NEW a, NEW b, Move(p, a, b), a # "ended",
             b = "program" => pidfile # "none",
             UNCHANGED <<pidfile, harmed>>
      PROVE  Titled'
  BY <1>1, <1>3 DEF Move
<1>4. CASE AgentForks
  BY <1>4 DEF AgentForks, Titled, Order
<1>5. CASE AgentStep \/ AgentOrphaned
  BY <1>1, <1>2, <1>3, <1>4, <1>5 DEF AgentStep, AgentOrphaned, AgentWatches, AgentWaited,
       AgentUnwatches, AgentReaps, AgentExits
<1>6. CASE ChildStep \/ ProgramForks \/ ProgramEnds
  BY <1>1, <1>2, <1>3, <1>6 DEF ChildStep, ChildStarts, ChildAnswers, ChildPrepares,
       ChildExecutes, ChildQuits, ProgramForks, ProgramEnds, Guarded
<1>7. CASE UmbilicalStep
  BY <1>1, <1>2, <1>3, <1>7 DEF UmbilicalStep, AnchorChild, AnchorSentry, Anchor, Synchronise,
       LinkDone, UmbilicalKillsChild, UmbilicalEnds
<1>. QED  BY <1>5, <1>6, <1>7

LEMMA TitledOutside ==
  ASSUME IInv, Titled, NEW p \in Proc, NEW s \in Deadly,
         \/ Terminate(s) \/ Die(p, s) \/ ProgramHandles(s)
         \/ p \in {"agent", "sentry"} /\ Forward(p, s)
         \/ p \in {"sentry", "child"} /\ Adopted(p)
         \/ Signal(p, s) \/ Kill(p) \/ ParentDies
  PROVE  Titled'
<1>. USE DEF IInv, TypeOK
<1>1. CASE Die(p, s)
  <2>1. EndsAs(p, Cause(s)) /\ Cause(s) \in Status
    BY <1>1, EndIs DEF Die, Cause
  <2>2. CASE p = "sentry"
    BY <1>1, <2>1, <2>2, TitledEnd DEF Die, Titled
  <2>3. CASE p # "sentry"
    BY <1>1, <2>1, <2>3 DEF Die, EndsAs, Titled
  <2>. QED  BY <2>2, <2>3
<1>2. CASE p \in {"sentry", "child"} /\ Adopted(p)
  BY <1>2 DEF Adopted, Titled
<1>3. CASE \/ Terminate(s) \/ ProgramHandles(s)
           \/ p \in {"agent", "sentry"} /\ Forward(p, s)
           \/ Signal(p, s) \/ Kill(p) \/ ParentDies
  BY <1>3 DEF Terminate, ProgramHandles, Forward, Signal, Kill, ParentDies, Titled
<1>. HIDE DEF IInv, TypeOK
<1>. QED  BY <1>1, <1>2, <1>3

LEMMA TitledStep == IInv /\ Titled /\ [Next]_vars => Titled'
<1>. SUFFICES ASSUME IInv, Titled, [Next]_vars PROVE Titled'
  OBVIOUS
<1>1. CASE UNCHANGED vars
  BY <1>1 DEF vars, Titled
<1>2. CASE Next
  BY <1>2, TitledSentry, TitledOthers, TitledOutside DEF Next
<1>. QED  BY <1>1, <1>2

----------------------------------------------------------------------------
\* What Custody sees of Launch.
Reports == [p \in {"agent", "sentry"} |-> status[p]]
Hurt    == harmed \cap {"agent", "sentry"}

Unseen == UNCHANGED <<Pid, status["child"], Name, Guard, Reports, Hurt>>

\* A process that goes on is seen only where the child executes the program and where the
\* umbilical process comes to have both anchors.
LEMMA GoesOn ==
  ASSUME IInv, NEW p \in Proc, NEW a \in Place, NEW b \in Place,
         at[p] = a, at' = [at EXCEPT ![p] = b],
         UNCHANGED <<status, pidfile, harmed>>, "child" \in reaped' <=> "child" \in reaped,
         \/ p \in {"agent", "sentry", "kin"}
         \/ p = "child" /\ {a, b} \subseteq {"start", "wait", "prepare", "ready"}
         \/ p = "umbilical" /\ {a, b} \subseteq {"absent", "child", "sentry"}
         \/ p = "umbilical" /\ {a, b} \subseteq Prepared
  PROVE  Unseen
<1>. USE DEF IInv, TypeOK, Prepared
<1>1. Pid' = Pid
  BY DEF Pid
<1>2. Guard' = Guard
  BY DEF Guard
<1>3. Name' = Name
  BY DEF Name
<1>. QED  BY <1>1, <1>2, <1>3 DEF Unseen, Reports, Hurt

\* The same for a process that goes from one place to the next.
LEMMA MovesOn ==
  ASSUME IInv, NEW p \in Proc, NEW a \in Place, NEW b \in Place, Move(p, a, b),
         UNCHANGED <<pidfile, harmed>>,
         \/ p \in {"agent", "sentry", "kin"}
         \/ p = "child" /\ {a, b} \subseteq {"start", "wait", "prepare", "ready"}
         \/ p = "umbilical" /\ {a, b} \subseteq {"absent", "child", "sentry"}
         \/ p = "umbilical" /\ {a, b} \subseteq Prepared
  PROVE  Unseen
BY GoesOn DEF Move

\* The end of a process, by who it is.
LEMMA ChildEnding ==
  ASSUME IInv, Titled, NEW s \in Status \ {"none"}, End("child", s), Alive("child"),
         UNCHANGED <<pidfile, reaped>>, harmed' \in {harmed, harmed \cup {"child"}}
  PROVE  Service!End(s)
<1>. USE DEF IInv, TypeOK
<1>1. /\ at' = [at EXCEPT !["child"] = "ended"]
      /\ status' = [status EXCEPT !["child"] = s]
  BY DEF End
<1>2. Pid \in {"waits", "runs"} /\ Pid' = "zombie"
  BY <1>1 DEF Pid, Titled
<1>3. Guard' = Guard
  BY <1>1 DEF Guard
<1>4. Name' = Name
  BY DEF Name
<1>5. Reports' = Reports /\ Hurt' = Hurt
  BY <1>1 DEF Reports, Hurt
<1>6. status'["child"] = s
  BY <1>1
<1>. QED  BY <1>2, <1>3, <1>4, <1>5, <1>6 DEF Service!End, Reports, Hurt

LEMMA UmbilicalEnding ==
  ASSUME IInv, NEW s \in Status \ {"none"}, End("umbilical", s), Alive("umbilical"),
         UNCHANGED <<pidfile, reaped>>, harmed' \in {harmed, harmed \cup {"umbilical"}}
  PROVE  Service!Watch
<1>. USE DEF IInv, TypeOK
<1>1. /\ at' = [at EXCEPT !["umbilical"] = "ended"]
      /\ status' = [status EXCEPT !["umbilical"] = s]
  BY DEF End
<1>2. Guard # "gone" /\ Guard' = "gone"
  BY <1>1 DEF Guard
<1>3. Pid' = Pid
  BY <1>1 DEF Pid
<1>4. Name' = Name
  BY DEF Name
<1>5. Reports' = Reports /\ Hurt' = Hurt /\ status'["child"] = status["child"]
  BY <1>1 DEF Reports, Hurt
<1>. QED  BY <1>2, <1>3, <1>4, <1>5 DEF Service!Watch, Reports, Hurt

LEMMA KinEnding ==
  ASSUME IInv, NEW s, End("kin", s), UNCHANGED <<pidfile, reaped>>,
         harmed' \in {harmed, harmed \cup {"kin"}}
  PROVE  Unseen
<1>. USE DEF IInv, TypeOK
<1>1. /\ at' = [at EXCEPT !["kin"] = "ended"]
      /\ status' = [status EXCEPT !["kin"] = s]
  BY DEF End
<1>2. Pid' = Pid
  BY <1>1 DEF Pid
<1>3. Guard' = Guard
  BY <1>1 DEF Guard
<1>4. Name' = Name
  BY DEF Name
<1>. QED  BY <1>1, <1>2, <1>3, <1>4 DEF Unseen, Reports, Hurt

\* What entitles a reporter to the exit code that it gives.
Entitled(p, s) ==
  \/ s = status["child"] /\ (pidfile # "named" \/ s = "dump")
  \/ s = "fail"
  \/ p \in harmed'
  \/ "sentry" \in harmed /\ s = status["sentry"]

LEMMA ReporterGives ==
  ASSUME IInv, NEW p \in {"agent", "sentry"}, NEW s \in Status \ {"none"}, End(p, s), Alive(p),
         UNCHANGED pidfile, harmed' \in {harmed, harmed \cup {p}}, Entitled(p, s)
  PROVE  /\ Service!Gives(p, s)
         /\ at' = [at EXCEPT ![p] = "ended"]
<1>. USE DEF IInv, TypeOK
<1>1. /\ at' = [at EXCEPT ![p] = "ended"]
      /\ status' = [status EXCEPT ![p] = s]
  BY DEF End
<1>2. Guard' = Guard
  BY <1>1 DEF Guard
<1>3. Name' = Name /\ (Name = "given" <=> pidfile = "named")
  BY DEF Name
<1>4. Reports' = [Reports EXCEPT ![p] = s] /\ Reports[p] = "none"
  BY <1>1 DEF Reports, Order
<1>5. Hurt' \in {Hurt, Hurt \cup {p}}
  BY DEF Hurt
<1>6. status'["child"] = status["child"]
  BY <1>1
<1>. QED
  BY <1>1, <1>2, <1>3, <1>4, <1>5, <1>6 DEF Service!Gives, Entitled, Reports, Hurt

LEMMA ReporterEnding ==
  ASSUME IInv, NEW p \in {"agent", "sentry"}, NEW s \in Status \ {"none"}, End(p, s), Alive(p),
         UNCHANGED <<pidfile, reaped>>, harmed' \in {harmed, harmed \cup {p}}, Entitled(p, s)
  PROVE  Service!Report(p, s)
<1>1. Service!Gives(p, s) /\ at' = [at EXCEPT ![p] = "ended"]
  BY ReporterGives
<1>2. Pid' = Pid
  BY <1>1 DEF Pid, IInv, TypeOK
<1>. QED  BY <1>1, <1>2 DEF Service!Report

\* The agent.
LEMMA AgentServes ==
  ASSUME IInv, Titled, AgentStep \/ AgentOrphaned
  PROVE  Unseen \/ Service!Next
<1>. USE DEF IInv, TypeOK
<1>0. \A s \in Status \ {"none"} : Service!Report("agent", s) => Service!Next
  BY DEF Service!Next
<1>1. CASE AgentForks
  <2>1. at' = [at EXCEPT !["agent"] = "watch", !["sentry"] = "create"]
    BY <1>1 DEF AgentForks
  <2>2. Pid' = Pid /\ Guard' = Guard /\ Name' = Name
    BY <1>1, <2>1 DEF AgentForks, Pid, Guard, Name
  <2>. QED  BY <1>1, <2>2 DEF AgentForks, Unseen, Reports, Hurt
<1>2. CASE AgentWatches \/ AgentUnwatches
  BY <1>2, MovesOn DEF AgentWatches, AgentUnwatches
<1>3. CASE AgentWaited
  <2>1. CASE status["sentry"] = "dump"
    <3>1. End("agent", "dump") /\ Alive("agent") /\ UNCHANGED <<pidfile, reaped, harmed>>
      BY <1>3, <2>1 DEF AgentWaited
    <3>2. Entitled("agent", "dump")
      BY <1>3, <2>1 DEF AgentWaited, Entitled, ExitCodeIsRelayed, Titled
    <3>. QED  BY <1>0, <3>1, <3>2, ReporterEnding
  <2>2. CASE status["sentry"] # "dump"
    BY <1>3, <2>2, MovesOn DEF AgentWaited
  <2>. QED  BY <2>1, <2>2
<1>4. CASE AgentReaps
  BY <1>4, GoesOn DEF AgentReaps
<1>5. CASE AgentExits
  <2>1. /\ End("agent", status["sentry"]) /\ Alive("agent")
        /\ UNCHANGED <<pidfile, reaped, harmed>>
    BY <1>5 DEF AgentExits
  <2>2. Ended("sentry") /\ status["sentry"] \in Status \ {"none"}
    BY <1>5 DEF AgentExits, Order
  <2>3. Entitled("agent", status["sentry"])
    BY <2>1, <2>2 DEF Entitled, ExitCodeIsRelayed, Titled
  <2>. QED  BY <1>0, <2>1, <2>2, <2>3, ReporterEnding
<1>6. CASE AgentOrphaned
  <2>1. End("agent", "fail") /\ Alive("agent") /\ UNCHANGED <<pidfile, reaped, harmed>>
    BY <1>6 DEF AgentOrphaned
  <2>. QED  BY <1>0, <2>1, ReporterEnding DEF Entitled
<1>. QED  BY <1>1, <1>2, <1>3, <1>4, <1>5, <1>6 DEF AgentStep

\* The sentry as it starts the family.
LEMMA SentryStarts ==
  ASSUME IInv, Titled,
         \/ ForkChild \/ RecordChild \/ SentryWatches \/ AnnouncePidFile \/ FindActive
         \/ ForkUmbilical \/ UmbilicalForked \/ UmbilicalFails \/ AdoptUmbilical
         \/ RingChild \/ HearChild \/ ReleaseChild \/ ChildExecuted
  PROVE  Unseen \/ Service!Next
<1>. USE DEF IInv, TypeOK
<1>1. CASE ForkChild
  <2>1. at' = [at EXCEPT !["sentry"] = "record", !["child"] = "start"] /\ at["child"] = "absent"
    BY <1>1 DEF ForkChild, Order
  <2>2. Pid = "none" /\ Pid' = "waits" /\ Guard' = Guard /\ Name' = Name
    BY <1>1, <2>1 DEF ForkChild, Pid, Guard, Name
  <2>3. Service!Fork
    BY <1>1, <2>2 DEF ForkChild, Service!Fork
  <2>. QED  BY <2>3 DEF Service!Next
<1>2. ASSUME NEW S, NEW from \in Place, NEW to \in Place, Supervised(S, to), at["sentry"] = from,
             from # "ended", from # "absent", UNCHANGED <<pidfile, setting>>
      PROVE  Unseen \/ Service!Next
  <2>1. CASE "child" \in S /\ status["child"] = "dump"
    <3>1. End("sentry", "dump") /\ Alive("sentry") /\ UNCHANGED <<pidfile, reaped, harmed>>
      BY <1>2, <2>1 DEF Supervised
    <3>2. Service!Report("sentry", "dump")
      BY <2>1, <3>1, ReporterEnding DEF Entitled
    <3>. QED  BY <3>2 DEF Service!Next
  <2>2. CASE ~("child" \in S /\ status["child"] = "dump")
    BY <1>2, <2>2, MovesOn DEF Supervised
  <2>. QED  BY <2>1, <2>2
<1>3. CASE RecordChild \/ AdoptUmbilical
  BY <1>2, <1>3 DEF RecordChild, AdoptUmbilical
<1>4. CASE \/ SentryWatches \/ FindActive \/ UmbilicalForked \/ RingChild \/ HearChild
           \/ ReleaseChild \/ ChildExecuted
  BY <1>4, MovesOn DEF SentryWatches, FindActive, UmbilicalForked, RingChild, HearChild,
       ReleaseChild, Ring, ChildExecuted
<1>5. CASE AnnouncePidFile
  <2>1. at' = [at EXCEPT !["sentry"] = "fork"] /\ at["sentry"] = "announce"
    BY <1>5 DEF AnnouncePidFile, Move
  <2>2. Name = "none" /\ Name' = "given"
    BY <1>5, <2>1 DEF AnnouncePidFile, Name, Titled
  <2>3. Pid \in {"waits", "zombie"} /\ Pid' = Pid /\ Guard' = Guard
    BY <1>5, <2>1 DEF AnnouncePidFile, Move, Pid, Guard, Order, Holding, Titled, Recorded,
         Watched
  <2>4. Service!GiveName
    BY <1>5, <2>2, <2>3 DEF AnnouncePidFile, Move, Service!GiveName
  <2>. QED  BY <2>4 DEF Service!Next
<1>6. CASE ForkUmbilical
  <2>1. /\ at' = [at EXCEPT !["sentry"] = "forking", !["umbilical"] = "child"]
        /\ at["umbilical"] = "absent"
    BY <1>6 DEF ForkUmbilical, Order
  <2>2. Pid' = Pid /\ Guard' = Guard /\ Name' = Name
    BY <1>6, <2>1 DEF ForkUmbilical, Pid, Guard, Name
  <2>. QED  BY <1>6, <2>2 DEF ForkUmbilical, Unseen, Reports, Hurt
<1>7. CASE UmbilicalFails
  <2>1. End("sentry", "fail") /\ Alive("sentry") /\ UNCHANGED <<pidfile, reaped, harmed>>
    BY <1>7 DEF UmbilicalFails
  <2>2. Service!Report("sentry", "fail")
    BY <2>1, ReporterEnding DEF Entitled
  <2>. QED  BY <2>2 DEF Service!Next
<1>. QED  BY <1>1, <1>3, <1>4, <1>5, <1>6, <1>7

\* The sentry as it monitors and ends the family.
LEMMA SentryCloses ==
  ASSUME IInv, Titled,
         \/ MonitorDone \/ StopUmbilical \/ UmbilicalStopped \/ CleanGroup
         \/ RemovePidFile \/ SentryUnwatches \/ SentryReaps \/ SentryExits
         \/ Abandon \/ Detach \/ Slay \/ Bury
         \/ CallFails \/ Ping \/ NoticeLoss \/ Supervise
  PROVE  Unseen \/ Service!Next
<1>. USE DEF IInv, TypeOK
<1>1. CASE \/ MonitorDone \/ StopUmbilical \/ UmbilicalStopped \/ SentryUnwatches \/ Detach
           \/ CallFails
  BY <1>1, MovesOn DEF MonitorDone, StopUmbilical, UmbilicalStopped, SentryUnwatches, Detach,
       CallFails
<1>2. CASE CleanGroup \/ Slay
  <2>1. PICK a \in {"group", "slay"}, b \in {"remove", "bury"} :
          at["sentry"] = a /\ at' = [at EXCEPT !["sentry"] = b]
    BY <1>2 DEF CleanGroup, Slay
  <2>2. UNCHANGED <<status, pidfile, harmed, reaped>>
    BY <1>2 DEF CleanGroup, Slay
  <2>. QED  BY <2>1, <2>2, GoesOn
<1>3. CASE RemovePidFile \/ Abandon
  <2>1. PICK a \in {"remove", "abandon"}, b \in {"unwatch", "detach"} : Move("sentry", a, b)
    BY <1>3 DEF RemovePidFile, Abandon
  <2>2. Pid' = Pid /\ Guard' = Guard
    BY <2>1 DEF Move, Pid, Guard
  <2>3. status' = status /\ harmed' = harmed
    BY <1>3, <2>1 DEF RemovePidFile, Abandon, Move
  <2>4. CASE pidfile = "named"
    <3>1. Name = "given" /\ Name' = "taken"
      BY <1>3, <2>4 DEF RemovePidFile, Abandon, Name
    <3>2. Service!TakeName
      BY <2>2, <2>3, <3>1 DEF Service!TakeName
    <3>. QED  BY <3>2 DEF Service!Next
  <2>5. CASE pidfile # "named"
    <3>1. Abandon /\ pidfile' = pidfile
      BY <1>3, <2>5 DEF RemovePidFile, Abandon, Move, Titled
    <3>2. Name' = Name
      BY <3>1 DEF Name
    <3>. QED  BY <2>2, <2>3, <3>2 DEF Unseen, Reports, Hurt
  <2>. QED  BY <2>4, <2>5
<1>4. CASE SentryReaps
  <2>1. /\ at' = [at EXCEPT !["sentry"] = "finish"] /\ reaped' = reaped \cup {"child"}
        /\ at["sentry"] = "reap" /\ Ended("child")
        /\ UNCHANGED <<status, pidfile, harmed>>
    BY <1>4 DEF SentryReaps, ReapChild
  <2>2. Pid = "zombie" /\ Pid' = "free"
    BY <2>1 DEF Pid, Holding
  <2>3. Guard' = Guard /\ Name' = Name /\ Name # "given"
    BY <2>1 DEF Guard, Name, Titled
  <2>4. Service!Reap
    BY <2>1, <2>2, <2>3 DEF Service!Reap, Service!Free
  <2>. QED  BY <2>4 DEF Service!Next
<1>5. CASE SentryExits
  <2>1. /\ End("sentry", status["child"]) /\ Alive("sentry")
        /\ UNCHANGED <<pidfile, reaped, harmed>>
    BY <1>5 DEF SentryExits
  <2>2. status["child"] \in Status \ {"none"} /\ Entitled("sentry", status["child"])
    BY <1>5 DEF SentryExits, Order, Entitled, Titled
  <2>3. Service!Report("sentry", status["child"])
    BY <2>1, <2>2, ReporterEnding
  <2>. QED  BY <2>2, <2>3 DEF Service!Next
<1>6. CASE Bury
  <2>1. /\ End("sentry", "fail") /\ Alive("sentry") /\ UNCHANGED <<pidfile, harmed>>
        /\ at["sentry"] = "bury" /\ Ended("child") /\ reaped' = reaped \cup {"child"}
    BY <1>6 DEF Bury
  <2>2. Service!Gives("sentry", "fail") /\ at' = [at EXCEPT !["sentry"] = "ended"]
    BY <2>1, ReporterGives DEF Entitled
  <2>3. Pid = "zombie" /\ Pid' = "free" /\ Name # "given"
    BY <2>1, <2>2 DEF Pid, Name, Holding, Titled
  <2>4. Service!Abandon
    BY <2>2, <2>3 DEF Service!Abandon, Service!Free
  <2>. QED  BY <2>4 DEF Service!Next
<1>7. CASE Ping \/ NoticeLoss
  BY <1>7 DEF Ping, NoticeLoss, Unseen, Pid, Guard, Name, Reports, Hurt
<1>8. CASE Supervise
  <2>1. CASE "child" \in known /\ status["child"] = "dump"
    <3>1. End("sentry", "dump") /\ UNCHANGED <<pidfile, reaped, harmed>>
      BY <1>8, <2>1 DEF Supervise
    <3>2. Alive("sentry")
      BY <1>8, <2>1 DEF Supervise, Holding
    <3>3. Service!Report("sentry", "dump")
      BY <2>1, <3>1, <3>2, ReporterEnding DEF Entitled
    <3>. QED  BY <3>3 DEF Service!Next
  <2>2. CASE ~("child" \in known /\ status["child"] = "dump")
    BY <1>8, <2>2 DEF Supervise, Unseen, Pid, Guard, Name, Reports, Hurt
  <2>. QED  BY <2>1, <2>2
<1>. QED  BY <1>1, <1>2, <1>3, <1>4, <1>5, <1>6, <1>7, <1>8

\* The child.
LEMMA ChildServes ==
  ASSUME IInv, Titled, ChildStep \/ ProgramForks \/ ProgramEnds
  PROVE  Unseen \/ Service!Next
<1>. USE DEF IInv, TypeOK
<1>1. CASE ChildStarts \/ ChildAnswers \/ ChildPrepares
  <2>1. PICK a \in {"start", "wait", "prepare"}, b \in {"wait", "prepare", "ready"} :
          Move("child", a, b)
    BY <1>1 DEF ChildStarts, ChildAnswers, ChildPrepares
  <2>2. UNCHANGED <<pidfile, harmed>>
    BY <1>1 DEF ChildStarts, ChildAnswers, ChildPrepares
  <2>. QED  BY <2>1, <2>2, MovesOn
<1>2. CASE ChildExecutes
  <2>1. /\ Move("child", "ready", "program") /\ rings > 0
        /\ UNCHANGED <<pidfile, harmed>>
    BY <1>2 DEF ChildExecutes
  <2>2. Pid = "waits" /\ Pid' = "runs"
    BY <2>1 DEF Move, Pid
  <2>3. Name # "none" /\ Name' = Name
    BY <2>1 DEF Name, Guarded
  <2>4. Guard # "none" /\ Guard' = Guard
    BY <2>1 DEF Move, Guard, Guarded, Prepared
  <2>5. Service!Execute
    BY <2>1, <2>2, <2>3, <2>4 DEF Move, Service!Execute
  <2>. QED  BY <2>5 DEF Service!Next
<1>3. CASE ChildQuits \/ ProgramEnds
  <2>1. PICK s \in {"fail", "ok"} : End("child", s)
    BY <1>3 DEF ChildQuits, ProgramEnds
  <2>2. Alive("child") /\ UNCHANGED <<pidfile, reaped, harmed>>
    BY <1>3 DEF ChildQuits, ProgramEnds
  <2>3. Service!End(s)
    BY <2>1, <2>2, ChildEnding
  <2>. QED  BY <2>3 DEF Service!Next
<1>4. CASE ProgramForks
  BY <1>4, GoesOn DEF ProgramForks
<1>. QED  BY <1>1, <1>2, <1>3, <1>4 DEF ChildStep

\* The umbilical process.
LEMMA UmbilicalServes ==
  ASSUME IInv, Titled, UmbilicalStep
  PROVE  Unseen \/ Service!Next
<1>. USE DEF IInv, TypeOK
<1>1. ASSUME NEW s \in Status \ {"none"}, End("umbilical", s), Alive("umbilical"),
             UNCHANGED <<pidfile, reaped, harmed>>
      PROVE  Service!Next
  <2>1. Service!Watch
    BY <1>1, UmbilicalEnding
  <2>. QED  BY <2>1 DEF Service!Next
<1>2. CASE AnchorChild
  <2>1. CASE ChildPinned
    BY <1>2, <2>1, MovesOn DEF AnchorChild, Anchor
  <2>2. CASE ~ChildPinned
    BY <1>1, <1>2, <2>2 DEF AnchorChild, Anchor
  <2>. QED  BY <2>1, <2>2
<1>3. CASE AnchorSentry
  <2>1. CASE SentryPinned
    <3>1. Move("umbilical", "sentry", "sync") /\ UNCHANGED <<pidfile, harmed>>
      BY <1>3, <2>1 DEF AnchorSentry, Anchor
    <3>2. Guard = "none" /\ Guard' = "guards"
      BY <3>1 DEF Move, Guard
    <3>3. Pid' = Pid /\ Name' = Name
      BY <3>1 DEF Move, Pid, Name
    <3>4. Service!Watch
      BY <3>1, <3>2, <3>3 DEF Move, Service!Watch
    <3>. QED  BY <3>4 DEF Service!Next
  <2>2. CASE ~SentryPinned
    BY <1>1, <1>3, <2>2 DEF AnchorSentry, Anchor
  <2>. QED  BY <2>1, <2>2
<1>4. CASE Synchronise \/ LinkDone
  BY <1>4, MovesOn DEF Synchronise, LinkDone, Prepared
<1>5. CASE UmbilicalKillsChild
  BY <1>5, GoesOn DEF UmbilicalKillsChild, Prepared
<1>6. CASE UmbilicalEnds
  BY <1>1, <1>6 DEF UmbilicalEnds
<1>. QED  BY <1>2, <1>3, <1>4, <1>5, <1>6 DEF UmbilicalStep

\* Signals, and what comes from outside.
LEMMA OutsideServes ==
  ASSUME IInv, Titled, NEW p \in Proc, NEW s \in Deadly,
         \/ Terminate(s) \/ Die(p, s) \/ ProgramHandles(s)
         \/ p \in {"agent", "sentry"} /\ Forward(p, s)
         \/ p \in {"sentry", "child"} /\ Adopted(p)
         \/ Signal(p, s) \/ Kill(p) \/ ParentDies
  PROVE  Unseen \/ Service!Next
<1>. USE DEF IInv, TypeOK
<1>1. CASE \/ Terminate(s) \/ ProgramHandles(s)
           \/ p \in {"agent", "sentry"} /\ Forward(p, s)
           \/ Signal(p, s) \/ Kill(p) \/ ParentDies
  <2>1. UNCHANGED <<at, status, reaped, pidfile, harmed>>
    BY <1>1 DEF Terminate, ProgramHandles, Forward, Signal, Kill, ParentDies
  <2>. QED  BY <2>1 DEF Unseen, Pid, Guard, Name, Reports, Hurt
<1>2. CASE Die(p, s)
  <2>1. /\ End(p, Cause(s)) /\ Alive(p) /\ Cause(s) \in Status \ {"none"}
        /\ UNCHANGED <<pidfile, reaped>> /\ harmed' = harmed \cup {p}
    BY <1>2 DEF Die, Cause
  <2>2. CASE p = "child"
    <3>1. Service!End(Cause(s))
      BY <2>1, <2>2, ChildEnding
    <3>. QED  BY <2>1, <3>1 DEF Service!Next
  <2>3. CASE p = "umbilical"
    <3>1. Service!Watch
      BY <2>1, <2>3, UmbilicalEnding
    <3>. QED  BY <3>1 DEF Service!Next
  <2>4. CASE p = "kin"
    BY <2>1, <2>4, KinEnding
  <2>5. CASE p \in {"agent", "sentry"}
    <3>1. Entitled(p, Cause(s))
      BY <2>1, <2>5 DEF Entitled
    <3>2. Service!Report(p, Cause(s))
      BY <2>1, <2>5, <3>1, ReporterEnding
    <3>. QED  BY <2>1, <2>5, <3>2 DEF Service!Next
  <2>. QED  BY <2>2, <2>3, <2>4, <2>5
<1>3. CASE p \in {"sentry", "child"} /\ Adopted(p)
  <2>1. /\ Ended(p) /\ p \notin reaped /\ reaped' = reaped \cup {p}
        /\ p = "child" => Ended("sentry")
        /\ UNCHANGED <<at, status, pidfile, harmed>>
    BY <1>3 DEF Adopted
  <2>2. Guard' = Guard /\ Name' = Name
    BY <2>1 DEF Guard, Name
  <2>3. CASE p = "child"
    <3>1. Pid = "zombie" /\ Pid' = "free"
      BY <2>1, <2>3 DEF Pid
    <3>2. status["sentry"] # "none"
      BY <2>1, <2>3 DEF Order
    <3>3. Service!Reap
      BY <2>1, <2>2, <3>1, <3>2 DEF Service!Reap, Service!Free
    <3>. QED  BY <3>3 DEF Service!Next
  <2>4. CASE p = "sentry"
    <3>1. Pid' = Pid
      BY <2>1, <2>4 DEF Pid
    <3>. QED  BY <2>1, <2>2, <3>1 DEF Unseen, Reports, Hurt
  <2>. QED  BY <1>3, <2>3, <2>4
<1>. QED  BY <1>1, <1>2, <1>3

\* The family of processes is a custody: the program runs only with a pidfile and an
\* umbilical process, its pid is not set free under its name, and the exit codes that the
\* sentry and the agent give are its own.
THEOREM Custodies == Spec => ImplementsCustody
<1>1. Init => Service!Init
  <2>. SUFFICES ASSUME Init PROVE Service!Init
    OBVIOUS
  <2>1. at["child"] = "absent" /\ at["umbilical"] = "absent"
    BY DEF Init
  <2>2. status = [p \in Proc |-> "none"] /\ pidfile = "none" /\ harmed = {}
    BY DEF Init
  <2>. QED  BY <2>1, <2>2 DEF Service!Init, Pid, Name, Guard
<1>2. IInv /\ Titled /\ [Next]_vars => [Service!Next]_(Service!custody)
  <2>. SUFFICES ASSUME IInv, Titled, [Next]_vars
                PROVE  Unseen \/ Service!Next
    BY DEF Unseen, Reports, Hurt, Service!custody
  <2>1. CASE UNCHANGED vars
    BY <2>1 DEF vars, Unseen, Pid, Guard, Name, Reports, Hurt
  <2>2. CASE Next
    BY <2>2, AgentServes, SentryStarts, SentryCloses, ChildServes, UmbilicalServes,
       OutsideServes DEF Next, SentryStep
  <2>. QED  BY <2>1, <2>2
<1>. QED
  BY <1>1, <1>2, Invariance, TitledInit, TitledStep, PTL
     DEF Spec, ImplementsCustody, Service!Spec
============================================================================
