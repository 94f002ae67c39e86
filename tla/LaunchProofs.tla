---------------------------- MODULE LaunchProofs ----------------------------
(***************************************************************************)
(* Proofs about Launch for any of its modes and any number of faults.      *)
(*                                                                         *)
(* The argument goes along the places of the sentry.  From the record of   *)
(* the child to its reaping the pid is known and not reaped, and a process *)
(* that is signalled has its place in between; a ring is sent only when    *)
(* the pidfile and the umbilical process are there, and neither of them is *)
(* unmade again without a trace.                                           *)
(***************************************************************************)
EXTENDS Launch, TLAPS

USE LaunchAssumption
    DEF Proc, Faults, Modes, AgentPlace, SentryPlace, ChildPlace, UmbilicalPlace, Place, Deadly,
        Status, processes, held, sync, umbilical, setting, Ended, Alive

\* The places of the sentry at which it has handlers, and at which it has the pid.
Watched ==
  {"announce", "fork", "forking", "adopt", "ring", "hear", "release", "exec", "monitor",
   "stop", "drain", "group", "remove", "unwatch", "abandon", "detach"}
Recorded == Watched \cup {"watch", "reap", "slay", "bury"}

\* The places of the umbilical process at which it has both anchors.
Prepared == {"sync", "monitor", "killChild", "killSentry"}

\* A process is forked at one place of its parent, and waited for at another.
Order ==
  /\ mode.direct => at["agent"] = "absent"
  /\ at["agent"] = "fork" => at["sentry"] = "absent"
  /\ at["agent"] \in {"unwatch", "reap", "finish"} => Ended("sentry")
  /\ at["sentry"] \in {"absent", "create"} => at["child"] = "absent"
  /\ at["sentry"] \in Recorded \cup {"record"} => at["child"] # "absent"
  /\ at["sentry"] \in {"absent", "create", "record", "watch", "announce", "fork"}
       => at["umbilical"] = "absent"
  /\ at["umbilical"] \in UmbilicalPlace \cup {"absent", "ended"}
  /\ at["sentry"] = "forking" => at["umbilical"] # "absent"
  /\ at["sentry"] = "finish" => Ended("child")
  /\ \A p \in Proc : status[p] # "none" <=> Ended(p)

\* What is known is not reaped, while there is use for it.
Holding ==
  /\ "sentry" \in watching => at["sentry"] \in Watched
  /\ at["sentry"] \in Recorded => "child" \in known
  /\ at["sentry"] \in {"absent", "create", "record"} => "child" \notin known
  /\ "child" \in reaped => at["sentry"] \in {"finish", "ended"}
  /\ "agent" \in watching => at["agent"] \in {"wait", "unwatch"}
  /\ at["agent"] \in {"watch", "wait", "unwatch", "reap"}
       => "sentry" \in known /\ "sentry" \notin reaped
  /\ "sentry" \in reaped => Ended("sentry")

\* The anchors are those of the places that the umbilical process has passed.
Anchored ==
  /\ at["umbilical"] \in Prepared \cup {"sentry"} => "child" \in anchors
  /\ at["umbilical"] \in Prepared => "sentry" \in anchors

\* A ring is sent when the pidfile and the umbilical process are there, and twice at most.
Guarded ==
  /\ at["sentry"] \in {"fork", "forking", "adopt", "ring", "hear", "release"}
       => pidfile # "none"
  /\ at["sentry"] \in {"adopt", "ring", "hear", "release"}
       => at["umbilical"] \in Prepared \cup {"ended"}
  /\ rings > 0 => pidfile # "none" /\ at["umbilical"] \in Prepared \cup {"ended"}
  /\ at["sentry"] \in {"absent", "create", "record", "watch", "announce", "fork", "forking",
                       "adopt", "ring"} => rings = 0
  /\ at["sentry"] \in {"hear", "release"} => rings <= 1

IInv ==
  /\ TypeOK /\ Order /\ Holding /\ Anchored /\ Guarded
  /\ DeathIsNotMissed /\ ExitCodeIsRelayed

----------------------------------------------------------------------------

\* The end of a process, in terms that do not compare truth values.
EndsAs(p, s) ==
  /\ at' = [at EXCEPT ![p] = "ended"]
  /\ status' = [status EXCEPT ![p] = s]
  /\ watching' = watching \ {p}
  /\ sigchld' \in BOOLEAN /\ bell' \in BOOLEAN
  /\ sigchld \/ p \in {"child", "umbilical"} => sigchld'
  /\ anchors' = IF p = "umbilical" THEN {} ELSE anchors

LEMMA EndIs ==
  ASSUME TypeOK, NEW p \in Proc, NEW s, End(p, s)
  PROVE  EndsAs(p, s)
<1>1. sigchld' \in BOOLEAN /\ bell' \in BOOLEAN
  BY Zenon DEF End, TypeOK
<1>2. sigchld \/ p \in {"child", "umbilical"} => sigchld'
  BY Zenon DEF End
<1>. QED  BY <1>1, <1>2 DEF End, EndsAs

LEMMA InitKeeps == Init => IInv
<1>. SUFFICES ASSUME Init PROVE IInv
  OBVIOUS
<1>1. /\ at \in [Proc -> Place] /\ at["kin"] = "absent"
      /\ at["child"] = "absent" /\ at["umbilical"] = "absent"
      /\ \/ mode.direct  /\ at["agent"] = "absent" /\ at["sentry"] = "create"
         \/ ~mode.direct /\ at["agent"] = "fork"   /\ at["sentry"] = "absent"
  BY DEF Init
<1>2. parent \in BOOLEAN /\ sigchld \in BOOLEAN /\ plan \in BOOLEAN /\ bell \in BOOLEAN
      /\ orderly \in BOOLEAN
  BY DEF Init
<1>3. /\ mode \in Mode /\ status = [p \in Proc |-> "none"] /\ reaped = {}
      /\ sig = [p \in Proc |-> {}] /\ known = {} /\ watching = {} /\ down = {}
      /\ rings = 0 /\ answers = 0 /\ link = {} /\ anchors = {} /\ pidfile = "none"
      /\ faults = 0 /\ harmed = {}
  BY DEF Init
<1>4. TypeOK
  BY <1>1, <1>2, <1>3 DEF TypeOK
<1>. QED
  BY <1>1, <1>3, <1>4 DEF IInv, Order, Holding, Anchored, Guarded, DeathIsNotMissed,
              ExitCodeIsRelayed, Watched, Recorded, Prepared

\* The agent.
LEMMA AgentKeeps ==
  ASSUME IInv, AgentStep \/ AgentOrphaned
  PROVE  IInv'
<1>. USE DEF IInv, TypeOK, Order, Holding, Anchored, Guarded, DeathIsNotMissed,
             ExitCodeIsRelayed, Watched, Recorded, Prepared
<1>1. CASE AgentForks
  BY <1>1 DEF AgentForks
<1>2. CASE AgentWatches
  BY <1>2 DEF AgentWatches, Move
<1>3. CASE AgentWaited
  <2>0. /\ at["agent"] = "wait" /\ Ended("sentry")
        /\ UNCHANGED <<known, down, plan, rings, answers, link, orderly, pidfile, setting>>
    BY <1>3 DEF AgentWaited
  <2>1. CASE status["sentry"] = "dump"
    <3>1. End("agent", "dump") /\ UNCHANGED <<reaped, sig>>
      BY <1>3, <2>1, Zenon DEF AgentWaited
    <3>2. EndsAs("agent", "dump")
      BY <3>1, EndIs
    <3>. QED  BY <1>3, <2>1, <3>1, <3>2, <2>0 DEF EndsAs
  <2>2. CASE status["sentry"] # "dump"
    <3>1. Move("agent", "wait", "unwatch") /\ UNCHANGED <<watching, sigchld, bell, anchors>>
      BY <1>3, <2>2, Zenon DEF AgentWaited
    <3>. QED  BY <1>3, <2>2, <3>1, <2>0 DEF Move
  <2>. QED  BY <2>1, <2>2
<1>4. CASE AgentUnwatches
  BY <1>4 DEF AgentUnwatches, Move
<1>5. CASE AgentReaps
  BY <1>5 DEF AgentReaps
<1>6. CASE AgentExits
  <2>1. EndsAs("agent", status["sentry"])
    BY <1>6, EndIs DEF AgentExits
  <2>. QED  BY <1>6, <2>1 DEF AgentExits, EndsAs
<1>7. CASE AgentOrphaned
  <2>1. EndsAs("agent", "fail")
    BY <1>7, EndIs DEF AgentOrphaned
  <2>. QED  BY <1>7, <2>1 DEF AgentOrphaned, EndsAs
<1>. QED
  BY <1>1, <1>2, <1>3, <1>4, <1>5, <1>6, <1>7 DEF AgentStep

\* The sentry as it starts the family.
LEMMA StartKeeps ==
  ASSUME IInv, \/ ForkChild \/ RecordChild \/ SentryWatches \/ AnnouncePidFile \/ FindActive
         \/ ForkUmbilical \/ UmbilicalForked \/ UmbilicalFails \/ AdoptUmbilical
         \/ RingChild \/ HearChild \/ ReleaseChild \/ ChildExecuted
  PROVE  IInv'
<1>. USE DEF IInv, TypeOK, Order, Holding, Anchored, Guarded, DeathIsNotMissed,
             ExitCodeIsRelayed, Watched, Recorded, Prepared
<1>1. CASE ForkChild
  BY <1>1 DEF ForkChild
<1>2. CASE RecordChild
  <2>0. /\ at["sentry"] = "record"
        /\ known' = known \cup {"child"}
        /\ down' = down \cup {p \in {"child"} : Ended(p)}
        /\ UNCHANGED <<plan, rings, answers, link, orderly, pidfile, setting>>
    BY <1>2 DEF RecordChild, Supervised
  <2>1. CASE status["child"] = "dump"
    <3>1. End("sentry", "dump") /\ UNCHANGED <<reaped, sig>>
      BY <1>2, <2>1, Zenon DEF RecordChild, Supervised
    <3>2. EndsAs("sentry", "dump")
      BY <3>1, EndIs
    <3>3. TypeOK'
      BY <2>0, <2>1, <3>1, <3>2 DEF EndsAs
    <3>4. Order' /\ Holding'
      BY <2>0, <2>1, <3>1, <3>2 DEF EndsAs
    <3>5. Anchored' /\ Guarded'
      BY <2>0, <2>1, <3>1, <3>2 DEF EndsAs
    <3>6. DeathIsNotMissed'
      BY <2>0, <2>1, <3>1, <3>2 DEF EndsAs
    <3>7. ExitCodeIsRelayed'
      BY <2>0, <2>1, <3>1, <3>2 DEF EndsAs
    <3>. QED  BY <3>3, <3>4, <3>5, <3>6, <3>7
  <2>2. CASE status["child"] # "dump"
    <3>1. Move("sentry", at["sentry"], "watch") /\ UNCHANGED <<watching, sigchld, bell, anchors>>
      BY <1>2, <2>2, Zenon DEF RecordChild, Supervised
    <3>3. TypeOK'
      BY <2>0, <2>2, <3>1 DEF Move
    <3>4. Order' /\ Holding'
      BY <2>0, <2>2, <3>1 DEF Move
    <3>5. Anchored' /\ Guarded'
      BY <2>0, <2>2, <3>1 DEF Move
    <3>6. DeathIsNotMissed'
      BY <2>0, <2>2, <3>1 DEF Move
    <3>7. ExitCodeIsRelayed'
      BY <2>0, <2>2, <3>1 DEF Move
    <3>. QED  BY <3>3, <3>4, <3>5, <3>6, <3>7
  <2>. QED  BY <2>1, <2>2
<1>3. CASE SentryWatches
  BY <1>3 DEF SentryWatches, Move
<1>4. CASE AnnouncePidFile
  BY <1>4 DEF AnnouncePidFile, Move
<1>5. CASE FindActive
  BY <1>5 DEF FindActive, Move
<1>6. CASE ForkUmbilical
  BY <1>6 DEF ForkUmbilical
<1>7. CASE UmbilicalForked
  BY <1>7 DEF UmbilicalForked, Move
<1>8. CASE UmbilicalFails
  <2>1. EndsAs("sentry", "fail")
    BY <1>8, EndIs DEF UmbilicalFails
  <2>. QED  BY <1>8, <2>1 DEF UmbilicalFails, EndsAs
<1>9. CASE AdoptUmbilical
  <2>0. /\ at["sentry"] = "adopt"
        /\ known' = known \cup {"umbilical"}
        /\ down' = down \cup {p \in {"child", "umbilical"} : Ended(p)}
        /\ UNCHANGED <<plan, rings, answers, link, orderly, pidfile, setting>>
    BY <1>9 DEF AdoptUmbilical, Supervised
  <2>1. CASE status["child"] = "dump"
    <3>1. End("sentry", "dump") /\ UNCHANGED <<reaped, sig>>
      BY <1>9, <2>1, Zenon DEF AdoptUmbilical, Supervised
    <3>2. EndsAs("sentry", "dump")
      BY <3>1, EndIs
    <3>3. TypeOK'
      BY <2>0, <2>1, <3>1, <3>2 DEF EndsAs
    <3>4. Order' /\ Holding'
      BY <2>0, <2>1, <3>1, <3>2 DEF EndsAs
    <3>5. Anchored' /\ Guarded'
      BY <2>0, <2>1, <3>1, <3>2 DEF EndsAs
    <3>6. DeathIsNotMissed'
      BY <2>0, <2>1, <3>1, <3>2 DEF EndsAs
    <3>7. ExitCodeIsRelayed'
      BY <2>0, <2>1, <3>1, <3>2 DEF EndsAs
    <3>. QED  BY <3>3, <3>4, <3>5, <3>6, <3>7
  <2>2. CASE status["child"] # "dump"
    <3>1. Move("sentry", at["sentry"], "ring") /\ UNCHANGED <<watching, sigchld, bell, anchors>>
      BY <1>9, <2>2, Zenon DEF AdoptUmbilical, Supervised
    <3>3. TypeOK'
      BY <2>0, <2>2, <3>1 DEF Move
    <3>4. Order' /\ Holding'
      BY <2>0, <2>2, <3>1 DEF Move
    <3>5. Anchored' /\ Guarded'
      BY <2>0, <2>2, <3>1 DEF Move
    <3>6. DeathIsNotMissed'
      BY <2>0, <2>2, <3>1 DEF Move
    <3>7. ExitCodeIsRelayed'
      BY <2>0, <2>2, <3>1 DEF Move
    <3>. QED  BY <3>3, <3>4, <3>5, <3>6, <3>7
  <2>. QED  BY <2>1, <2>2
<1>10. CASE RingChild
  BY <1>10 DEF RingChild, Ring, Move
<1>11. CASE HearChild
  BY <1>11 DEF HearChild, Move
<1>12. CASE ReleaseChild
  BY <1>12 DEF ReleaseChild, Ring, Move
<1>13. CASE ChildExecuted
  <2>1. bell' \in BOOLEAN
    BY <1>13 DEF ChildExecuted
  <2>. QED  BY <1>13, <2>1 DEF ChildExecuted, Move
<1>. QED
  BY <1>1, <1>2, <1>3, <1>4, <1>5, <1>6, <1>7, <1>8, <1>9, <1>10, <1>11, <1>12, <1>13

\* The sentry as it monitors and ends the family.
LEMMA EndKeeps ==
  ASSUME IInv, \/ MonitorDone \/ StopUmbilical \/ UmbilicalStopped \/ CleanGroup
         \/ RemovePidFile \/ SentryUnwatches \/ SentryReaps \/ SentryExits
         \/ Abandon \/ Detach \/ Slay \/ Bury
         \/ CallFails \/ Ping \/ NoticeLoss \/ Supervise
  PROVE  IInv'
<1>. USE DEF IInv, TypeOK, Order, Holding, Anchored, Guarded, DeathIsNotMissed,
             ExitCodeIsRelayed, Watched, Recorded, Prepared
<1>1. CASE MonitorDone
  BY <1>1 DEF MonitorDone, Move
<1>2. CASE StopUmbilical
  <2>0. UNCHANGED <<held, sync, orderly, anchors, pidfile, setting>>
    BY <1>2 DEF StopUmbilical
  <2>1. CASE Ended("umbilical")
    <3>1. Move("sentry", "stop", "group") /\ UNCHANGED link
      BY <1>2, <2>1, Zenon DEF StopUmbilical
    <3>. QED  BY <1>2, <2>1, <3>1, <2>0 DEF Move
  <2>2. CASE ~Ended("umbilical")
    <3>1. Move("sentry", "stop", "drain") /\ link' = link \cup {"close"}
      BY <1>2, <2>2, Zenon DEF StopUmbilical
    <3>. QED  BY <1>2, <2>2, <3>1, <2>0 DEF Move
  <2>. QED  BY <2>1, <2>2
<1>3. CASE UmbilicalStopped
  BY <1>3 DEF UmbilicalStopped, Move
<1>4. CASE CleanGroup
  BY <1>4 DEF CleanGroup, Send, ChildGroup
<1>5. CASE RemovePidFile
  BY <1>5 DEF RemovePidFile, Move
<1>6. CASE SentryUnwatches
  BY <1>6 DEF SentryUnwatches, Move
<1>7. CASE SentryReaps
  BY <1>7 DEF SentryReaps, ReapChild
<1>8. CASE SentryExits
  <2>1. EndsAs("sentry", status["child"])
    BY <1>8, EndIs DEF SentryExits
  <2>. QED  BY <1>8, <2>1 DEF SentryExits, EndsAs
<1>9. CASE Abandon
  <2>1. bell' \in BOOLEAN
    BY <1>9 DEF Abandon
  <2>. QED  BY <1>9, <2>1 DEF Abandon, Move
<1>10. CASE Detach
  BY <1>10 DEF Detach, Move
<1>11. CASE Slay
  BY <1>11 DEF Slay, Send
<1>12. CASE Bury
  <2>1. EndsAs("sentry", "fail")
    BY <1>12, EndIs DEF Bury
  <2>. QED  BY <1>12, <2>1 DEF Bury, EndsAs
<1>13. CASE CallFails
  BY <1>13 DEF CallFails, Happens, Move
<1>14. CASE Ping
  BY <1>14 DEF Ping
<1>15. CASE NoticeLoss
  BY <1>15 DEF NoticeLoss
<1>16. CASE Supervise
  <2>0. /\ at["sentry"] \notin {"reap", "finish", "slay", "bury", "ended"}
        /\ down' = down \cup {p \in known \cap {"child", "umbilical"} : Ended(p)}
        /\ UNCHANGED <<known, plan, rings, answers, link, orderly, pidfile, setting>>
    BY <1>16 DEF Supervise
  <2>1. CASE "child" \in known /\ status["child"] = "dump"
    <3>1. End("sentry", "dump") /\ UNCHANGED <<reaped, sig>>
      BY <1>16, <2>1, Zenon DEF Supervise
    <3>2. EndsAs("sentry", "dump")
      BY <3>1, EndIs
    <3>3. TypeOK'
      BY <2>0, <2>1, <3>1, <3>2 DEF EndsAs
    <3>4. Order' /\ Holding'
      BY <2>0, <2>1, <3>1, <3>2 DEF EndsAs
    <3>5. Anchored' /\ Guarded'
      BY <2>0, <2>1, <3>1, <3>2 DEF EndsAs
    <3>6. DeathIsNotMissed'
      BY <2>0, <2>1, <3>1, <3>2 DEF EndsAs
    <3>7. ExitCodeIsRelayed'
      BY <2>0, <2>1, <3>1, <3>2 DEF EndsAs
    <3>. QED  BY <3>3, <3>4, <3>5, <3>6, <3>7
  <2>2. CASE ~("child" \in known /\ status["child"] = "dump")
    <3>1. sigchld' = FALSE /\ UNCHANGED <<processes, watching, bell, anchors>>
      BY <1>16, <2>2, Zenon DEF Supervise
    <3>3. TypeOK'
      BY <2>0, <2>2, <3>1 DEF Move
    <3>4. Order' /\ Holding'
      BY <2>0, <2>2, <3>1 DEF Move
    <3>5. Anchored' /\ Guarded'
      BY <2>0, <2>2, <3>1 DEF Move
    <3>6. DeathIsNotMissed'
      BY <2>0, <2>2, <3>1 DEF Move
    <3>7. ExitCodeIsRelayed'
      BY <2>0, <2>2, <3>1 DEF Move
    <3>. QED  BY <3>3, <3>4, <3>5, <3>6, <3>7
  <2>. QED  BY <2>1, <2>2
<1>. QED
  BY <1>1, <1>2, <1>3, <1>4, <1>5, <1>6, <1>7, <1>8, <1>9, <1>10, <1>11, <1>12, <1>13,
     <1>14, <1>15, <1>16

\* The child.
LEMMA ChildKeeps ==
  ASSUME IInv, ChildStep \/ ProgramForks \/ ProgramEnds
  PROVE  IInv'
<1>. USE DEF IInv, TypeOK, Order, Holding, Anchored, Guarded, DeathIsNotMissed,
             ExitCodeIsRelayed, Watched, Recorded, Prepared
<1>1. CASE ChildStarts
  BY <1>1 DEF ChildStarts, Move
<1>2. CASE ChildAnswers
  BY <1>2 DEF ChildAnswers, Move
<1>3. CASE ChildPrepares
  BY <1>3 DEF ChildPrepares, Move
<1>4. CASE ChildExecutes
  BY <1>4 DEF ChildExecutes, Move
<1>5. CASE ChildQuits
  <2>1. EndsAs("child", "fail")
    BY <1>5, EndIs DEF ChildQuits
  <2>. QED  BY <1>5, <2>1 DEF ChildQuits, EndsAs
<1>6. CASE ProgramForks
  BY <1>6 DEF ProgramForks
<1>7. CASE ProgramEnds
  <2>1. EndsAs("child", "ok")
    BY <1>7, EndIs DEF ProgramEnds
  <2>. QED  BY <1>7, <2>1 DEF ProgramEnds, EndsAs
<1>. QED
  BY <1>1, <1>2, <1>3, <1>4, <1>5, <1>6, <1>7 DEF ChildStep

\* The umbilical process.
LEMMA UmbilicalKeeps ==
  ASSUME IInv, UmbilicalStep
  PROVE  IInv'
<1>. USE DEF IInv, TypeOK, Order, Holding, Anchored, Guarded, DeathIsNotMissed,
             ExitCodeIsRelayed, Watched, Recorded, Prepared
<1>1. CASE AnchorChild
  <2>0. /\ at["umbilical"] = "child"
        /\ UNCHANGED <<known, down, plan, rings, answers, link, orderly, pidfile, setting>>
    BY <1>1 DEF AnchorChild, Anchor
  <2>1. CASE ChildPinned
    <3>1. /\ Move("umbilical", "child", "sentry") /\ anchors' = anchors \cup {"child"}
          /\ UNCHANGED <<watching, sigchld, bell>>
      BY <1>1, <2>1, Zenon DEF AnchorChild, Anchor
    <3>. QED  BY <1>1, <2>1, <3>1, <2>0 DEF Move
  <2>2. CASE ~ChildPinned
    <3>1. End("umbilical", "fail") /\ UNCHANGED <<reaped, sig>>
      BY <1>1, <2>2, Zenon DEF AnchorChild, Anchor
    <3>2. EndsAs("umbilical", "fail")
      BY <3>1, EndIs
    <3>. QED  BY <1>1, <2>2, <3>1, <3>2, <2>0 DEF EndsAs
  <2>. QED  BY <2>1, <2>2
<1>2. CASE AnchorSentry
  <2>0. /\ at["umbilical"] = "sentry"
        /\ UNCHANGED <<known, down, plan, rings, answers, link, orderly, pidfile, setting>>
    BY <1>2 DEF AnchorSentry, Anchor
  <2>1. CASE SentryPinned
    <3>1. /\ Move("umbilical", "sentry", "sync") /\ anchors' = anchors \cup {"sentry"}
          /\ UNCHANGED <<watching, sigchld, bell>>
      BY <1>2, <2>1, Zenon DEF AnchorSentry, Anchor
    <3>. QED  BY <1>2, <2>1, <3>1, <2>0 DEF Move
  <2>2. CASE ~SentryPinned
    <3>1. End("umbilical", "fail") /\ UNCHANGED <<reaped, sig>>
      BY <1>2, <2>2, Zenon DEF AnchorSentry, Anchor
    <3>2. EndsAs("umbilical", "fail")
      BY <3>1, EndIs
    <3>. QED  BY <1>2, <2>2, <3>1, <3>2, <2>0 DEF EndsAs
  <2>. QED  BY <2>1, <2>2
<1>3. CASE Synchronise
  BY <1>3 DEF Synchronise, Move
<1>4. CASE LinkDone
  BY <1>4 DEF LinkDone, Move
<1>5. CASE UmbilicalKillsChild
  BY <1>5 DEF UmbilicalKillsChild, Send, ChildGroup
<1>6. CASE UmbilicalEnds
  <2>1. EndsAs("umbilical", "ok")
    BY <1>6, EndIs DEF UmbilicalEnds, Send
  <2>. QED  BY <1>6, <2>1 DEF UmbilicalEnds, Send, EndsAs
<1>. QED
  BY <1>1, <1>2, <1>3, <1>4, <1>5, <1>6 DEF UmbilicalStep

\* Signals, and what comes from outside.
LEMMA OutsideKeeps ==
  ASSUME IInv, NEW p \in Proc, NEW s \in Deadly,
         \/ Terminate(s) \/ Die(p, s) \/ ProgramHandles(s)
         \/ p \in {"agent", "sentry"} /\ Forward(p, s)
         \/ p \in {"sentry", "child"} /\ Adopted(p)
         \/ Signal(p, s) \/ Kill(p) \/ ParentDies
  PROVE  IInv'
<1>. USE DEF IInv, TypeOK, Order, Holding, Anchored, Guarded, DeathIsNotMissed,
             ExitCodeIsRelayed, Watched, Recorded, Prepared
<1>1. CASE Terminate(s)
  BY <1>1 DEF Terminate, Send
<1>2. CASE Die(p, s)
  <2>1. EndsAs(p, Cause(s)) /\ Cause(s) \in Status \ {"none"}
    BY <1>2, EndIs DEF Die, Cause
  <2>3. TypeOK'
    BY <1>2, <2>1 DEF Die, EndsAs
  <2>4. Order' /\ Holding'
    BY <1>2, <2>1 DEF Die, EndsAs
  <2>5. Anchored' /\ Guarded'
    BY <1>2, <2>1 DEF Die, EndsAs
  <2>6. DeathIsNotMissed'
    BY <1>2, <2>1 DEF Die, EndsAs
  <2>7. ExitCodeIsRelayed'
    BY <1>2, <2>1 DEF Die, EndsAs
  <2>. QED  BY <2>3, <2>4, <2>5, <2>6, <2>7
<1>3. CASE ProgramHandles(s)
  BY <1>3 DEF ProgramHandles
<1>4. CASE p \in {"agent", "sentry"} /\ Forward(p, s)
  BY <1>4 DEF Forward, Ward
<1>5. CASE p \in {"sentry", "child"} /\ Adopted(p)
  BY <1>5 DEF Adopted
<1>6. CASE Signal(p, s)
  BY <1>6 DEF Signal, Send, Happens
<1>7. CASE Kill(p)
  BY <1>7 DEF Kill, Send, Happens
<1>8. CASE ParentDies
  <2>1. parent' \in BOOLEAN
    BY <1>8 DEF ParentDies
  <2>. QED  BY <1>8, <2>1 DEF ParentDies, Happens
<1>. QED
  BY <1>1, <1>2, <1>3, <1>4, <1>5, <1>6, <1>7, <1>8

LEMMA StepKeeps == IInv /\ [Next]_vars => IInv'
<1>. SUFFICES ASSUME IInv, [Next]_vars PROVE IInv'
  OBVIOUS
<1>1. CASE UNCHANGED vars
  BY <1>1 DEF vars, IInv, TypeOK, Order, Holding, Anchored, Guarded, DeathIsNotMissed,
              ExitCodeIsRelayed
<1>2. CASE Next
  BY <1>2, AgentKeeps, StartKeeps, EndKeeps, ChildKeeps, UmbilicalKeeps, OutsideKeeps
     DEF Next, SentryStep
<1>. QED  BY <1>1, <1>2

\* The inductive invariant of the family.
THEOREM Invariance == Spec => []IInv
BY InitKeeps, StepKeeps, PTL DEF Spec

\* Type correctness.
THEOREM TypeCorrect == Spec => []TypeOK
<1>1. IInv => TypeOK
  BY DEF IInv
<1>. QED  BY <1>1, Invariance, PTL

\* A signal is passed on to a process that is recorded and has not been reaped.
THEOREM SignalsFind == Spec => []SignalsFindTheirProcess
<1>1. IInv => SignalsFindTheirProcess
  BY DEF IInv, Holding, SignalsFindTheirProcess, Watched, Recorded
<1>. QED  BY <1>1, Invariance, PTL

\* A process group that is signalled has a member of the family.
THEOREM GroupsStayPinned == Spec => []GroupsArePinned
<1>1. IInv => GroupsArePinned
  BY DEF IInv, Order, Holding, Anchored, GroupsArePinned, ChildPinned, SentryPinned, Watched,
         Recorded, Prepared
<1>. QED  BY <1>1, Invariance, PTL

\* No end of a process is missed.
THEOREM DeathsAreSeen == Spec => []DeathIsNotMissed
<1>1. IInv => DeathIsNotMissed
  BY DEF IInv
<1>. QED  BY <1>1, Invariance, PTL

\* The exit code of the program is relayed.
THEOREM ExitCodes == Spec => []ExitCodeIsRelayed
<1>1. IInv => ExitCodeIsRelayed
  BY DEF IInv
<1>. QED  BY <1>1, Invariance, PTL

\* Nothing but ChildExecutes lets the program run.
LEMMA OnlyExecution ==
  ASSUME IInv, Next, at["child"] # "program", at'["child"] = "program"
  PROVE  ChildExecutes
<1>. USE DEF IInv, TypeOK
<1>1. at' # at
  OBVIOUS
<1>2. ASSUME NEW p \in Proc, NEW a, a # "program", at' = [at EXCEPT ![p] = a] PROVE FALSE
  BY <1>2
<1>3. ASSUME NEW p \in Proc, NEW s, End(p, s) PROVE FALSE
  BY <1>2, <1>3 DEF End
<1>4. ASSUME NEW p \in Proc, NEW a, NEW b, b # "program", Move(p, a, b) PROVE FALSE
  BY <1>2, <1>4 DEF Move
<1>5. CASE AgentStep \/ AgentOrphaned
  BY <1>1, <1>3, <1>4, <1>5 DEF AgentStep, AgentOrphaned, AgentForks, AgentWatches, AgentWaited,
          AgentUnwatches, AgentReaps, AgentExits
<1>6. CASE SentryStep \/ CallFails \/ Ping \/ NoticeLoss \/ Supervise
  <2>1. ASSUME NEW S, NEW to, to # "program", Supervised(S, to) PROVE FALSE
    BY <1>3, <1>4, <2>1 DEF Supervised
  <2>2. CASE \/ RecordChild \/ SentryWatches \/ AnnouncePidFile \/ FindActive
             \/ UmbilicalForked \/ UmbilicalFails \/ AdoptUmbilical
             \/ RingChild \/ HearChild \/ ReleaseChild \/ ChildExecuted
    BY <1>3, <1>4, <2>1, <2>2 DEF RecordChild, SentryWatches, AnnouncePidFile, FindActive,
            UmbilicalForked, UmbilicalFails, AdoptUmbilical, RingChild, Ring, HearChild,
            ReleaseChild, ChildExecuted
  <2>3. CASE \/ MonitorDone \/ StopUmbilical \/ UmbilicalStopped \/ RemovePidFile
             \/ SentryUnwatches \/ SentryExits \/ Abandon \/ Detach \/ Bury
    BY <1>3, <1>4, <2>3 DEF MonitorDone, StopUmbilical, UmbilicalStopped, RemovePidFile,
            SentryUnwatches, SentryExits, Abandon, Detach, Bury
  <2>4. CASE ForkChild \/ ForkUmbilical \/ CleanGroup \/ SentryReaps \/ Slay
    BY <2>4 DEF ForkChild, ForkUmbilical, CleanGroup, SentryReaps, ReapChild, Slay
  <2>5. CASE CallFails
    BY <1>4, <2>5 DEF CallFails
  <2>6. CASE Ping \/ NoticeLoss
    BY <1>1, <2>6 DEF Ping, NoticeLoss
  <2>7. CASE Supervise
    BY <1>1, <1>3, <2>7 DEF Supervise
  <2>. QED  BY <1>6, <2>2, <2>3, <2>4, <2>5, <2>6, <2>7 DEF SentryStep
<1>7. CASE \/ ChildStarts \/ ChildAnswers \/ ChildPrepares \/ ChildQuits \/ ProgramForks
           \/ ProgramEnds
  BY <1>2, <1>3, <1>4, <1>7 DEF ChildStarts, ChildAnswers, ChildPrepares, ChildQuits,
          ProgramForks, ProgramEnds
<1>8. CASE UmbilicalStep
  BY <1>2, <1>3, <1>4, <1>8 DEF UmbilicalStep, AnchorChild, AnchorSentry, Anchor, Synchronise,
          LinkDone, UmbilicalKillsChild, UmbilicalEnds
<1>9. ASSUME NEW p \in Proc, NEW s \in Deadly,
             \/ Terminate(s) \/ Die(p, s) \/ ProgramHandles(s) \/ Forward(p, s)
             \/ Adopted(p) \/ Signal(p, s) \/ Kill(p) \/ ParentDies
      PROVE  FALSE
  BY <1>1, <1>3, <1>9 DEF Terminate, Die, ProgramHandles, Forward, Adopted, Signal, Kill,
          ParentDies
<1>. QED  BY <1>5, <1>6, <1>7, <1>8, <1>9 DEF Next, ChildStep

\* The program is executed when the pidfile is there, and the umbilical process with its
\* anchors has been there.
THEOREM ProgramsAreGuarded == Spec => ProgramIsGuarded
<1>1. IInv /\ [Next]_vars
        => [at["child"] # "program" /\ at'["child"] = "program"
              => /\ pidfile # "none"
                 /\ anchors = {"child", "sentry"} \/ Ended("umbilical")]_vars
  <2>. SUFFICES ASSUME IInv, Next, at["child"] # "program", at'["child"] = "program"
                PROVE  /\ pidfile # "none"
                       /\ anchors = {"child", "sentry"} \/ Ended("umbilical")
    OBVIOUS
  <2>1. rings > 0
    BY OnlyExecution DEF ChildExecutes
  <2>2. pidfile # "none" /\ at["umbilical"] \in Prepared \cup {"ended"}
    BY <2>1 DEF IInv, Guarded
  <2>3. ASSUME at["umbilical"] \in Prepared PROVE anchors = {"child", "sentry"}
    <3>1. "child" \in anchors /\ "sentry" \in anchors /\ anchors \subseteq {"child", "sentry"}
      BY <2>3 DEF IInv, TypeOK, Anchored
    <3>. QED  BY <3>1
  <2>. QED  BY <2>2, <2>3
<1>. QED  BY <1>1, Invariance, PTL DEF Spec, ProgramIsGuarded

=============================================================================
