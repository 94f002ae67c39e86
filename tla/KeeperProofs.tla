---------------------------- MODULE KeeperProofs ----------------------------
(***************************************************************************)
(* Proofs about Keeper for any set of clients, whatever they are, and any  *)
(* number of faults.                                                       *)
(*                                                                         *)
(* Only a keeper that accepts the signature acknowledges, so that whoever  *)
(* is acknowledged is connected to the keeper of the program; a keeper     *)
(* closes its connections as it ends, and as long as it has not ended it   *)
(* has its anchor in the group of the child.                               *)
(***************************************************************************)
EXTENDS Keeper, TLAPS

USE KeeperAssumption
    DEF Sorts, Faults, Keepers, Parts, SentryPlace, KeeperPlace, Locked, Final,
        ClientPlace, At, Queue, Served, Refs, Expired

\* A client without a connection has nothing to lose.
Connected ==
  \A c \in Client :
    /\ conn[c] = "none" => ~tether[c] /\ ~ack[c]
    /\ pc[c] \in {"idle", "open", "read"} => conn[c] = "none" /\ sent[c] = 0
    /\ pc[c] = "send" => sent[c] < Parts

\* A keeper whose handler is at work has somebody to serve; it is there as long as its
\* connections are.
Serving ==
  \A s \in Keepers :
    /\ at[s] \in {"receive", "acknowledge", "enqueue"} => Served(s) # {}
    /\ at[s] \in {"absent", "ended"} => Served(s) = {} /\ Refs(s) = {}

\* The keeper of another program acknowledges nobody.
OwnOnly == at["other"] \notin {"acknowledge", "enqueue"}

\* Whoever is acknowledged is connected to the keeper of the program, or was.
Acknowledged ==
  \A c \in Client :
    ack[c] \/ (pc[c] \in {"fork", "command"} /\ tether[c])
      => host[c] = "own" /\ conn[c] \in {"served", "held", "closed"}

\* References are polled.
Polling == \A s \in Keepers \ broken : Refs(s) # {} => polled[s]

IInv == TypeOK /\ Connected /\ Serving /\ OwnOnly /\ Acknowledged /\ Polling

----------------------------------------------------------------------------

\* The keeper of the program is the only one that has its signature.
LEMMA SignatureIsUnique == rankPidSignature(Signature("other"), Signature("own")) # 0
BY DEF rankPidSignature, Signature

LEMMA InitKeeps == Init => IInv
BY DEF Init, IInv, TypeOK, Connected, Serving, OwnOnly, Acknowledged, Polling

\* A step that leaves the clients and their connections alone, and every place of the
\* keepers but at most that of a keeper that starts to poll.
LEMMA SentrySideKeeps ==
  ASSUME IInv,
         \/ SentryStep \/ DrainExpired \/ ChildEnds \/ KillSentry \/ OrphanReaped
         \/ Synchronise \/ AddressReused
  PROVE  IInv'
<1>. USE DEF IInv, TypeOK, Connected, Serving, OwnOnly, Acknowledged, Polling, program, keeper,
             wire
<1>1. CASE SentryMonitors
  BY <1>1 DEF SentryMonitors, Drop
<1>2. CASE SentryStops
  BY <1>2 DEF SentryStops
<1>3. CASE UmbilicalStopped
  BY <1>3 DEF UmbilicalStopped
<1>4. CASE RemovePidFile
  <2>1. sentry' = "reap" /\ pidfile' \in BOOLEAN
    BY <1>4 DEF RemovePidFile
  <2>2. UNCHANGED <<mode, child, link, keeper, pc, wire, faults, broken>>
    BY <1>4 DEF RemovePidFile
  <2>. QED  BY <2>1, <2>2
<1>5. CASE ReapChild
  BY <1>5 DEF ReapChild
<1>6. CASE DrainExpired
  BY <1>6 DEF DrainExpired, Happens
<1>7. CASE ChildEnds
  BY <1>7 DEF ChildEnds
<1>8. CASE KillSentry
  BY <1>8 DEF KillSentry, Drop, Happens
<1>9. CASE OrphanReaped
  BY <1>9 DEF OrphanReaped
<1>10. CASE Synchronise
  <2>1. PICK open \in {TRUE, link # "closed"} :
          accepting' = [accepting EXCEPT !["own"] = open]
    BY <1>10 DEF Synchronise
  <2>2. open \in BOOLEAN
    BY Zenon
  <2>3. accepting' \in [Keepers -> BOOLEAN]
    BY <2>1, <2>2
  <2>4. /\ at["own"] = "sync" /\ at' = [at EXCEPT !["own"] = "poll"]
        /\ UNCHANGED <<mode, program, turn, polled, pc, wire, faults, broken>>
    BY <1>10 DEF Synchronise
  <2>. QED  BY <2>3, <2>4
<1>11. CASE AddressReused
  BY <1>11 DEF AddressReused, Listening
<1>. QED
  BY <1>1, <1>2, <1>3, <1>4, <1>5, <1>6, <1>7, <1>8, <1>9, <1>10, <1>11 DEF SentryStep

\* A keeper that ends closes its connections.
LEMMA EndsKeeps ==
  ASSUME IInv, NEW s \in Keepers, Ends(s),
         UNCHANGED <<mode, sentry, pidfile, link, accepting, polled, pc, host, sent, tether,
                     ack>>,
         child' \in {"running", "dead", "reaped"}, faults' \in 0..MaxFaults,
         broken \subseteq broken', broken' \subseteq Keepers
  PROVE  IInv'
<1>1. TypeOK' /\ Connected' /\ OwnOnly'
  BY DEF IInv, TypeOK, Connected, OwnOnly, Ends, Drop
<1>2. Serving'
  BY DEF IInv, TypeOK, Serving, Ends, Drop
<1>3. Acknowledged' /\ Polling'
  BY DEF IInv, TypeOK, Acknowledged, Polling, Ends, Drop
<1>. QED  BY <1>1, <1>2, <1>3 DEF IInv

LEMMA KeeperSideKeeps ==
  ASSUME IInv, NEW s \in Keepers, KeeperStep(s) \/ CleanFails(s) \/ KillKeeper(s)
  PROVE  IInv'
<1>. USE DEF program, keeper, wire
<1>1. CASE Poll(s)
  BY <1>1 DEF IInv, TypeOK, Connected, Serving, OwnOnly, Acknowledged, Polling, Poll, Reported
<1>2. CASE CloseLink(s)
  BY <1>2 DEF IInv, TypeOK, Connected, Serving, OwnOnly, Acknowledged, Polling, CloseLink,
              Serve
<1>3. CASE Accept(s)
  <2>1. PICK c \in Queue(s) : conn' = [conn EXCEPT ![c] = "served"]
    BY <1>3 DEF Accept
  <2>2. TypeOK' /\ Connected' /\ OwnOnly'
    BY <1>3, <2>1 DEF IInv, TypeOK, Connected, OwnOnly, Accept, Serve
  <2>3. Serving'
    BY <1>3, <2>1 DEF IInv, TypeOK, Serving, Accept, Serve
  <2>4. Acknowledged' /\ Polling'
    BY <1>3, <2>1 DEF IInv, TypeOK, Acknowledged, Polling, Accept, Serve
  <2>. QED  BY <2>2, <2>3, <2>4 DEF IInv
<1>4. CASE Receive(s)
  <2>1. s # "other"
    BY <1>4, SignatureIsUnique DEF IInv, Serving, Receive
  <2>. QED
    BY <1>4, <2>1 DEF IInv, TypeOK, Connected, Serving, OwnOnly, Acknowledged, Polling, Receive
<1>5. CASE Acknowledge(s)
  <2>1. s = "own"
    BY <1>5 DEF IInv, OwnOnly, Acknowledge
  <2>2. TypeOK' /\ Connected' /\ Serving'
    BY <1>5 DEF IInv, TypeOK, Connected, Serving, Acknowledge
  <2>3. OwnOnly' /\ Acknowledged' /\ Polling'
    BY <1>5, <2>1 DEF IInv, TypeOK, OwnOnly, Acknowledged, Polling, Acknowledge
  <2>. QED  BY <2>2, <2>3 DEF IInv
<1>6. CASE Enqueue(s)
  <2>1. TypeOK' /\ Connected' /\ OwnOnly'
    BY <1>6 DEF IInv, TypeOK, Connected, OwnOnly, Enqueue
  <2>2. Serving' /\ Acknowledged' /\ Polling'
    BY <1>6 DEF IInv, TypeOK, Serving, Acknowledged, Polling, Enqueue
  <2>. QED  BY <2>1, <2>2 DEF IInv
<1>7. CASE Refuse(s)
  <2>1. CASE Ends(s) /\ broken' = broken \cup {s}
    BY <1>7, <2>1, EndsKeeps DEF Refuse, IInv, TypeOK
  <2>2. CASE /\ at' = [at EXCEPT ![s] = "poll"]
             /\ Drop(s, {"served"})
             /\ UNCHANGED <<turn, broken>>
    <3>1. TypeOK' /\ Connected' /\ OwnOnly'
      BY <1>7, <2>2 DEF IInv, TypeOK, Connected, OwnOnly, Refuse, Drop
    <3>2. Serving' /\ Acknowledged' /\ Polling'
      BY <1>7, <2>2 DEF IInv, TypeOK, Serving, Acknowledged, Polling, Refuse, Drop
    <3>. QED  BY <3>1, <3>2 DEF IInv
  <2>. QED  BY <1>7, <2>1, <2>2 DEF Refuse
<1>8. CASE Clean(s)
  <2>1. PICK S \in SUBSET Expired(s) \ {{}} :
          /\ conn' = [c \in Client |-> IF c \in S THEN "closed" ELSE conn[c]]
          /\ polled' = [polled EXCEPT ![s] = (Refs(s) # S)]
    BY <1>8 DEF Clean
  <2>2. TypeOK' /\ Connected' /\ OwnOnly'
    BY <1>8, <2>1 DEF IInv, TypeOK, Connected, OwnOnly, Clean, Serve
  <2>3. Serving' /\ Acknowledged'
    BY <1>8, <2>1 DEF IInv, TypeOK, Serving, Acknowledged, Clean, Serve
  <2>4. Polling'
    BY <1>8, <2>1 DEF IInv, TypeOK, Polling, Clean, Serve
  <2>. QED  BY <2>2, <2>3, <2>4 DEF IInv
<1>9. CASE LoopDone(s)
  BY <1>9, EndsKeeps DEF LoopDone, IInv, TypeOK
<1>10. CASE CleanFails(s)
  BY <1>10 DEF IInv, TypeOK, Connected, Serving, OwnOnly, Acknowledged, Polling, CleanFails,
               Serve, Happens
<1>11. CASE KillKeeper(s)
  <2>1. faults' \in 0..MaxFaults
    BY <1>11 DEF KillKeeper, Happens, IInv, TypeOK
  <2>2. child' \in {"running", "dead", "reaped"} /\ broken' \subseteq Keepers
    BY <1>11 DEF KillKeeper, IInv, TypeOK
  <2>. QED  BY <1>11, <2>1, <2>2, EndsKeeps DEF KillKeeper
<1>. QED
  BY <1>1, <1>2, <1>3, <1>4, <1>5, <1>6, <1>7, <1>8, <1>9, <1>10, <1>11 DEF KeeperStep

LEMMA ClientSideKeeps ==
  ASSUME IInv, NEW c \in Client,
         ClientStep(c) \/ ForkFails(c) \/ CommandFails(c) \/ CommandSucceeds(c) \/ KillClient(c)
  PROVE  IInv'
<1>. USE DEF IInv, TypeOK, Connected, Serving, OwnOnly, Acknowledged, Polling, program, keeper,
             wire, Goes, Unreferenced
<1>1. CASE OpenPidFile(c)
  BY <1>1 DEF OpenPidFile
<1>2. CASE ReadPidFile(c)
  BY <1>2 DEF ReadPidFile
<1>3. ASSUME NEW s \in Keepers, Connect(c, s) PROVE IInv'
  BY <1>3 DEF Connect, Listening
<1>4. CASE ConnectFails(c)
  BY <1>4 DEF ConnectFails, GivesUp
<1>5. CASE SendPart(c)
  BY <1>5 DEF SendPart
<1>6. CASE SendFails(c)
  BY <1>6 DEF SendFails, GivesUp
<1>7. CASE ReadAck(c)
  BY <1>7 DEF ReadAck
<1>8. CASE ReadFails(c)
  BY <1>8 DEF ReadFails, GivesUp
<1>9. CASE ForkCommand(c)
  BY <1>9 DEF ForkCommand
<1>10. CASE ForkFails(c)
  BY <1>10 DEF ForkFails, GivesUp
<1>11. CASE CommandFails(c)
  BY <1>11 DEF CommandFails
<1>12. CASE CommandSucceeds(c)
  BY <1>12 DEF CommandSucceeds
<1>13. CASE KillClient(c)
  BY <1>13 DEF KillClient, Happens
<1>. QED
  BY <1>1, <1>2, <1>3, <1>4, <1>5, <1>6, <1>7, <1>8, <1>9, <1>10, <1>11, <1>12, <1>13
     DEF ClientStep

LEMMA StepKeeps == IInv /\ [Next]_vars => IInv'
<1>. SUFFICES ASSUME IInv, [Next]_vars PROVE IInv'
  OBVIOUS
<1>1. CASE UNCHANGED vars
  BY <1>1 DEF vars, program, keeper, wire, IInv, TypeOK, Connected, Serving, OwnOnly,
              Acknowledged, Polling
<1>2. CASE Next
  BY <1>2, SentrySideKeeps, KeeperSideKeeps, ClientSideKeeps DEF Next
<1>. QED  BY <1>1, <1>2

\* The inductive invariant of the references.
THEOREM Invariance == Spec => []IInv
BY InitKeeps, StepKeeps, PTL DEF Spec

\* Type correctness.
THEOREM TypeCorrect == Spec => []TypeOK
<1>1. IInv => TypeOK
  BY DEF IInv
<1>. QED  BY <1>1, Invariance, PTL

----------------------------------------------------------------------------

\* A client whose command succeeds has either run it without a reference, or seen that
\* the connection was still open.
LEMMA SuccessIsChecked ==
  ASSUME IInv, Next, NEW c \in Client, pc[c] = "command", pc'[c] = "ok", tether[c]
  PROVE  conn[c] # "closed"
<1>. USE DEF IInv, TypeOK, program, keeper, wire
<1>1. ASSUME UNCHANGED pc PROVE FALSE
  BY <1>1
<1>2. CASE \/ SentryStep \/ DrainExpired \/ ChildEnds \/ KillSentry \/ OrphanReaped
           \/ Synchronise \/ AddressReused
  BY <1>1, <1>2 DEF SentryStep, SentryMonitors, SentryStops, UmbilicalStopped, RemovePidFile,
                    ReapChild, DrainExpired, ChildEnds, KillSentry, OrphanReaped, Synchronise,
                    AddressReused
<1>3. ASSUME NEW s \in Keepers, KeeperStep(s) \/ CleanFails(s) \/ KillKeeper(s) PROVE FALSE
  BY <1>1, <1>3 DEF KeeperStep, Poll, CloseLink, Accept, Receive, Acknowledge, Enqueue, Refuse,
                    Clean, LoopDone, CleanFails, KillKeeper
<1>4. ASSUME NEW d \in Client, ClientStep(d) \/ ForkFails(d) \/ CommandFails(d) \/ KillClient(d)
      PROVE  FALSE
  BY <1>4 DEF ClientStep, ForkFails, CommandFails, KillClient, OpenPidFile, ReadPidFile, Connect,
              ConnectFails, SendPart, SendFails, ReadAck, ReadFails, ForkCommand, GivesUp, Goes,
              Unreferenced
<1>5. ASSUME NEW d \in Client, CommandSucceeds(d) PROVE conn[c] # "closed"
  BY <1>5 DEF CommandSucceeds, Goes
<1>. QED  BY <1>2, <1>3, <1>4, <1>5 DEF Next

\* A command that succeeds was referenced by the keeper of its program to its end, which
\* has its anchor in the group of the child.
THEOREM SuccessIsReferenced == Spec => SuccessMeansReference
<1>1. IInv /\ [Next]_vars
        => [\A c \in Client :
              pc[c] = "command" /\ pc'[c] = "ok" /\ tether[c]
                => Pinned /\ c \in Refs("own") \cup Served("own")]_vars
  <2>. SUFFICES ASSUME IInv, Next, NEW c \in Client,
                       pc[c] = "command", pc'[c] = "ok", tether[c]
                PROVE  Pinned /\ c \in Refs("own") \cup Served("own")
    OBVIOUS
  <2>1. conn[c] # "closed"
    BY SuccessIsChecked
  <2>2. c \in Refs("own") \cup Served("own")
    BY <2>1 DEF IInv, Acknowledged
  <2>3. at["own"] # "ended"
    BY <2>2 DEF IInv, Serving
  <2>. QED  BY <2>2, <2>3 DEF Pinned
<1>. QED  BY <1>1, Invariance, PTL DEF Spec, SuccessMeansReference

\* No keeper drops a reference that is held, unless it is killed or its loop has failed.
THEOREM ReferencesAreHeld == Spec => ReferencesHoldKeeper
<1>1. IInv /\ [Next]_vars
        => [\A s \in Keepers \ broken' : \A c \in Refs(s) : conn'[c] = "closed" => ~tether[c]]_vars
  <2>. SUFFICES ASSUME IInv, Next, NEW s \in Keepers \ broken', NEW c \in Refs(s),
                       conn'[c] = "closed"
                PROVE  ~tether[c]
    OBVIOUS
  <2>. USE DEF IInv, TypeOK, program, keeper, wire
  <2>1. ASSUME UNCHANGED conn PROVE FALSE
    BY <2>1
  <2>2. CASE \/ SentryStep \/ DrainExpired \/ ChildEnds \/ KillSentry \/ OrphanReaped
             \/ Synchronise \/ AddressReused
    BY <2>1, <2>2 DEF SentryStep, SentryMonitors, SentryStops, UmbilicalStopped, RemovePidFile,
                      ReapChild, DrainExpired, ChildEnds, KillSentry, OrphanReaped, Synchronise,
                      AddressReused, Drop
  <2>3. ASSUME NEW t \in Keepers, KeeperStep(t) \/ CleanFails(t) \/ KillKeeper(t)
        PROVE  ~tether[c]
    <3>1. CASE \/ Poll(t) \/ CloseLink(t) \/ Receive(t) \/ Acknowledge(t) \/ CleanFails(t)
      BY <2>1, <3>1 DEF Poll, CloseLink, Receive, Acknowledge, CleanFails
    <3>2. CASE Accept(t)
      BY <3>2 DEF Accept
    <3>3. CASE Enqueue(t)
      BY <3>3 DEF Enqueue
    <3>4. CASE Refuse(t)
      BY <3>4 DEF Refuse, Ends, Drop
    <3>5. CASE Clean(t)
      BY <3>5 DEF Clean
    <3>6. CASE LoopDone(t)
      BY <3>6 DEF LoopDone, Complete, Polling, Ends, Drop
    <3>7. CASE KillKeeper(t)
      BY <3>7 DEF KillKeeper, Ends, Drop
    <3>. QED  BY <2>3, <3>1, <3>2, <3>3, <3>4, <3>5, <3>6, <3>7 DEF KeeperStep
  <2>4. ASSUME NEW d \in Client,
               \/ ClientStep(d) \/ ForkFails(d) \/ CommandFails(d) \/ CommandSucceeds(d)
               \/ KillClient(d)
        PROVE  FALSE
    <3>1. ASSUME NEW t \in Keepers, Connect(d, t) PROVE FALSE
      BY <3>1 DEF Connect
    <3>. QED
      BY <2>1, <2>4, <3>1 DEF ClientStep, ForkFails, CommandFails, CommandSucceeds, KillClient,
              OpenPidFile, ReadPidFile, ConnectFails, SendPart, SendFails, ReadAck, ReadFails,
              ForkCommand, GivesUp
  <2>. QED  BY <2>2, <2>3, <2>4 DEF Next
<1>. QED  BY <1>1, Invariance, PTL DEF Spec, ReferencesHoldKeeper

----------------------------------------------------------------------------
\* Keeper implements Tenure.

\* A keeper serves one client at a time, and none between two turns of its loop; the
\* client that it serves knows nothing until it is acknowledged.
OneAtATime ==
  \A s \in Keepers :
    /\ at[s] \notin {"receive", "acknowledge", "enqueue"} => Served(s) = {}
    /\ \A c, d \in Served(s) : c = d
    /\ at[s] \in {"receive", "acknowledge"} =>
         \A c \in Served(s) : ~ack[c] /\ ~(pc[c] \in {"fork", "command"} /\ tether[c])

\* A client closes its connection at its end, and not before.
Tethered ==
  \A c \in Client : ~tether[c] /\ conn[c] # "none" => pc[c] \in Final

Holding == OneAtATime /\ Tethered

LEMMA HoldingInit == Init => Holding
BY DEF Init, Holding, OneAtATime, Tethered

\* The sentry, and what becomes of the addresses.
LEMMA SentrySideHolds ==
  ASSUME IInv, Holding,
         \/ SentryStep \/ DrainExpired \/ ChildEnds \/ KillSentry \/ OrphanReaped
         \/ Synchronise \/ AddressReused
  PROVE  Holding'
<1>1. /\ UNCHANGED <<pc, host, sent, tether, ack>>
      /\ conn' = conn \/ Drop("own", {"queued"})
      /\ \/ at' = at
         \/ at["own"] = "sync" /\ at' = [at EXCEPT !["own"] = "poll"]
         \/ at["other"] = "absent" /\ at' = [at EXCEPT !["other"] = "poll"]
  BY DEF SentryStep, SentryMonitors, SentryStops, UmbilicalStopped, RemovePidFile, ReapChild,
         DrainExpired, ChildEnds, KillSentry, OrphanReaped, Synchronise, AddressReused, program,
         keeper, wire
<1>2. \A c \in Client : conn'[c] = conn[c] \/ (conn[c] = "queued" /\ conn'[c] = "closed")
  BY <1>1 DEF Drop, IInv, TypeOK
<1>. QED
  BY <1>1, <1>2 DEF IInv, TypeOK, Holding, OneAtATime, Tethered

LEMMA EndsHolds ==
  ASSUME IInv, Holding, NEW s \in Keepers, Ends(s), UNCHANGED <<pc, host, sent, tether, ack>>
  PROVE  Holding'
BY DEF IInv, TypeOK, Holding, OneAtATime, Tethered, Ends, Drop

LEMMA KeeperSideHolds ==
  ASSUME IInv, Holding, NEW s \in Keepers, KeeperStep(s) \/ CleanFails(s) \/ KillKeeper(s)
  PROVE  Holding'
<1>. USE DEF IInv, TypeOK, Holding, OneAtATime, Tethered, program, keeper, wire
<1>1. CASE Poll(s) \/ CloseLink(s) \/ CleanFails(s)
  BY <1>1 DEF Poll, CloseLink, CleanFails
<1>2. CASE Accept(s)
  <2>1. PICK c \in Queue(s) : conn' = [conn EXCEPT ![c] = "served"]
    BY <1>2 DEF Accept
  <2>2. /\ at[s] = "poll" /\ at' = [at EXCEPT ![s] = "receive"]
        /\ UNCHANGED <<pc, host, sent, tether, ack>>
    BY <1>2 DEF Accept, Serve
  <2>3. ~ack[c] /\ ~(pc[c] \in {"fork", "command"} /\ tether[c])
    BY <2>1 DEF Acknowledged
  <2>. QED  BY <2>1, <2>2, <2>3
<1>3. CASE Receive(s)
  BY <1>3 DEF Receive
<1>4. CASE Acknowledge(s)
  BY <1>4 DEF Acknowledge
<1>5. CASE Enqueue(s)
  BY <1>5 DEF Enqueue
<1>6. CASE Refuse(s)
  <2>1. CASE Ends(s)
    BY <1>6, <2>1, EndsHolds DEF Refuse
  <2>2. CASE at' = [at EXCEPT ![s] = "poll"] /\ Drop(s, {"served"})
    BY <1>6, <2>2 DEF Refuse, Drop
  <2>. QED  BY <1>6, <2>1, <2>2 DEF Refuse
<1>7. CASE Clean(s)
  <2>1. PICK S \in SUBSET Expired(s) \ {{}} :
          conn' = [c \in Client |-> IF c \in S THEN "closed" ELSE conn[c]]
    BY <1>7 DEF Clean
  <2>2. UNCHANGED <<at, pc, host, sent, tether, ack>>
    BY <1>7 DEF Clean
  <2>. QED  BY <2>1, <2>2
<1>8. CASE LoopDone(s)
  BY <1>8, EndsHolds DEF LoopDone
<1>9. CASE KillKeeper(s)
  BY <1>9, EndsHolds DEF KillKeeper
<1>. QED
  BY <1>1, <1>2, <1>3, <1>4, <1>5, <1>6, <1>7, <1>8, <1>9 DEF KeeperStep

LEMMA ClientSideHolds ==
  ASSUME IInv, Holding, NEW c \in Client,
         ClientStep(c) \/ ForkFails(c) \/ CommandFails(c) \/ CommandSucceeds(c) \/ KillClient(c)
  PROVE  Holding'
<1>. USE DEF IInv, TypeOK, Connected, Holding, OneAtATime, Tethered, program, keeper, wire, Goes,
             Unreferenced
<1>1. CASE OpenPidFile(c) \/ ReadPidFile(c)
  BY <1>1 DEF OpenPidFile, ReadPidFile
<1>2. ASSUME NEW s \in Keepers, Connect(c, s) PROVE Holding'
  BY <1>2 DEF Connect
<1>3. CASE ConnectFails(c) \/ SendFails(c) \/ ReadFails(c) \/ ForkFails(c)
  BY <1>3 DEF ConnectFails, SendFails, ReadFails, ForkFails, GivesUp
<1>4. CASE SendPart(c)
  BY <1>4 DEF SendPart
<1>5. CASE ReadAck(c)
  BY <1>5 DEF ReadAck
<1>6. CASE ForkCommand(c)
  BY <1>6 DEF ForkCommand
<1>7. CASE CommandFails(c) \/ CommandSucceeds(c)
  BY <1>7 DEF CommandFails, CommandSucceeds
<1>8. CASE KillClient(c)
  BY <1>8 DEF KillClient
<1>. QED
  BY <1>1, <1>2, <1>3, <1>4, <1>5, <1>6, <1>7, <1>8 DEF ClientStep

LEMMA HoldingStep == IInv /\ Holding /\ [Next]_vars => Holding'
<1>. SUFFICES ASSUME IInv, Holding, [Next]_vars PROVE Holding'
  OBVIOUS
<1>1. CASE UNCHANGED vars
  BY <1>1 DEF vars, keeper, wire, Holding, OneAtATime, Tethered
<1>2. CASE Next
  BY <1>2, SentrySideHolds, KeeperSideHolds, ClientSideHolds DEF Next
<1>. QED  BY <1>1, <1>2

\* What Tenure sees of Keeper.
Ref   == [c \in Client |-> Reference(c)]
Group == IF Pinned THEN "pinned" ELSE "free"
State == IF "own" \in broken THEN "broken" ELSE "works"

Unseen == UNCHANGED <<Ref, Group, State>>

LEMMA OneBecomes ==
  ASSUME NEW c \in Client, NEW x, Reference(c)' = x,
         \A d \in Client \ {c} : Reference(d)' = Reference(d)
  PROVE  Ref' = [Ref EXCEPT ![c] = x]
BY DEF Ref

\* Nobody holds a reference when the group is free: the keeper of the program has ended.
LEMMA FreeIsUnheld ==
  ASSUME IInv', ~Pinned', NEW c \in Client
  PROVE  Reference(c)' # "held"
BY DEF IInv, TypeOK, Serving, Pinned, Reference, Referenced

\* A step with which clients are turned away, or the group becomes free.
LEMMA Withdrawn ==
  ASSUME IInv', NEW S \in SUBSET Client,
         \A c \in S : Reference(c)' = "closed"
                      /\ (Reference(c) = "none" \/ (Reference(c) = "held" /\ "own" \in broken')),
         \A c \in Client \ S : Reference(c)' = Reference(c),
         broken \subseteq broken', Pinned' => Pinned
  PROVE  Promise!Next
<1>1. State' \in {State, "broken"}
  BY DEF State
<1>2. \A c \in S : Ref[c] = "none" \/ (Ref[c] = "held" /\ State' = "broken")
  BY DEF State, Ref
<1>3. Ref' = [c \in Client |-> IF c \in S THEN "closed" ELSE Ref[c]]
  BY DEF Ref
<1>4. Group' \in {Group} \cup (IF Promise!Held' THEN {} ELSE {"free"})
  <2>1. Promise!Held' <=> \E c \in Client : Reference(c)' = "held"
    BY DEF Promise!Held
  <2>. QED  BY <2>1, FreeIsUnheld DEF Group
<1>5. Promise!Withdraw(S)
  BY <1>1, <1>2, <1>3, <1>4 DEF Promise!Withdraw, State, Ref, Group
<1>. QED  BY <1>5 DEF Promise!Next

LEMMA SentrySidePromises ==
  ASSUME IInv, IInv', Holding,
         \/ SentryStep \/ DrainExpired \/ ChildEnds \/ KillSentry \/ OrphanReaped
         \/ Synchronise \/ AddressReused
  PROVE  Promise!Next
<1>. DEFINE S == {c \in Client : tether[c] /\ conn'[c] # conn[c]}
<1>1. /\ UNCHANGED <<pc, host, tether, broken>>
      /\ conn' = conn \/ Drop("own", {"queued"})
      /\ child = "reaped" => child' = "reaped"
      /\ \/ at' = at
         \/ at["own"] = "sync" /\ at' = [at EXCEPT !["own"] = "poll"]
         \/ at["other"] = "absent" /\ at' = [at EXCEPT !["other"] = "poll"]
  BY DEF SentryStep, SentryMonitors, SentryStops, UmbilicalStopped, RemovePidFile, ReapChild,
         DrainExpired, ChildEnds, KillSentry, OrphanReaped, Synchronise, AddressReused, program,
         keeper, wire
<1>2. \A c \in Client : conn'[c] = conn[c] \/ (conn[c] = "queued" /\ conn'[c] = "closed")
  BY <1>1 DEF Drop, IInv, TypeOK
<1>3. /\ at["own"] = "enqueue" <=> at'["own"] = "enqueue"
      /\ at["own"] = "ended" => at'["own"] = "ended"
  BY <1>1 DEF IInv, TypeOK
<1>4. \A c \in S : Reference(c)' = "closed" /\ Reference(c) = "none"
  BY <1>1, <1>2 DEF Reference, Referenced
<1>5. \A c \in Client \ S : Reference(c)' = Reference(c)
  BY <1>1, <1>2, <1>3 DEF Reference, Referenced, IInv, TypeOK
<1>6. Pinned' => Pinned
  BY <1>1, <1>3 DEF Pinned
<1>. QED  BY <1>1, <1>4, <1>5, <1>6, Withdrawn

\* A keeper that ends in order has no reference left.
LEMMA EndsPromises ==
  ASSUME IInv, IInv', Holding, NEW s \in Keepers, Ends(s),
         UNCHANGED <<pc, host, tether>>, broken \subseteq broken',
         child = "reaped" => child' = "reaped", at[s] # "ended",
         s \in broken' \/ (at[s] = "poll" /\ Refs(s) = {})
  PROVE  Promise!Next
<1>. DEFINE S == {c \in Client : tether[c] /\ conn'[c] # conn[c]}
<1>1. /\ at' = [at EXCEPT ![s] = "ended"]
      /\ \A c \in Client : \/ /\ conn'[c] = conn[c]
                              /\ host[c] = s => conn[c] \notin {"served", "held"}
                           \/ /\ host[c] = s /\ conn'[c] = "closed"
                              /\ conn[c] \in {"queued", "served", "held"}
  BY DEF Ends, Drop, IInv, TypeOK
<1>2. \A c \in S : Reference(c)' = "closed"
                   /\ (Reference(c) = "none" \/ (Reference(c) = "held" /\ "own" \in broken'))
  BY <1>1 DEF Reference, Referenced, Holding, OneAtATime, IInv, TypeOK
<1>3. \A c \in Client \ S : Reference(c)' = Reference(c)
  BY <1>1 DEF Reference, Referenced, IInv, TypeOK
<1>4. Pinned' => Pinned
  BY <1>1 DEF Pinned, IInv, TypeOK
<1>. QED  BY <1>2, <1>3, <1>4, Withdrawn

LEMMA KeeperSidePromises ==
  ASSUME IInv, IInv', Holding, NEW s \in Keepers, KeeperStep(s) \/ CleanFails(s) \/ KillKeeper(s)
  PROVE  Unseen \/ Promise!Next
<1>. USE DEF IInv, TypeOK, program, keeper, wire
<1>1. CASE Poll(s) \/ CloseLink(s)
  BY <1>1 DEF Poll, CloseLink, Unseen, Ref, Group, State, Pinned, Reference, Referenced
<1>2. CASE Accept(s)
  <2>1. PICK c \in Queue(s) : conn' = [conn EXCEPT ![c] = "served"]
    BY <1>2 DEF Accept
  <2>2. /\ at[s] = "poll" /\ at' = [at EXCEPT ![s] = "receive"]
        /\ UNCHANGED <<program, broken, pc, host, tether>>
    BY <1>2 DEF Accept, Serve
  <2>3. \A d \in Client : Reference(d)' = Reference(d)
    BY <2>1, <2>2 DEF Reference, Referenced, Holding, OneAtATime
  <2>. QED  BY <2>2, <2>3 DEF Unseen, Ref, Group, State, Pinned
<1>3. CASE Receive(s)
  <2>1. /\ at[s] = "receive" /\ at' = [at EXCEPT ![s] = "acknowledge"]
        /\ UNCHANGED <<program, broken, pc, wire>>
    BY <1>3 DEF Receive
  <2>2. \A d \in Client : Reference(d)' = Reference(d)
    BY <2>1 DEF Reference, Referenced
  <2>. QED  BY <2>1, <2>2 DEF Unseen, Ref, Group, State, Pinned
<1>4. CASE Acknowledge(s)
  <2>1. /\ s = "own" /\ at[s] = "acknowledge" /\ at' = [at EXCEPT ![s] = "enqueue"]
        /\ \A c \in Served(s) : tether[c]
        /\ UNCHANGED <<program, broken, pc, host, conn, tether>>
    BY <1>4 DEF Acknowledge, OwnOnly
  <2>2. PICK c \in Served(s) : TRUE
    BY <2>1 DEF Serving
  <2>3. \A d \in Client \ {c} : d \notin Served(s)
    BY <2>2 DEF Holding, OneAtATime
  <2>4. Reference(c) = "none" /\ Reference(c)' = "held"
    BY <2>1, <2>2 DEF Reference, Referenced
  <2>5. \A d \in Client \ {c} : Reference(d)' = Reference(d)
    BY <2>1, <2>3 DEF Reference, Referenced
  <2>6. Ref' = [Ref EXCEPT ![c] = "held"]
    BY <2>2, <2>4, <2>5, OneBecomes
  <2>7. Group = "pinned" /\ Group' = Group /\ State' = State
    BY <2>1 DEF Group, State, Pinned
  <2>8. Promise!Grant(c)
    BY <2>2, <2>4, <2>6, <2>7 DEF Promise!Grant, Promise!Becomes, Ref, Group, State
  <2>. QED  BY <2>8 DEF Promise!Next
<1>5. CASE Enqueue(s)
  <2>1. /\ s = "own" /\ at[s] = "enqueue" /\ at' = [at EXCEPT ![s] = "poll"]
        /\ conn' = [c \in Client |-> IF c \in Served(s) THEN "held" ELSE conn[c]]
        /\ UNCHANGED <<program, broken, pc, host, tether>>
    BY <1>5 DEF Enqueue, OwnOnly
  <2>2. \A d \in Client : Reference(d)' = Reference(d)
    BY <2>1 DEF Reference, Referenced
  <2>. QED  BY <2>1, <2>2 DEF Unseen, Ref, Group, State, Pinned
<1>6. CASE Refuse(s)
  <2>1. /\ at[s] \in {"receive", "acknowledge"}
        /\ UNCHANGED <<program, pc, host, tether>>
    BY <1>6 DEF Refuse, Refused
  <2>2. CASE Ends(s) /\ broken' = broken \cup {s}
    BY <2>1, <2>2, EndsPromises
  <2>3. CASE /\ at' = [at EXCEPT ![s] = "poll"] /\ Drop(s, {"served"}) /\ UNCHANGED broken
    <3>. DEFINE S == {c \in Client : tether[c] /\ c \in Served(s)}
    <3>1. \A c \in Client : conn'[c] = IF c \in Served(s) THEN "closed" ELSE conn[c]
      BY <2>3 DEF Drop
    <3>2. \A c \in S : Reference(c)' = "closed" /\ Reference(c) = "none"
      BY <2>1, <3>1 DEF Reference, Referenced
    <3>3. \A c \in Client \ S : Reference(c)' = Reference(c)
      BY <2>1, <2>3, <3>1 DEF Reference, Referenced
    <3>4. Pinned' => Pinned
      BY <2>1, <2>3 DEF Pinned
    <3>. QED  BY <2>3, <3>2, <3>3, <3>4, Withdrawn
  <2>. QED  BY <1>6, <2>2, <2>3 DEF Refuse
<1>7. CASE Clean(s)
  <2>1. PICK S \in SUBSET Expired(s) \ {{}} :
          conn' = [c \in Client |-> IF c \in S THEN "closed" ELSE conn[c]]
    BY <1>7 DEF Clean
  <2>2. UNCHANGED <<program, broken, at, pc, host, tether>>
    BY <1>7 DEF Clean
  <2>3. \A d \in Client : Reference(d)' = Reference(d)
    BY <2>1, <2>2 DEF Reference, Referenced
  <2>. QED  BY <2>2, <2>3 DEF Unseen, Ref, Group, State, Pinned
<1>8. CASE CleanFails(s)
  <2>1. broken' = broken \cup {s} /\ UNCHANGED <<program, at, pc, wire>>
    BY <1>8 DEF CleanFails
  <2>. DEFINE S == {c \in Client : FALSE}
  <2>2. /\ \A c \in S : Reference(c)' = "closed"
                      /\ (Reference(c) = "none" \/ (Reference(c) = "held" /\ "own" \in broken'))
        /\ \A c \in Client \ S : Reference(c)' = Reference(c)
    BY <2>1 DEF Reference, Referenced
  <2>3. Pinned' => Pinned
    BY <2>1 DEF Pinned
  <2>. QED  BY <2>1, <2>2, <2>3, Withdrawn
<1>9. CASE LoopDone(s)
  <2>1. /\ at[s] = "poll" /\ Ends(s) /\ ~polled[s]
        /\ child = "reaped" => child' = "reaped"
        /\ UNCHANGED <<pc, host, tether, broken>>
    BY <1>9 DEF LoopDone, Complete
  <2>2. s \in broken \/ Refs(s) = {}
    BY <2>1 DEF Polling
  <2>. QED  BY <2>1, <2>2, EndsPromises
<1>10. CASE KillKeeper(s)
  <2>1. /\ at[s] # "ended" /\ Ends(s) /\ broken' = broken \cup {s}
        /\ UNCHANGED <<program, pc, host, tether>>
    BY <1>10 DEF KillKeeper
  <2>. QED  BY <2>1, EndsPromises
<1>. QED
  BY <1>1, <1>2, <1>3, <1>4, <1>5, <1>6, <1>7, <1>8, <1>9, <1>10 DEF KeeperStep

\* A client that goes before its end.
LEMMA Leaves ==
  ASSUME IInv, Holding, NEW c \in Client, pc[c] \notin Final,
         tether' = [tether EXCEPT ![c] = FALSE], pc'[c] # "ok",
         \A d \in Client \ {c} : pc'[d] = pc[d],
         UNCHANGED <<program, keeper, host, conn, broken>>
  PROVE  Unseen \/ Promise!Next
<1>. USE DEF IInv, TypeOK, program, keeper
<1>1. \A d \in Client \ {c} : Reference(d)' = Reference(d)
  BY DEF Reference, Referenced
<1>2. Group' = Group /\ State' = State
  BY DEF Group, State, Pinned
<1>3. CASE conn[c] = "none"
  <2>1. Reference(c)' = Reference(c)
    BY <1>3 DEF Reference
  <2>. QED  BY <1>1, <1>2, <2>1 DEF Unseen, Ref
<1>4. CASE conn[c] # "none"
  <2>1. Reference(c) \in {"none", "held", "closed"} /\ Reference(c)' = "over"
    BY <1>4 DEF Reference, Holding, Tethered
  <2>2. Ref' = [Ref EXCEPT ![c] = "over"]
    BY <1>1, <2>1, OneBecomes
  <2>3. Promise!Leave(c)
    BY <1>2, <2>1, <2>2 DEF Promise!Leave, Promise!Becomes, Ref, Group, State
  <2>. QED  BY <2>3 DEF Promise!Next
<1>. QED  BY <1>3, <1>4

LEMMA ClientSidePromises ==
  ASSUME IInv, Holding, NEW c \in Client,
         ClientStep(c) \/ ForkFails(c) \/ CommandFails(c) \/ CommandSucceeds(c) \/ KillClient(c)
  PROVE  Unseen \/ Promise!Next
<1>. USE DEF IInv, TypeOK, program, keeper, wire
<1>1. CASE \/ OpenPidFile(c) \/ ReadPidFile(c) \/ SendPart(c) \/ ReadAck(c) \/ ForkCommand(c)
  <2>1. /\ pc[c] \notin Final /\ pc'[c] # "ok" /\ \A d \in Client \ {c} : pc'[d] = pc[d]
        /\ UNCHANGED <<program, keeper, broken, host, conn, tether>>
    BY <1>1 DEF OpenPidFile, ReadPidFile, SendPart, ReadAck, ForkCommand, Goes, Unreferenced
  <2>2. \A d \in Client : Reference(d)' = Reference(d)
    BY <2>1 DEF Reference, Referenced
  <2>. QED  BY <2>1, <2>2 DEF Unseen, Ref, Group, State, Pinned
<1>2. ASSUME NEW s \in Keepers, Connect(c, s) PROVE Unseen
  <2>1. /\ conn[c] = "none" /\ pc[c] = "read" /\ pc' = [pc EXCEPT ![c] = "send"]
        /\ host' = [host EXCEPT ![c] = s] /\ conn' = [conn EXCEPT ![c] = "queued"]
        /\ tether' = [tether EXCEPT ![c] = TRUE]
        /\ UNCHANGED <<program, keeper, broken>>
    BY <1>2 DEF Connect, Goes, Connected
  <2>2. \A d \in Client : Reference(d)' = Reference(d)
    BY <2>1 DEF Reference, Referenced
  <2>. QED  BY <2>1, <2>2 DEF Unseen, Ref, Group, State, Pinned
<1>3. CASE ConnectFails(c) \/ SendFails(c) \/ ReadFails(c) \/ ForkFails(c)
  <2>1. PICK from \in {"read", "send", "wait", "fork"} : GivesUp(c, from)
    BY <1>3 DEF ConnectFails, SendFails, ReadFails, ForkFails
  <2>2. /\ pc[c] \notin Final /\ pc'[c] # "ok" /\ \A d \in Client \ {c} : pc'[d] = pc[d]
        /\ tether' = [tether EXCEPT ![c] = FALSE]
        /\ UNCHANGED <<program, keeper, host, conn, broken>>
    BY <2>1 DEF GivesUp, Goes
  <2>. QED  BY <2>2, Leaves
<1>4. CASE CommandFails(c)
  <2>1. /\ pc[c] \notin Final /\ pc'[c] # "ok" /\ \A d \in Client \ {c} : pc'[d] = pc[d]
        /\ tether' = [tether EXCEPT ![c] = FALSE]
        /\ UNCHANGED <<program, keeper, host, conn, broken>>
    BY <1>4 DEF CommandFails, Goes
  <2>. QED  BY <2>1, Leaves
<1>5. CASE CommandSucceeds(c)
  <2>1. /\ pc[c] = "command" /\ tether' = [tether EXCEPT ![c] = FALSE]
        /\ pc' = [pc EXCEPT ![c] = IF tether[c] /\ conn[c] = "closed" THEN "lost" ELSE "ok"]
        /\ UNCHANGED <<program, keeper, host, conn, broken>>
    BY <1>5 DEF CommandSucceeds, Goes
  <2>2. CASE tether[c] /\ conn[c] = "closed"
    <3>1. pc[c] \notin Final /\ pc'[c] # "ok" /\ \A d \in Client \ {c} : pc'[d] = pc[d]
      BY <2>1, <2>2
    <3>. QED  BY <2>1, <3>1, Leaves
  <2>3. CASE conn[c] = "none"
    <3>1. \A d \in Client : Reference(d)' = Reference(d)
      BY <2>1, <2>3 DEF Reference, Referenced
    <3>. QED  BY <2>1, <3>1 DEF Unseen, Ref, Group, State, Pinned
  <2>4. CASE conn[c] \notin {"none", "closed"}
    <3>1. tether[c] /\ c \in Served("own") \cup Refs("own")
      BY <2>1, <2>4 DEF Holding, Tethered, Acknowledged
    <3>2. c \in Served("own") => at["own"] = "enqueue"
      BY <2>1, <3>1 DEF Holding, OneAtATime
    <3>3. Reference(c) = "held" /\ Reference(c)' = "vouched"
      BY <2>1, <2>4, <3>1, <3>2 DEF Reference, Referenced
    <3>4. \A d \in Client \ {c} : Reference(d)' = Reference(d)
      BY <2>1 DEF Reference, Referenced
    <3>5. Ref' = [Ref EXCEPT ![c] = "vouched"]
      BY <3>3, <3>4, OneBecomes
    <3>6. Group = "pinned" /\ Group' = Group /\ State' = State
      BY <2>1, <3>1 DEF Group, State, Pinned, Serving
    <3>7. Promise!Vouch(c)
      BY <3>3, <3>5, <3>6 DEF Promise!Vouch, Promise!Becomes, Ref, Group, State
    <3>. QED  BY <3>7 DEF Promise!Next
  <2>5. conn[c] = "closed" => tether[c]
    BY <2>1 DEF Holding, Tethered
  <2>. QED  BY <2>2, <2>3, <2>4, <2>5
<1>6. CASE KillClient(c)
  <2>1. /\ pc[c] \notin Final /\ pc'[c] # "ok" /\ \A d \in Client \ {c} : pc'[d] = pc[d]
        /\ tether' = [tether EXCEPT ![c] = FALSE]
        /\ UNCHANGED <<program, keeper, host, conn, broken>>
    BY <1>6 DEF KillClient
  <2>. QED  BY <2>1, Leaves
<1>. QED  BY <1>1, <1>2, <1>3, <1>4, <1>5, <1>6 DEF ClientStep

\* Step by step Keeper does what Tenure does, or what Tenure does not see: a command whose
\* success is reported, having asked for a reference, held it to its end, and the process
\* group of the program was pinned all the time.
THEOREM Tenures == Spec => ImplementsTenure
<1>1. Init => Promise!Init
  BY DEF Init, Promise!Init, Reference, Pinned
<1>2. IInv /\ IInv' /\ Holding /\ [Next]_vars => [Promise!Next]_(Promise!tenure)
  <2>. SUFFICES ASSUME IInv, IInv', Holding, [Next]_vars
                PROVE  Unseen \/ Promise!Next
    BY DEF Unseen, Ref, Group, State, Promise!tenure
  <2>1. CASE UNCHANGED vars
    BY <2>1 DEF vars, program, keeper, wire, Unseen, Ref, Group, State, Pinned, Reference,
                Referenced
  <2>2. CASE Next
    BY <2>2, SentrySidePromises, KeeperSidePromises, ClientSidePromises DEF Next
  <2>. QED  BY <2>1, <2>2
<1>. QED
  BY <1>1, <1>2, Invariance, HoldingInit, HoldingStep, PTL
     DEF Spec, ImplementsTenure, Promise!Spec
=============================================================================
