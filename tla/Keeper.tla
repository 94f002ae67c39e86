------------------------------- MODULE Keeper -------------------------------
(***************************************************************************)
(* The references that client commands hold to a program: the pid server   *)
(* in the umbilical process, called the keeper, its clients, and what both *)
(* have to do with the shutdown of the sentry.                             *)
(*                                                                         *)
(* A client reads the pidfile under its shared lock, connects to the       *)
(* keeper whose address it has read, sends the signature it has read, and  *)
(* waits to be acknowledged.  Its connection is the reference: the keeper  *)
(* does not end while it is open.  When a keeper has ended, its address    *)
(* may be taken by the keeper of another program, in the worst case one    *)
(* whose child has the same pid.  The creation of the pidfile is in        *)
(* PidFile.                                                                *)
(***************************************************************************)
EXTENDS Integers

CONSTANTS
  Client,    \* processes that run `pidsentry -c`
  Mode,      \* what the clients may be
  Fault,     \* what may go wrong
  MaxFaults  \* how often anything does

\* A client may be run with --relaxed, by another user, or stop to do anything.
Sorts == {"relaxed", "stranger", "idle"}

Faults == {"kill", "drain", "clean", "fork"}

ASSUME KeeperAssumption ==
  /\ Mode \subseteq [Client -> SUBSET Sorts]
  /\ Fault \subseteq Faults /\ MaxFaults \in Nat

\* The keeper of this program, and that of another.
Keepers == {"own", "other"}

VARIABLES
  mode,       \* what each client is
  sentry,     \* what the sentry has come to
  child,      \* the child process
  pidfile,    \* the pidfile names the child
  link,       \* what the keeper has got from its sentry
  at,         \* what each keeper has come to
  turn,       \* the descriptors reported to its loop and not served yet
  accepting,  \* POLL_FD_MONITOR_PIDSERVER is polled
  polled,     \* POLL_FD_MONITOR_PIDCLIENT is polled
  pc,         \* what each client has come to
  host,       \* the keeper it is connected to
  conn,       \* what the keeper has made of the connection
  sent,       \* how many of the three parts of the signature are sent
  tether,     \* the client has its end of the connection open
  ack,        \* the acknowledgement is to be read by the client
  faults,     \* how often something has gone wrong
  broken      \* history: the keeper that was killed, or whose loop has failed

program == <<sentry, child, pidfile, link>>
keeper  == <<at, turn, accepting, polled>>
wire    == <<host, conn, sent, tether, ack>>
vars == <<mode, program, keeper, pc, wire, faults, broken>>

SentryPlace == {"start", "monitor", "stop", "drain", "lock", "reap", "done"}
KeeperPlace == {"absent", "sync", "poll", "receive", "acknowledge", "enqueue", "ended"}
Locked      == {"read", "send", "wait"}
Final       == {"ok", "exited", "lost", "failed", "killed"}
ClientPlace == {"idle", "open", "fork", "command"} \cup Locked \cup Final

Parts == 3

TypeOK ==
  /\ mode \in Mode
  /\ sentry \in SentryPlace
  /\ child \in {"running", "dead", "reaped"} /\ pidfile \in BOOLEAN
  /\ link \in {"quiet", "open", "closed"}
  /\ at \in [Keepers -> KeeperPlace]
  /\ turn \in [Keepers -> SUBSET {"link", "server", "client"}]
  /\ accepting \in [Keepers -> BOOLEAN] /\ polled \in [Keepers -> BOOLEAN]
  /\ pc \in [Client -> ClientPlace]
  /\ host \in [Client -> Keepers \cup {"none"}]
  /\ conn \in [Client -> {"none", "queued", "served", "held", "closed"}]
  /\ sent \in [Client -> 0..Parts]
  /\ tether \in [Client -> BOOLEAN] /\ ack \in [Client -> BOOLEAN]
  /\ faults \in 0..MaxFaults
  /\ broken \subseteq Keepers

\* The child is forked, the pidfile names it, and the umbilical process is there.
Init ==
  /\ mode \in Mode
  /\ sentry = "start" /\ child = "running" /\ pidfile = TRUE /\ link = "quiet"
  /\ at = [s \in Keepers |-> IF s = "own" THEN "sync" ELSE "absent"]
  /\ turn = [s \in Keepers |-> {}]
  /\ accepting = [s \in Keepers |-> TRUE] /\ polled = [s \in Keepers |-> FALSE]
  /\ pc = [c \in Client |-> "idle"]
  /\ host = [c \in Client |-> "none"] /\ conn = [c \in Client |-> "none"]
  /\ sent = [c \in Client |-> 0]
  /\ tether = [c \in Client |-> FALSE] /\ ack = [c \in Client |-> FALSE]
  /\ faults = 0 /\ broken = {}

----------------------------------------------------------------------------
\* Connections, references and signatures.

At(s, state) == {c \in Client : host[c] = s /\ conn[c] = state}
Queue(s)     == At(s, "queued")
Served(s)    == At(s, "served")
Refs(s)      == At(s, "held")

\* References of clients that have gone.
Expired(s) == {c \in Refs(s) : ~tether[c]}

\* The process group of the child cannot be used for anything else: the child is not
\* reaped, or the keeper has its anchor in the group.
Pinned == child # "reaped" \/ at["own"] # "ended"

\* A pid that was used again has the start time of its new process in its signature.
Signature(s) == [pid |-> 1, start |-> IF s = "own" THEN 1 ELSE 2]

\* Mutant of rankPidSignature: the pids are compared only.
rankPidOnly(a, b) == a.pid - b.pid

rankPidSignature(a, b) == IF a.pid = b.pid THEN a.start - b.start ELSE a.pid - b.pid

\* The sentry has the socket open too until runSentry() has the umbilical process.
Listening(s) ==
  \/ at[s] \notin {"absent", "ended"}
  \/ s = "own" /\ sentry = "start"

\* The connections of the keeper s in S are closed by the keeper.
Drop(s, S) ==
  conn' = [c \in Client |-> IF host[c] = s /\ conn[c] \in S THEN "closed" ELSE conn[c]]

Happens(f) ==
  /\ f \in Fault
  /\ faults < MaxFaults
  /\ faults' = faults + 1

----------------------------------------------------------------------------
\* The sentry, from runSentry() on.

\* It closes its own copy of the pid server, and pings for the first time.
SentryMonitors ==
  /\ sentry = "start"
  /\ sentry' = "monitor" /\ link' = "open"
  /\ IF at["own"] = "ended" THEN Drop("own", {"queued"}) ELSE UNCHANGED conn
  /\ UNCHANGED <<mode, child, pidfile, keeper, pc, host, sent, tether, ack, faults, broken>>

\* The child ends by itself, or is ended because the umbilical process is lost.
ChildEnds ==
  /\ child = "running"
  /\ child' = "dead"
  /\ UNCHANGED <<mode, sentry, pidfile, link, keeper, pc, wire, faults, broken>>

\* stopUmbilicalProcess().
SentryStops ==
  /\ sentry = "monitor"
  /\ child = "dead"
  /\ sentry' = "drain" /\ link' = "closed"
  /\ UNCHANGED <<mode, child, pidfile, keeper, pc, wire, faults, broken>>

\* It comes back when the umbilical process has ended, or ...
UmbilicalStopped ==
  /\ sentry = "drain"
  /\ at["own"] = "ended"
  /\ sentry' = "lock"
  /\ UNCHANGED <<mode, child, pidfile, link, keeper, pc, wire, faults, broken>>

\* ... when it has taken too long to drain the socket.
DrainExpired ==
  /\ Happens("drain")
  /\ sentry = "drain"
  /\ sentry' = "lock"
  /\ UNCHANGED <<mode, child, pidfile, link, keeper, pc, wire, broken>>

\* Under the exclusive lock of the pidfile.
RemovePidFile ==
  /\ sentry = "lock"
  /\ \A c \in Client : pc[c] \notin Locked
  /\ sentry' = "reap" /\ pidfile' = FALSE
  /\ UNCHANGED <<mode, child, link, keeper, pc, wire, faults, broken>>

ReapChild ==
  /\ sentry = "reap"
  /\ sentry' = "done" /\ child' = "reaped"
  /\ UNCHANGED <<mode, pidfile, link, keeper, pc, wire, faults, broken>>

\* The pidfile stays, the link ends, and nobody has the socket open for the keeper.
KillSentry ==
  /\ Happens("kill")
  /\ sentry # "done"
  /\ sentry' = "done" /\ link' = "closed"
  /\ IF at["own"] = "ended" THEN Drop("own", {"queued"}) ELSE UNCHANGED conn
  /\ UNCHANGED <<mode, child, pidfile, keeper, pc, host, sent, tether, ack, broken>>

\* init(8) reaps the child of a sentry that was killed.
OrphanReaped ==
  /\ sentry = "done" /\ child = "dead"
  /\ child' = "reaped"
  /\ UNCHANGED <<mode, sentry, pidfile, link, keeper, pc, wire, faults, broken>>

----------------------------------------------------------------------------
\* The keeper: the loop of the umbilical monitor, as far as it has to do with clients.

\* It waits for the first ping.  A link that has ended without one is closed at once.
Synchronise ==
  /\ at["own"] = "sync"
  /\ link # "quiet"
  /\ at' = [at EXCEPT !["own"] = "poll"]
  /\ \E open \in {TRUE, link # "closed"} : accepting' = [accepting EXCEPT !["own"] = open]
  /\ UNCHANGED <<mode, program, turn, polled, pc, wire, faults, broken>>

Complete(s) == ~accepting[s] /\ ~polled[s]

Reported(s) ==
  {x \in {"link", "server", "client"} :
     \/ x = "link"   /\ accepting[s] /\ s = "own" /\ link = "closed"
     \/ x = "server" /\ accepting[s] /\ Queue(s) # {}
     \/ x = "client" /\ polled[s] /\ Expired(s) # {}}

Poll(s) ==
  /\ at[s] = "poll" /\ turn[s] = {}
  /\ ~Complete(s) /\ Reported(s) # {}
  /\ turn' = [turn EXCEPT ![s] = Reported(s)]
  /\ UNCHANGED <<mode, program, at, accepting, polled, pc, wire, faults, broken>>

\* The descriptors of a turn are served in any order.
Serve(s, x) ==
  /\ at[s] = "poll"
  /\ x \in turn[s]
  /\ turn' = [turn EXCEPT ![s] = @ \ {x}]

\* closeFdUmbilical_() disconnects the pid server as well.
CloseLink(s) ==
  /\ Serve(s, "link")
  /\ accepting' = [accepting EXCEPT ![s] = FALSE]
  /\ UNCHANGED <<mode, program, at, polled, pc, wire, faults, broken>>

\* The process s ends: its connections are closed.  Those it has not accepted are open
\* as long as the sentry has the socket open as well.
Ends(s) ==
  /\ at' = [at EXCEPT ![s] = "ended"]
  /\ turn' = [turn EXCEPT ![s] = {}]
  /\ Drop(s, {"served", "held"} \cup
             IF s = "own" /\ sentry = "start" THEN {} ELSE {"queued"})

\* acceptPidServerConnection(), up to the credentials of the client ...
Accept(s) ==
  /\ Serve(s, "server")
  /\ \E c \in Queue(s) : conn' = [conn EXCEPT ![c] = "served"]
  /\ at' = [at EXCEPT ![s] = "receive"]
  /\ UNCHANGED <<mode, program, accepting, polled, pc, host, sent, tether, ack, faults, broken>>

\* ... its signature ...
Receive(s) ==
  /\ at[s] = "receive"
  /\ \A c \in Served(s) :
       /\ "stranger" \notin mode[c]
       /\ sent[c] = Parts
       /\ rankPidSignature(Signature(s), Signature("own")) = 0
  /\ at' = [at EXCEPT ![s] = "acknowledge"]
  /\ UNCHANGED <<mode, program, turn, accepting, polled, pc, wire, faults, broken>>

\* ... the acknowledgement ...
Acknowledge(s) ==
  /\ at[s] = "acknowledge"
  /\ \A c \in Served(s) : tether[c]
  /\ ack' = [c \in Client |-> ack[c] \/ c \in Served(s)]
  /\ at' = [at EXCEPT ![s] = "enqueue"]
  /\ UNCHANGED <<mode, program, turn, accepting, polled, pc, host, conn, sent, tether, faults,
                 broken>>

\* Mutant of Enqueue: the event queue is not polled.
EnqueueOnly(s) ==
  /\ at[s] = "enqueue"
  /\ at' = [at EXCEPT ![s] = "poll"]
  /\ conn' = [c \in Client |-> IF c \in Served(s) THEN "held" ELSE conn[c]]
  /\ UNCHANGED <<mode, program, turn, accepting, polled, pc, host, sent, tether, ack, faults,
                 broken>>

\* ... and the reference; the event queue is polled from now on.
Enqueue(s) ==
  /\ at[s] = "enqueue"
  /\ at' = [at EXCEPT ![s] = "poll"]
  /\ conn' = [c \in Client |-> IF c \in Served(s) THEN "held" ELSE conn[c]]
  /\ polled' = [polled EXCEPT ![s] = TRUE]
  /\ UNCHANGED <<mode, program, turn, accepting, pc, host, sent, tether, ack, faults, broken>>

\* Mutant of Refused: there is no deadline.
RefusedWithoutDeadline(s, c) ==
  \/ at[s] = "receive" /\ "stranger" \in mode[c]
  \/ at[s] = "receive" /\ rankPidSignature(Signature(s), Signature("own")) # 0
  \/ at[s] = "acknowledge" /\ ~tether[c]

\* Why a client is not acknowledged; the deadline is for all of its signature.
Refused(s, c) ==
  \/ at[s] = "receive" /\ "stranger" \in mode[c]
  \/ at[s] = "receive" /\ sent[c] < Parts
  \/ at[s] = "receive" /\ rankPidSignature(Signature(s), Signature("own")) # 0
  \/ at[s] = "acknowledge" /\ ~tether[c]

\* The connection is discarded.  The handler fails, and the loop may end for it.
Refuse(s) ==
  /\ \E c \in Served(s) : Refused(s, c)
  /\ \/ /\ at' = [at EXCEPT ![s] = "poll"]
        /\ Drop(s, {"served"})
        /\ UNCHANGED <<turn, broken>>
     \/ Ends(s) /\ broken' = broken \cup {s}
  /\ UNCHANGED <<mode, program, accepting, polled, pc, host, sent, tether, ack, faults>>

\* Mutant of Clean: an empty queue is polled.
CleanOnly(s) ==
  /\ Serve(s, "client")
  /\ \E S \in SUBSET Expired(s) \ {{}} :
       conn' = [c \in Client |-> IF c \in S THEN "closed" ELSE conn[c]]
  /\ UNCHANGED <<mode, program, at, accepting, polled, pc, host, sent, tether, ack, faults,
                 broken>>

\* cleanPidServer() serves some of the clients that have gone.
Clean(s) ==
  /\ Serve(s, "client")
  /\ \E S \in SUBSET Expired(s) \ {{}} :
       /\ conn' = [c \in Client |-> IF c \in S THEN "closed" ELSE conn[c]]
       /\ polled' = [polled EXCEPT ![s] = (Refs(s) # S)]
  /\ UNCHANGED <<mode, program, at, accepting, pc, host, sent, tether, ack, faults, broken>>

\* A failure of cleanPidServer() is taken for an empty queue.
CleanFails(s) ==
  /\ Happens("clean")
  /\ Serve(s, "client")
  /\ polled' = [polled EXCEPT ![s] = FALSE]
  /\ broken' = broken \cup {s}
  /\ UNCHANGED <<mode, program, at, accepting, pc, wire>>

\* The loop is done; the group of the child is killed as the process ends.
LoopDone(s) ==
  /\ at[s] = "poll" /\ turn[s] = {}
  /\ Complete(s)
  /\ Ends(s)
  /\ child' = IF child = "running" THEN "dead" ELSE child
  /\ UNCHANGED <<mode, sentry, pidfile, link, accepting, polled, pc, host, sent, tether, ack,
                 faults, broken>>

KillKeeper(s) ==
  /\ Happens("kill")
  /\ at[s] \notin {"absent", "ended"}
  /\ Ends(s)
  /\ broken' = broken \cup {s}
  /\ UNCHANGED <<mode, program, accepting, polled, pc, host, sent, tether, ack>>

\* The kernel gives the address to the socket of another program.
AddressReused ==
  /\ ~Listening("own")
  /\ at["other"] = "absent"
  /\ at' = [at EXCEPT !["other"] = "poll"]
  /\ UNCHANGED <<mode, program, turn, accepting, polled, pc, wire, faults, broken>>

----------------------------------------------------------------------------
\* The client: createCommand(), runCommand() and reapCommand().

Goes(c, from, to) ==
  /\ pc[c] = from
  /\ pc' = [pc EXCEPT ![c] = to]

\* The client gives up: its end of the connection is closed.
GivesUp(c, from) ==
  /\ Goes(c, from, "failed")
  /\ tether' = [tether EXCEPT ![c] = FALSE]
  /\ UNCHANGED <<mode, program, keeper, host, conn, sent, ack, faults, broken>>

\* A relaxed client runs its command without a reference.
Unreferenced(c) == IF "relaxed" \in mode[c] THEN "fork" ELSE "failed"

OpenPidFile(c) ==
  /\ Goes(c, "idle", IF pidfile THEN "open" ELSE Unreferenced(c))
  /\ UNCHANGED <<mode, program, keeper, wire, faults, broken>>

\* Under the shared lock.  A file that was removed meanwhile is empty, and that makes it
\* malformed; a pid that is no more, or no longer that process, makes it a zombie.
ReadPidFile(c) ==
  /\ Goes(c, "open", IF ~pidfile THEN "failed"
                     ELSE IF child = "reaped" THEN Unreferenced(c) ELSE "read")
  /\ UNCHANGED <<mode, program, keeper, wire, faults, broken>>

Connect(c, s) ==
  /\ Listening(s)
  /\ Goes(c, "read", "send")
  /\ host' = [host EXCEPT ![c] = s]
  /\ conn' = [conn EXCEPT ![c] = "queued"]
  /\ tether' = [tether EXCEPT ![c] = TRUE]
  /\ UNCHANGED <<mode, program, keeper, sent, ack, faults, broken>>

ConnectFails(c) ==
  /\ \A s \in Keepers : ~Listening(s)
  /\ GivesUp(c, "read")

\* Mutant of SendPart: it goes on sending.
SendPartOn(c) ==
  /\ conn[c] # "closed"
  /\ Goes(c, "send", "send")
  /\ sent' = [sent EXCEPT ![c] = @ + 1]
  /\ UNCHANGED <<mode, program, keeper, host, conn, tether, ack, faults, broken>>

\* sendPidSignature() writes the pid, the length of the signature, and the signature.
SendPart(c) ==
  /\ conn[c] # "closed"
  /\ Goes(c, "send", IF sent[c] + 1 = Parts THEN "wait" ELSE "send")
  /\ sent' = [sent EXCEPT ![c] = @ + 1]
  /\ UNCHANGED <<mode, program, keeper, host, conn, tether, ack, faults, broken>>

SendFails(c) == conn[c] = "closed" /\ GivesUp(c, "send")

\* The lock of the pidfile is released as well.
ReadAck(c) ==
  /\ ack[c]
  /\ Goes(c, "wait", "fork")
  /\ ack' = [ack EXCEPT ![c] = FALSE]
  /\ UNCHANGED <<mode, program, keeper, host, conn, sent, tether, faults, broken>>

ReadFails(c) == ~ack[c] /\ conn[c] = "closed" /\ GivesUp(c, "wait")

\* The process of the command does not keep the connection.
ForkCommand(c) ==
  /\ Goes(c, "fork", "command")
  /\ UNCHANGED <<mode, program, keeper, wire, faults, broken>>

ForkFails(c) == "fork" \in Fault /\ GivesUp(c, "fork")

\* The exit code of the command is that of the client.
CommandFails(c) ==
  /\ Goes(c, "command", "exited")
  /\ tether' = [tether EXCEPT ![c] = FALSE]
  /\ UNCHANGED <<mode, program, keeper, host, conn, sent, ack, faults, broken>>

\* "Do not allow a positive result to mask the loss of the reference": the connection is
\* readable only when the keeper has closed it.
CommandSucceeds(c) ==
  /\ Goes(c, "command", IF tether[c] /\ conn[c] = "closed" THEN "lost" ELSE "ok")
  /\ tether' = [tether EXCEPT ![c] = FALSE]
  /\ UNCHANGED <<mode, program, keeper, host, conn, sent, ack, faults, broken>>

KillClient(c) ==
  /\ Happens("kill")
  /\ pc[c] \notin Final \cup {"idle"}
  /\ pc' = [pc EXCEPT ![c] = "killed"]
  /\ tether' = [tether EXCEPT ![c] = FALSE]
  /\ UNCHANGED <<mode, program, keeper, host, conn, sent, ack, broken>>

----------------------------------------------------------------------------
SentryStep ==
  SentryMonitors \/ SentryStops \/ UmbilicalStopped \/ RemovePidFile \/ ReapChild

KeeperStep(s) ==
  \/ Poll(s) \/ CloseLink(s) \/ Accept(s) \/ Receive(s) \/ Acknowledge(s)
  \/ Enqueue(s) \/ Refuse(s) \/ Clean(s) \/ LoopDone(s)

ClientStep(c) ==
  \/ OpenPidFile(c) \/ ReadPidFile(c) \/ (\E s \in Keepers : Connect(c, s))
  \/ ConnectFails(c) \/ SendPart(c) \/ SendFails(c) \/ ReadAck(c) \/ ReadFails(c)
  \/ ForkCommand(c)

Next ==
  \/ SentryStep \/ DrainExpired \/ ChildEnds \/ KillSentry \/ OrphanReaped
  \/ Synchronise \/ AddressReused
  \/ \E s \in Keepers : KeeperStep(s) \/ CleanFails(s) \/ KillKeeper(s)
  \/ \E c \in Client : \/ ClientStep(c) \/ ForkFails(c)
                       \/ CommandFails(c) \/ CommandSucceeds(c) \/ KillClient(c)

Spec == Init /\ [][Next]_vars

\* The processes run, but for the idle clients.  No command has to end.
Fairness ==
  /\ WF_vars(SentryStep) /\ WF_vars(Synchronise)
  /\ \A s \in Keepers : WF_vars(KeeperStep(s))
  /\ \A c \in Client : WF_vars("idle" \notin mode[c] /\ ClientStep(c))

FairSpec == Spec /\ Fairness

----------------------------------------------------------------------------
\* Properties.

\* "The PidSentry Command uses the PidServer to ensure that the pid named in the Pid File
\* is active and is not re-used while the Command is running" (README.md:109): a command
\* that succeeds was referenced by the keeper of that very child to its end, and the
\* process group of the child was there all the time.
SuccessMeansReference ==
  [][\A c \in Client :
       pc[c] = "command" /\ pc'[c] = "ok" /\ tether[c]
         => Pinned /\ c \in Refs("own") \cup Served("own")]_vars

\* The keeper of the program keeps the promise of Tenure to its clients.  A client holds
\* its reference from the acknowledgement on, and gives it up with its connection; one
\* that has never had a connection may still run its command, for which nobody vouches.
Referenced(c) ==
  /\ host[c] = "own"
  /\ conn[c] = "held" \/ (conn[c] = "served" /\ at["own"] = "enqueue")

Reference(c) ==
  CASE conn[c] = "none" -> "none"
    [] conn[c] # "none" /\ ~tether[c] -> IF pc[c] = "ok" THEN "vouched" ELSE "over"
    [] conn[c] = "closed" /\ tether[c] -> "closed"
    [] Referenced(c) /\ tether[c] -> "held"
    [] OTHER -> "none"

Promise == INSTANCE Tenure WITH
  Holder <- Client,
  ref    <- [c \in Client |-> Reference(c)],
  group  <- IF Pinned THEN "pinned" ELSE "free",
  keeper <- IF "own" \in broken THEN "broken" ELSE "works"
ImplementsTenure == Promise!Spec

\* The keeper does not drop the reference of a client that keeps its connection, nor end
\* before it is given up, unless it is killed or its loop fails.
ReferencesHoldKeeper ==
  [][\A s \in Keepers \ broken' : \A c \in Refs(s) : conn'[c] = "closed" => ~tether[c]]_vars

\* A client that has sent its signature gets an answer, whatever other clients do.  The
\* exception is a keeper that has been told to stop: it answers nobody, and ends when the
\* last reference is given up.
AnswersCome ==
  \A c \in Client :
    "idle" \notin mode[c] /\ pc[c] = "wait"
      ~> pc[c] # "wait" \/ (~accepting["own"] /\ Refs("own") # {})

\* A keeper that has been told to stop ends, unless a client keeps its reference.
KeeperEnds ==
  ~accepting["own"] ~> at["own"] = "ended" \/ \E c \in Refs("own") : tether[c]
=============================================================================
